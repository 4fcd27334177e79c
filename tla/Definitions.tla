------------------------------ MODULE Definitions ------------------------------
(***************************************************************************)
(* The definition store and the snapshots of runs (definition-store.ts,    *)
(* snapshot.ts, ADR-0018).  Every definition is a list of versions that    *)
(* never change, and a lifecycle; a run collects, one read after another,  *)
(* the closure of what its workflow references, while others go on saving, *)
(* enabling and disabling.                                                 *)
(***************************************************************************)
EXTENDS Naturals, Sequences, SequencesExt

CONSTANTS
    Names,      \* of definitions, each of one kind:
    KindOf,     \* "workflow", "gate-set", "profile", "experiment" or "rubric"
    Documents,  \* of a name: what may be saved under it, equal when the canonical forms are
    Refs,       \* what a document refers to, in the order of its nodes
    Valid,      \* the workflow documents validateGraph accepts
    Root,       \* the workflow that is started
    MaxDepth,   \* of composed profiles
    Runs,
    MaxSaves, MaxTurns  \* bounds: documents saved, lifecycles changed

VARIABLES
    versions,   \* of a name: its documents, the version being the position
    lifecycle,
    resolution, \* of a run: what is read next, what is to be collected, what has been
    saves, turns

definitionVars == <<versions, lifecycle, resolution, saves, turns>>

\* A reference names a version, or none (0); of an experiment it may leave the rubric
\* to the document.
Ref == [name : Names, version : Nat, rubric : BOOLEAN, depth : Nat]
refs(d, depth) ==
    [i \in DOMAIN Refs[d] |->
        LET ref == Refs[d][i] IN
        [name |-> ref.name, version |-> ref.version, rubric |-> ref.rubric, depth |-> depth]]

latest(n) == Len(versions[n])

\* The definitions there are, all enabled or one of them still a draft.
DefinitionsInit(contents) ==
    /\ versions = contents
    /\ lifecycle \in {[n \in Names |-> IF n \in off THEN "draft" ELSE "enabled"] :
                        off \in {{}} \cup {{n} : n \in Names}}
    /\ resolution = [r \in Runs |-> [pc |-> "idle", todo |-> <<>>, found |-> 0, collected |-> {}]]
    /\ saves = 0 /\ turns = 0

--------------------------------------------------------------------------------
(* The store                                                                    *)

\* An unchanged document mints no version.
minted(n, d) == IF versions[n] # <<>> /\ Last(versions[n]) = d
                THEN versions[n] ELSE Append(versions[n], d)

\* The transaction of a save; a new definition is a draft.
store(n, d) == versions' = [versions EXCEPT ![n] = minted(n, d)]

\* Through the API, where nothing is validated.
Save(n, d) ==
    /\ saves < MaxSaves
    /\ saves' = saves + 1
    /\ store(n, d)
    /\ UNCHANGED <<lifecycle, resolution, turns>>

setLifecycle(n, stage) ==
    /\ turns < MaxTurns
    /\ turns' = turns + 1
    /\ versions[n] # <<>>
    /\ lifecycle' = [lifecycle EXCEPT ![n] = stage]
    /\ UNCHANGED <<versions, resolution, saves>>

--------------------------------------------------------------------------------
(* The resolution of a snapshot                                                 *)

goesOn(r, pc, todo, collected) ==
    resolution' = [resolution EXCEPT ![r] =
        [pc |-> pc, todo |-> todo, found |-> 0, collected |-> collected]]
rejected(r) == goesOn(r, "rejected", <<>>, {})

inSnapshot(S, n) == \E c \in S : c.name = n
documentOf(c) == versions[c.name][c.version]

\* A lookup without a version means the one of the snapshot.
findInSnapshot(S, n, v) == {c \in S : c.name = n /\ v \in {0, c.version}}

Begin(r) ==
    /\ resolution[r].pc = "idle"
    /\ \E v \in 0..latest(Root) :
         goesOn(r, "next", <<[name |-> Root, version |-> v, rubric |-> TRUE, depth |-> 0]>>, {})
    /\ UNCHANGED <<versions, lifecycle, saves, turns>>

\* Mutant: the fragments a profile is composed of are not followed.
follows_Shallow(ref, d) ==
    CASE KindOf[ref.name] = "workflow" -> refs(d, 0)
      [] KindOf[ref.name] = "experiment" /\ ref.rubric -> refs(d, 0)
      [] OTHER -> <<>>

\* What a collected document has collected in turn: the references of a workflow, the
\* fragments of a profile, the rubric of an experiment.
follows(ref, d) ==
    CASE KindOf[ref.name] = "workflow" -> refs(d, 0)
      [] KindOf[ref.name] = "profile" -> refs(d, ref.depth + 1)
      [] KindOf[ref.name] = "experiment" /\ ref.rubric -> refs(d, 0)
      [] OTHER -> <<>>

\* Fragments of fragments, beyond what is followed.
TooDeep(r) ==
    /\ resolution[r].pc = "next" /\ resolution[r].todo # <<>>
    /\ Head(resolution[r].todo).depth > MaxDepth
    /\ rejected(r)
    /\ UNCHANGED <<versions, lifecycle, saves, turns>>

\* A name that has been collected is not read again, whatever version is asked for;
\* only a workflow is, and an experiment still has its rubric collected.
Known(r) ==
    LET now == resolution[r] ref == Head(now.todo) IN
    /\ now.pc = "next" /\ now.todo # <<>>
    /\ ref.depth <= MaxDepth
    /\ KindOf[ref.name] # "workflow" /\ inSnapshot(now.collected, ref.name)
    /\ LET c == CHOOSE c \in now.collected : c.name = ref.name IN
       goesOn(r, "next",
              (IF KindOf[ref.name] = "experiment" THEN follows(ref, documentOf(c)) ELSE <<>>)
                  \o Tail(now.todo),
              now.collected)
    /\ UNCHANGED <<versions, lifecycle, saves, turns>>

\* The definition that was read is pinned, and its references come next.
Collected(r, version) ==
    LET now == resolution[r] ref == Head(now.todo)
        c == [name |-> ref.name, version |-> version] IN
    IF inSnapshot(now.collected, ref.name)
    THEN goesOn(r, "next", Tail(now.todo), now.collected)
    ELSE IF KindOf[ref.name] = "workflow" /\ documentOf(c) \notin Valid THEN rejected(r)
    ELSE goesOn(r, "next", follows(ref, documentOf(c)) \o Tail(now.todo), now.collected \cup {c})

\* A version that is named is taken as it is; the latest one has its lifecycle checked.
Get(r) ==
    LET now == resolution[r] ref == Head(now.todo) IN
    /\ now.pc = "next" /\ now.todo # <<>>
    /\ ref.depth <= MaxDepth
    /\ KindOf[ref.name] = "workflow" \/ ~inSnapshot(now.collected, ref.name)
    /\ IF ref.version > latest(ref.name) \/ versions[ref.name] = <<>> THEN rejected(r)
       ELSE IF ref.version > 0 THEN Collected(r, ref.version)
       ELSE resolution' = [resolution EXCEPT ![r].pc = "lifecycle", ![r].found = latest(ref.name)]
    /\ UNCHANGED <<versions, lifecycle, saves, turns>>

GetLifecycle(r) ==
    /\ resolution[r].pc = "lifecycle"
    /\ IF lifecycle[Head(resolution[r].todo).name] = "enabled"
       THEN Collected(r, resolution[r].found)
       ELSE rejected(r)
    /\ UNCHANGED <<versions, lifecycle, saves, turns>>

Pinned(r) ==
    /\ resolution[r].pc = "next" /\ resolution[r].todo = <<>>
    /\ goesOn(r, "pinned", <<>>, resolution[r].collected)
    /\ UNCHANGED <<versions, lifecycle, saves, turns>>

resolve(r) == Begin(r) \/ TooDeep(r) \/ Known(r) \/ Get(r) \/ GetLifecycle(r) \/ Pinned(r)

DefinitionsNext ==
    \/ \E n \in Names : \E d \in Documents[n] : Save(n, d)
    \/ \E n \in Names, stage \in {"draft", "enabled", "disabled"} : setLifecycle(n, stage)
    \/ \E r \in Runs : resolve(r)

\* A store that has come from saves has no edition twice in a row.
Edited(history) == \A v \in 1..(Len(history) - 1) : history[v] # history[v + 1]
Shelves == {contents \in [Names -> Seq(UNION {Documents[n] : n \in Names})] :
                \A n \in Names : contents[n] \in Seq(Documents[n]) /\ Edited(contents[n])}

DefinitionsSpec ==
    (\E contents \in Shelves : DefinitionsInit(contents)) /\ [][DefinitionsNext]_definitionVars

--------------------------------------------------------------------------------
(* Properties                                                                   *)

snapshots == {resolution[r].collected : r \in {r \in Runs : resolution[r].pc = "pinned"}}

\* The references of a document that a run looks up in its snapshot; a gate set's are
\* those of the sets it extends.
lookedUp(c) == IF KindOf[c.name] = "gate-set" THEN {} ELSE Range(refs(documentOf(c), 0))

\* The rubric of an experiment is not looked up if every node brings one of its own.
rubricLeftTo(S, c) ==
    \E b \in S : \E ref \in lookedUp(b) :
        KindOf[b.name] = "workflow" /\ ref.name = c.name /\ ref.rubric

\* A snapshot is self-contained: whatever is saved, enabled or disabled while it is
\* resolved, it has one version per name, its workflows are valid, and what its workflows
\* and profiles refer to is there, and so is the rubric of an experiment some node leaves
\* it to, in the version they name unless two references name two ("the complete,
\* self-contained resolution of everything a run executes", definitions.ts). The bases of
\* gate sets are not there: GatesComposed.
SnapshotSelfContained ==
    \A S \in snapshots :
        /\ \A c, d \in S : c.name = d.name => c = d
        /\ \A c \in S : KindOf[c.name] = "workflow" => documentOf(c) \in Valid
        /\ \A c \in S : (KindOf[c.name] = "experiment" => rubricLeftTo(S, c)) =>
             \A ref \in lookedUp(c) :
               /\ inSnapshot(S, ref.name)
               /\ \/ findInSnapshot(S, ref.name, ref.version) # {}
                  \/ ref.name = Root
                  \/ \E b \in S : \E other \in lookedUp(b) :
                       other.name = ref.name /\ other.version # ref.version

\* No two editions in a row are the same ("deduplicates saves").
EditionsDiffer == \A n \in Names : Edited(versions[n])

\* The gate sets whose gates a run evaluates at a gate node (evaluateGateNode): those
\* of the set itself and of its bases, as far as the snapshot has them.
bases(c) == {ref.name : ref \in Range(refs(documentOf(c), 0))}
composed(S, c) == {c.name} \cup {b \in bases(c) : inSnapshot(S, b)}

\* "Gate sets compose: extended sets prepend their base's gates" (gates.ts).
GatesComposed ==
    \A S \in snapshots : \A c \in S :
        KindOf[c.name] = "gate-set" => composed(S, c) = {c.name} \cup bases(c)
================================================================================
