------------------------------ MODULE MCServices ------------------------------
(* What a run needs from outside of the orchestrator, each component by itself: *)
(* the trackers, the workspace, the people who answer through the control       *)
(* plane, the definitions, the store, the desktop.  "part" names the component  *)
(* a behaviour is about; the others stay where they start.                      *)
EXTENDS Naturals, Sequences

CONSTANTS Parts, NoBranch, r1, r2

VARIABLES part, adapter, issue, item, call, last, begun,
          git, tree, coding, crashes, rewrites,
          question, view, health, form, outages,
          versions, lifecycle, resolution, saves, turns, query, editor, calls,
          script, row, published, stream, wire, live, fetch, shown, unheard, faults,
          table, memory, database, lifecycles, answered, schema, writes, stops,
          daemons, info, shell, window, page, stored, launches,
          body, update, reported, kept, latest, flagged, updates, edits

\* Two orchestrators, two calls; a page of two of at most three comments.
Tracker == INSTANCE WorkTracker WITH
    Claimants <- {"o1", "o2"}, Adapters <- {"github", "projects", "jira", "linear"},
    StateLabels <- <<"doing", "review">>, Page <- 2, MaxComments <- 3, MaxCalls <- 2

\* Two runs of an item, two pieces of work.
Coding == INSTANCE CodingRun WITH
    Runs <- {r1, r2}, Works <- {1, 2},
    MaxRestores <- 2, MaxCrashes <- 1, MaxRewrites <- 1

\* A window and two callers; a wait, or an approval.
Answers == INSTANCE ControlPlane WITH
    Windows <- {"w"}, Callers <- {"c1", "c2"}, Waits <- {"q"}, Approvals <- {}, MaxOutages <- 1
Approving == INSTANCE ControlPlane WITH
    Windows <- {"w"}, Callers <- {"c1", "c2"}, Waits <- {}, Approvals <- {"q"}, MaxOutages <- 1

\* A workflow with a sub-workflow, gates on a base, a composed profile and an experiment;
\* the sub-workflow names the first version of the gates, and may come back. One node
\* brings a rubric of its own to the experiment, the next leaves it to the document.
Kinds == [build |-> "workflow", sub |-> "workflow", gates |-> "gate-set", base |-> "gate-set",
          writer |-> "profile", style |-> "profile", tone |-> "profile",
          bake |-> "experiment", rubric |-> "rubric", scale |-> "rubric"]
to(n, v) == [name |-> n, version |-> v, rubric |-> n = "bake"]
Outline == [b1 |-> <<to("writer", 0), to("sub", 0), to("gates", 0),
                    [to("bake", 0) EXCEPT !.rubric = FALSE], to("scale", 0), to("bake", 0)>>,
            b2 |-> <<to("gates", 2), to("sub", 1), to("build", 0)>>, b3 |-> <<>>,
            s1 |-> <<to("gates", 1), to("style", 0)>>, s2 |-> <<to("build", 0)>>,
            g1 |-> <<to("base", 0)>>, g2 |-> <<>>, a1 |-> <<>>,
            w1 |-> <<to("style", 0)>>, w2 |-> <<to("writer", 0), to("tone", 0)>>,
            y1 |-> <<to("tone", 0)>>, t1 |-> <<>>, x1 |-> <<to("rubric", 0)>>, u1 |-> <<>>,
            l1 |-> <<>>]
Library == [build |-> {"b1", "b2", "b3"}, sub |-> {"s1", "s2"}, gates |-> {"g1", "g2"},
            base |-> {"a1"}, writer |-> {"w1", "w2"}, style |-> {"y1"}, tone |-> {"t1"},
            bake |-> {"x1"}, rubric |-> {"u1"}, scale |-> {"l1"}]
Shelf == [build |-> <<"b2", "b1">>, sub |-> <<"s1">>, gates |-> <<"g1">>, base |-> <<"a1">>,
          writer |-> <<"w2">>, style |-> <<"y1">>, tone |-> <<"t1">>, bake |-> <<"x1">>,
          rubric |-> <<"u1">>, scale |-> <<"l1">>]
Names == DOMAIN Kinds
Store == INSTANCE Definitions WITH
    KindOf <- Kinds, Documents <- Library, Refs <- Outline, Valid <- {"b1", "b2", "s1", "s2"},
    Root <- "build", MaxDepth <- 1, Runs <- {r1}, MaxSaves <- 2, MaxTurns <- 1

\* A window on a definition, and someone who saves beside them.
Design == INSTANCE Designer WITH
    Names <- {"build"}, KindOf <- [build |-> "workflow"],
    Documents <- [build |-> {"b1", "b2", "b3"}],
    Refs <- [b1 |-> <<>>, b2 |-> <<>>, b3 |-> <<>>], Valid <- {"b1", "b2"},
    Root <- "build", MaxDepth <- 1, Runs <- {}, MaxSaves <- 1, MaxTurns <- 0,
    Pages <- {"w"}, Redacted <- [b1 |-> "b1", b2 |-> "b1", b3 |-> "b3"], Presses <- 1..2

\* A run of a step with a tool call, and one that waits in between; a page that keeps
\* fewer events than the first publishes.
event(type, of, status) == [type |-> type, of |-> <<of>>, status |-> status]
state(s) == event("run.state.changed", "run", s)
Feed == INSTANCE EventFeed WITH
    Scripts <- {<<state("RUNNING"), event("tool", "t", "running"), event("text", "a", ""),
                  event("tool", "t", "succeeded"), state("COMPLETED")>>,
                <<event("step", "plan", "running"), event("text", "a", ""), event("text", "b", ""),
                  state("WAITING"), event("step", "plan", "failed")>>},
    MaxEvents <- 4, MaxFaults <- 2

\* Three writes by any two keys of any two owners, at two instants.
Stored == INSTANCE Stores WITH
    Tables <- {"runs", "sessions", "waits", "experiments", "config", "specs", "events", "checkpoints",
               "usage", "judgments", "firings", "supplementals", "claims", "definitions"},
    Ids <- {1, 2}, Owners <- {"a", "b"}, States <- {"open", "satisfied"}, Times <- {1, 2},
    Versions <- 2, MaxCalls <- 3, MaxStops <- 1

\* The application twice, three daemons.
Desktop == INSTANCE DesktopShell WITH MAX_RESTARTS <- 1, MaxDaemons <- 3, MaxLaunches <- 2

\* Two runs of an item, of which one may write a document that quotes a delimiter.
Section == INSTANCE ManagedSection WITH
    Writers <- {r1, r2}, Documents <- {<<"prd", "<end>">>},
    Texts <- {"note"}, MaxUpdates <- 2, MaxEdits <- 2

trackerVars == <<adapter, issue, item, call, last, begun>>
codingVars == <<git, tree, coding, crashes, rewrites>>
controlVars == <<question, view, health, form, outages>>
designVars == <<versions, lifecycle, resolution, saves, turns, query, editor, calls>>
feedVars == <<script, row, published, stream, wire, live, fetch, shown, unheard, faults>>
storeVars == <<table, memory, database, lifecycles, answered, schema, writes, stops>>
shellVars == <<daemons, info, shell, window, page, stored, launches>>
sectionVars == <<body, update, reported, kept, latest, flagged, updates, edits>>
otherVars == <<trackerVars, codingVars, controlVars>>

Init ==
    /\ part \in Parts
    /\ Tracker!Init /\ Coding!CodingInit
    /\ IF part = "approvals" THEN Approving!ControlInit ELSE Answers!ControlInit
    /\ Design!DesignerInit
    /\ IF part = "definitions" THEN Store!DefinitionsInit(Shelf)
       ELSE Design!DefinitionsInit([build |-> <<"b3">>])
    /\ part \notin {"definitions", "designer"} => lifecycle = [build |-> "enabled"]
    /\ Feed!FeedInit /\ Stored!StoresInit /\ Desktop!ShellInit
    /\ Section!SectionInit
    /\ part # "store" => table = "runs"
    /\ part # "feed" => script[1].type = "step"
    /\ part # "section" => body = <<>>
    /\ part # "tracker" => adapter = "linear" /\ issue.labels = {}

Next ==
    \/ part = "tracker" /\ Tracker!Next
       /\ UNCHANGED <<part, codingVars, controlVars, designVars, feedVars, storeVars, shellVars, sectionVars>>
    \/ part = "coding" /\ Coding!CodingNext
       /\ UNCHANGED <<part, trackerVars, controlVars, designVars, feedVars, storeVars, shellVars, sectionVars>>
    \/ part = "answers" /\ Answers!ControlNext
       /\ UNCHANGED <<part, trackerVars, codingVars, designVars, feedVars, storeVars, shellVars, sectionVars>>
    \/ part = "approvals" /\ Approving!ControlNext
       /\ UNCHANGED <<part, trackerVars, codingVars, designVars, feedVars, storeVars, shellVars, sectionVars>>
    \/ part = "definitions" /\ Store!DefinitionsNext
       /\ UNCHANGED <<part, otherVars, query, editor, calls, feedVars, storeVars, shellVars, sectionVars>>
    \/ part = "designer" /\ Design!DesignerNext
       /\ UNCHANGED <<part, otherVars, feedVars, storeVars, shellVars, sectionVars>>
    \/ part = "feed" /\ Feed!FeedNext
       /\ UNCHANGED <<part, otherVars, designVars, storeVars, shellVars, sectionVars>>
    \/ part = "store" /\ Stored!StoresNext
       /\ UNCHANGED <<part, otherVars, designVars, feedVars, shellVars, sectionVars>>
    \/ part = "shell" /\ Desktop!ShellNext
       /\ UNCHANGED <<part, otherVars, designVars, feedVars, storeVars, sectionVars>>
    \/ part = "section" /\ Section!SectionNext
       /\ UNCHANGED <<part, otherVars, designVars, feedVars, storeVars, shellVars>>

\* The fairness of the control plane, for the behaviours that are about it.
Fairness ==
    /\ WF_controlVars(part = "answers" /\ Answers!Poll("w"))
    /\ WF_controlVars(part = "answers" /\ Answers!Probe("w") /\ outages' = outages)
    /\ WF_controlVars(part = "answers" /\ Answers!Serve("w", "q"))
    /\ WF_controlVars(part = "answers" /\ Answers!Deliver("w", "q"))
    /\ WF_controlVars(part = "approvals" /\ Approving!Close("q"))

Spec ==
    /\ Init
    /\ [][Next]_<<part, trackerVars, codingVars, controlVars, designVars, feedVars, storeVars, shellVars, sectionVars>>
    /\ Fairness

--------------------------------------------------------------------------------
(* Properties                                                                   *)

\* What is held stays held: the work of a coding run survives suspensions, restarts and
\* the others of its item, a repeated claim is granted again to the one who holds it,
\* an application that quits has ended the daemon it has started, and a description
\* that runs write to has what people wrote in it.
WorkHeld ==
    /\ Coding!WorkSurvives /\ Tracker!ClaimRetryHeld
    /\ part = "shell" => Desktop!OrphansOnlyWhileSpawning
    /\ part = "section" => Section!HumanTextKept /\ Section!WrittenIsRead /\ Section!RefusalFlagged

\* A test that passes in memory says something of the daemon: the two stores give the
\* same answers, and the database always comes to have its tables.
StoresAgree == part = "store" => Stored!StoresAgree /\ Stored!SchemaCompletes

\* A run is started from a snapshot that has all it looks up, and no definition has the
\* same edition twice in a row; the designer stores what was validated, and shows one
\* document at a time.
DefinitionsSound ==
    /\ part = "definitions" => Store!SnapshotSelfContained /\ Store!EditionsDiffer
    /\ part = "designer" => Design!SavedWasValidated /\ Design!OneSaveAtATime
                            /\ Design!ProjectionsAgree /\ Design!EditionsDiffer

\* A transition that is reported done was done, and took nothing of the people's.
TransitionsTruthful == Tracker!TransitionReached /\ Tracker!ForeignLabelsKept

\* People are told what became of their answer, and a page that has come to rest shows
\* the run as it is and its events in order; a daemon is found where it says it is,
ToldTheTruth ==
    /\ part \in {"answers", "approvals"} => Answers!AnswersHonest
    /\ part = "feed" => Feed!RunShownAsIs /\ Feed!EventsInOrder /\ Feed!TimelineComplete
    /\ part = "shell" => Desktop!DaemonFound /\ Desktop!StaleOnlyOfEnded

\* and are shown nothing again that is over.
NeverOlder == Answers!NeverOlder

\* A wait that stays open is shown, an approval is decided.
QuestionsSettle ==
    /\ part = "answers" => Answers!NeedsYouShown
    /\ part = "approvals" => Approving!ApprovalsSettle

\* A gate set is evaluated with the sets it extends.
GatesComposed == part = "definitions" => Store!GatesComposed
================================================================================
