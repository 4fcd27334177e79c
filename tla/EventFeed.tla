------------------------------- MODULE EventFeed -------------------------------
(***************************************************************************)
(* The events of a run and the page that shows it: the log and the live    *)
(* stream of the daemon (event-bus.ts, event-log-repository.ts, http.ts),  *)
(* and the subscription, the two fetches and the timeline of the page      *)
(* (events.ts, useApiQuery.ts, RunDetail.tsx, timeline.ts).  An event is   *)
(* its place in what the run publishes.                                    *)
(***************************************************************************)
EXTENDS Integers, Sequences, SequencesExt

CONSTANTS
    Scripts,    \* what a run may publish: sequences of [type, of, status]
    MaxEvents,  \* the live events a page keeps
    MaxFaults   \* bound: lost streams, failed fetches and replaced connections

VARIABLES
    script, row, published,  \* the run: its row has the state of event "row"
    stream, wire,            \* the subscription, the events on their way to the page
    live,                    \* what the page has heard
    fetch,                   \* of "run" and "history": the call, when it was served, with what
    shown,                   \* of each: the data and when it was served
    unheard, faults          \* the events that passed the page by

feedVars == <<script, row, published, stream, wire, live, fetch, shown, unheard, faults>>

Fetches == {"run", "history"}
asked == [pc |-> "asked", at |-> 0, data |-> 0]
isState(e) == script[e].type = "run.state.changed"

FeedInit ==
    /\ script \in Scripts
    /\ row = 0 /\ published = 0
    /\ stream = "opening" /\ wire = <<>> /\ live = <<>>
    /\ fetch = [f \in Fetches |-> asked]
    /\ shown = [f \in Fetches |-> [at |-> 0, data |-> 0]]
    /\ unheard = {} /\ faults = 0

--------------------------------------------------------------------------------
(* The daemon                                                                   *)

next == published + 1

\* The run is saved before its change is told.
save ==
    /\ next <= Len(script) /\ isState(next) /\ row < next
    /\ row' = next
    /\ UNCHANGED <<script, published, stream, wire, live, fetch, shown, unheard, faults>>

\* The event goes to the log and, in the same turn, to whoever has subscribed.
publish ==
    /\ next <= Len(script) /\ (isState(next) => row = next)
    /\ published' = next
    /\ IF stream = "open"
       THEN wire' = Append(wire, next) /\ UNCHANGED unheard
       ELSE unheard' = unheard \cup {next} /\ UNCHANGED wire
    /\ UNCHANGED <<script, row, stream, live, fetch, shown, faults>>

\* A stream starts with the events after it: it has no cursor.
streamEvents ==
    /\ stream = "opening"
    /\ stream' = "open"
    /\ UNCHANGED <<script, row, published, wire, live, fetch, shown, unheard, faults>>

serve(f) ==
    /\ fetch[f].pc = "asked"
    /\ fetch' = [fetch EXCEPT ![f] = [pc |-> "served", at |-> published,
                                      data |-> IF f = "run" THEN row ELSE published]]
    /\ UNCHANGED <<script, row, published, stream, wire, live, shown, unheard, faults>>

--------------------------------------------------------------------------------
(* The page                                                                     *)

keepLast(s) == IF Len(s) > MaxEvents THEN SubSeq(s, Len(s) - MaxEvents + 1, Len(s)) ELSE s

\* A reload gives up the fetch that is under way.
reloaded(f) == asked

onEvent ==
    /\ wire # <<>>
    /\ wire' = Tail(wire)
    /\ live' = keepLast(Append(live, Head(wire)))
    /\ fetch' = IF isState(Head(wire)) THEN [fetch EXCEPT !["run"] = reloaded("run")] ELSE fetch
    /\ UNCHANGED <<script, row, published, stream, shown, unheard, faults>>

\* What is on its way is lost with the stream; after a pause it is opened again.
onError ==
    /\ stream \in {"opening", "open"} /\ faults < MaxFaults
    /\ stream' = "pause" /\ wire' = <<>>
    /\ unheard' = unheard \cup Range(wire)
    /\ faults' = faults + 1
    /\ UNCHANGED <<script, row, published, live, fetch, shown>>

connect ==
    /\ stream = "pause"
    /\ stream' = "opening"
    /\ UNCHANGED <<script, row, published, wire, live, fetch, shown, unheard, faults>>

arrive(f) ==
    /\ fetch[f].pc = "served"
    /\ shown' = [shown EXCEPT ![f] = [at |-> fetch[f].at, data |-> fetch[f].data]]
    /\ fetch' = [fetch EXCEPT ![f].pc = "idle"]
    /\ UNCHANGED <<script, row, published, stream, wire, live, unheard, faults>>

fail(f) ==
    /\ fetch[f].pc \in {"asked", "served"} /\ faults < MaxFaults
    /\ fetch' = [fetch EXCEPT ![f].pc = "failed"]
    /\ faults' = faults + 1
    /\ UNCHANGED <<script, row, published, stream, wire, live, shown, unheard>>

\* The page is given a new client for its connection: the subscription and the fetches
\* start over, what was fetched stays until it is replaced.
newClient ==
    /\ faults < MaxFaults
    /\ faults' = faults + 1
    /\ stream' = "opening" /\ wire' = <<>> /\ live' = <<>>
    /\ unheard' = unheard \cup Range(wire) \cup Range(live)
    /\ fetch' = [f \in Fetches |-> asked]
    /\ UNCHANGED <<script, row, published, shown>>

FeedNext ==
    \/ save \/ publish \/ streamEvents
    \/ onEvent \/ onError \/ connect \/ newClient
    \/ \E f \in Fetches : serve(f) \/ arrive(f) \/ fail(f)

FeedSpec == FeedInit /\ [][FeedNext]_feedVars

--------------------------------------------------------------------------------
(* The timeline                                                                 *)

listForRun == [e \in 1..shown["history"].data |-> e]

\* The history, then the live events it does not have, each once.
allEvents(heard) ==
    LET merged[n \in 0..Len(heard)] ==
          IF n = 0 THEN listForRun
          ELSE LET seen == merged[n - 1] IN
               IF heard[n] \in Range(seen) THEN seen ELSE Append(seen, heard[n])
    IN  merged[Len(heard)]

\* What is told of a thing: a step is entered when it is first told of, a tool call when
\* it starts, and a text goes on with the one before it.
timelineWith(timeline, e) ==
    LET at == {i \in DOMAIN timeline : timeline[i].type = script[e].type
                                       /\ timeline[i].of = script[e].of}
        last == CHOOSE i \in at : \A j \in at : j <= i IN
    CASE script[e].type = "step" /\ at # {} -> [timeline EXCEPT ![last] = script[e]]
      [] script[e].type = "tool" /\ script[e].status # "running" ->
            IF at = {} THEN timeline ELSE [timeline EXCEPT ![last] = script[e]]
      [] script[e].type = "text" /\ timeline # <<>> /\ Last(timeline).type = "text" ->
            [timeline EXCEPT ![Len(timeline)].of = @ \o script[e].of]
      [] script[e].type = "run.state.changed" -> timeline
      [] OTHER -> Append(timeline, script[e])

reduceRunTimeline(events) ==
    LET timeline[n \in 0..Len(events)] ==
          IF n = 0 THEN <<>> ELSE timelineWith(timeline[n - 1], events[n])
    IN  timeline[Len(events)]

--------------------------------------------------------------------------------
(* Properties                                                                   *)

\* Nothing is under way between the page and the daemon, and nothing has failed.
AtRest == stream = "open" /\ wire = <<>> /\ \A f \in Fetches : fetch[f].pc = "idle"

\* A page at rest shows the run as it is, whatever overtook what, unless a change was
\* told while the page had no stream and after the run was last read.
RunShownAsIs ==
    AtRest /\ (\A e \in unheard : isState(e) => e <= shown["run"].at) =>
        \/ shown["run"].data = row
        \/ row = next

\* No event is shown twice, or before one that was published earlier.
EventsInOrder ==
    LET events == allEvents(live) IN
    \A i, j \in DOMAIN events : i < j => events[i] < events[j]

\* A page at rest that heard what was published since its history was read shows it all,
\* and of every step and tool call what was told last.
TimelineComplete ==
    AtRest /\ Len(live) < MaxEvents /\ (\A e \in unheard : e <= shown["history"].at) =>
        LET events == allEvents(live)
            lastOf(e) == \A d \in (e + 1)..published :
                           script[d].type # script[e].type \/ script[d].of # script[e].of IN
        /\ Range(events) = 1..published
        /\ \A e \in 1..published : script[e].type \in {"step", "tool"} /\ lastOf(e) =>
             script[e] \in Range(reduceRunTimeline(events))
================================================================================
