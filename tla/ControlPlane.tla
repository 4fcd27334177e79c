----------------------------- MODULE ControlPlane -----------------------------
(***************************************************************************)
(* People answer what the daemon asks: the waits of graph runs and the     *)
(* approvals of the policy.  Every window of the desktop keeps a view of   *)
(* what is open, fetched by poll and by event, and a form per question.    *)
(* The service reads a wait, validates the value and submits it; the first *)
(* answer wins, and the others are told so.                                *)
(***************************************************************************)
EXTENDS Naturals, FiniteSets

CONSTANTS
    Windows,        \* of the desktop: a view and a form per question
    Callers,        \* users of the command line, who answer a question they know of
    Waits, Approvals,   \* questions of durable waits, and of the policy
    MaxOutages      \* bound: failed fetches and probes, and answers whose reply is lost

VARIABLES
    question,   \* in the daemon: none, open, answered by a window, or closed without an answer
    view,       \* in a window: what is shown, the cache, the fetch on its way and a cancelled one
    health,     \* in a window: the runtime as the last probe found it
    form,       \* in a window: the answer on its way, and what its sender was told
    outages

controlVars == <<question, view, health, form, outages>>

Questions == Waits \cup Approvals
Senders == Windows \cup Callers
Unasked == [status |-> "none", by |-> "nobody"]

\* The numbers are editions of the question; a fetch is not on its way, asked for, or
\* answered with an edition.
None == 7
Asked == 9
Unseen == [data |-> 0, stale |-> FALSE, cache |-> 0, fetch |-> None, late |-> None, newest |-> 0]

ControlInit ==
    /\ question = [q \in Questions |-> Unasked]
    /\ view = [w \in Windows |-> [q \in Questions |-> Unseen]]
    /\ health = [w \in Windows |-> "connecting"]
    /\ form = [w \in Senders |-> [q \in Questions |-> [pc |-> "idle", told |-> "nothing"]]]
    /\ outages = 0

\* What a list says of a question: not there yet, there, gone.
edition(q) ==
    CASE question[q].status = "none" -> 0
      [] question[q].status = "open" -> 1
      [] OTHER -> 2

Outage == outages < MaxOutages /\ outages' = outages + 1

--------------------------------------------------------------------------------
(* The view of a window                                                         *)

\* A fetch shows the cache, marked stale, until it is answered, and cancels the one
\* before.  The response of that one may still come (of several, the last; one that the
\* daemon has yet to write is as good as the response of the new fetch).
refetched(v) ==
    [v EXCEPT !.data = v.cache, !.stale = TRUE, !.fetch = Asked,
              !.late = IF v.fetch \in 0..2 THEN v.fetch ELSE @]

\* An event, or the reload after an answer, has some of the connected windows fetch; an
\* event that is missed is not repeated, and one that is late is as good as a poll.
fetchIn(ws) ==
    /\ \A w \in ws : health[w] = "connected"
    /\ view' = [w \in Windows |->
         IF w \in ws THEN [q \in Questions |-> refetched(view[w][q])] ELSE view[w]]

\* Mutant: a page with nothing to show does not poll.
Poll_WhenShown(w) ==
    /\ \A q \in Questions : view[w][q].fetch = None
    /\ \E q \in Questions : view[w][q].data = 1
    /\ fetchIn({w})
    /\ UNCHANGED <<question, health, form, outages>>

\* The poll; a fetch has been answered or has failed by the time of the next one.
Poll(w) ==
    /\ \A q \in Questions : view[w][q].fetch = None
    /\ fetchIn({w})
    /\ UNCHANGED <<question, health, form, outages>>

\* A runtime that is not reachable is not asked: its pages show the cache.
Probe(w) ==
    /\ \/ /\ health[w] # "connected"
          /\ health' = [health EXCEPT ![w] = "connected"]
          /\ view' = [view EXCEPT ![w] = [q \in Questions |-> refetched(view[w][q])]]
          /\ UNCHANGED outages
       \/ /\ health[w] # "unreachable"
          /\ health' = [health EXCEPT ![w] = "unreachable"]
          /\ view' = [view EXCEPT ![w] = [q \in Questions |->
                [refetched(view[w][q]) EXCEPT !.fetch = None]]]
          /\ Outage
    /\ UNCHANGED <<question, form>>

Serve(w, q) ==
    /\ view[w][q].fetch = Asked
    /\ view' = [view EXCEPT ![w][q].fetch = edition(q)]
    /\ UNCHANGED <<question, health, form, outages>>

\* Mutant: a response is shown although its fetch was cancelled.
Deliver_Cancelled(w, q) ==
    /\ \E edited \in {view[w][q].fetch, view[w][q].late} \cap 0..2 :
         view' = [view EXCEPT ![w][q].cache = edited, ![w][q].data = edited,
                              ![w][q].stale = FALSE, ![w][q].newest = edited,
                              ![w][q].fetch = IF @ = edited THEN None ELSE @,
                              ![w][q].late = IF view[w][q].fetch = edited THEN @ ELSE None]
    /\ UNCHANGED <<question, health, form, outages>>

\* The cache takes every response, the page only one that was not cancelled.
Deliver(w, q) ==
    /\ LET v == view[w][q] IN
       \/ /\ v.fetch \in 0..2
          /\ view' = [view EXCEPT ![w][q] = [v EXCEPT
                !.cache = v.fetch, !.data = v.fetch, !.stale = FALSE, !.newest = v.fetch, !.fetch = None]]
       \/ /\ v.late \in 0..2
          /\ view' = [view EXCEPT ![w][q].cache = v.late, ![w][q].late = None]
    /\ UNCHANGED <<question, health, form, outages>>

FetchFails(w, q) ==
    /\ view[w][q].fetch # None
    /\ view' = [view EXCEPT ![w][q].fetch = None]
    /\ Outage
    /\ UNCHANGED <<question, health, form>>

--------------------------------------------------------------------------------
(* The daemon, and the answers                                                  *)

settles(q, status, by) ==
    /\ question' = [question EXCEPT ![q] = [status |-> status, by |-> by]]
    /\ \E ws \in SUBSET {w \in Windows : health[w] = "connected"} : fetchIn(ws)

Ask(q) ==
    /\ question[q].status = "none"
    /\ settles(q, "open", "nobody")
    /\ UNCHANGED <<health, form, outages>>

\* The run of a wait is cancelled; the timer of an approval denies it.
Close(q) ==
    /\ question[q].status = "open"
    /\ settles(q, "closed", "nobody")
    /\ UNCHANGED <<health, form, outages>>

goesTo(w, q, pc, told) == form' = [form EXCEPT ![w][q] = [pc |-> pc, told |-> told]]
Form(w, q, pc) == form[w][q].pc = pc

\* A page offers no form for a stale entry.
Submit(w, q) ==
    /\ Form(w, q, "idle") /\ form[w][q].told # "conflict"
    /\ w \in Windows => view[w][q].data = 1 /\ ~view[w][q].stale
    /\ w \in Callers => question[q].status # "none"
    /\ goesTo(w, q, "sent", "nothing")
    /\ UNCHANGED <<question, view, health, outages>>

\* Mutant: the answer is stored without looking at the status of the row.
accepts_Always(w, q) == question[q].status # "none"

\* respondToWait: the wait is read and the value validated against its request, then it
\* is submitted and the open row takes it, or not.  The broker of the approvals clears
\* the timer and forgets the entry.
accepts(w, q) == question[q].status = "open"
Respond(w, q) ==
    /\ Form(w, q, "sent")
    /\ \/ accepts(w, q) /\ settles(q, "answered", w) /\ goesTo(w, q, "replying", "accepted")
       \/ ~accepts(w, q) /\ goesTo(w, q, "replying", "conflict") /\ UNCHANGED <<question, view>>
    /\ UNCHANGED <<health, outages>>

\* The sender reloads the list.  A lost reply is an error: the form can be sent again.
Reply(w, q) ==
    /\ Form(w, q, "replying")
    /\ \/ /\ goesTo(w, q, "idle", form[w][q].told)
          /\ fetchIn({v \in Windows : v = w /\ health[v] = "connected"})
          /\ UNCHANGED outages
       \/ goesTo(w, q, "idle", "error") /\ UNCHANGED view /\ Outage
    /\ UNCHANGED <<question, health>>

Answering(w, q) == Respond(w, q) \/ Reply(w, q)

ControlNext ==
    \/ \E q \in Questions : Ask(q) \/ Close(q)
    \/ \E w \in Windows : Poll(w) \/ Probe(w)
    \/ \E w \in Windows, q \in Questions : Serve(w, q) \/ Deliver(w, q) \/ FetchFails(w, q)
    \/ \E w \in Senders, q \in Questions : Submit(w, q) \/ Answering(w, q)

\* Timers of the desktop fire, requests are served, and the timer of an approval runs
\* out; nobody has to answer anything.
ControlFairness ==
    /\ \A w \in Windows :
         WF_controlVars(Poll(w)) /\ WF_controlVars(Probe(w) /\ outages' = outages)
    /\ \A w \in Windows, q \in Questions :
         WF_controlVars(Serve(w, q)) /\ WF_controlVars(Deliver(w, q))
    /\ \A w \in Senders, q \in Questions : WF_controlVars(Answering(w, q))
    /\ \A q \in Approvals : WF_controlVars(Close(q))

ControlSpec == ControlInit /\ [][ControlNext]_controlVars /\ ControlFairness

--------------------------------------------------------------------------------
(* Properties                                                                   *)

\* The answer that was stored is the one whose sender was told so, and whoever was
\* told that somebody came first was told so of a question that is settled.
AnswersHonest ==
    \A q \in Questions, w \in Senders :
        /\ form[w][q].told = "accepted" => question[q] = [status |-> "answered", by |-> w]
        /\ form[w][q].told = "conflict" => question[q].status \in {"answered", "closed"}

\* What a page shows as fresh is never older than what it has shown as fresh before: a
\* slow response to an earlier fetch does not bring a settled question back.
NeverOlder ==
    [][\A w \in Windows, q \in Questions : view'[w][q].newest >= view[w][q].newest]_view

\* An approval is decided, by a person or by the timer; a wait that stays open is
\* shown in every window.
ApprovalsSettle == \A q \in Approvals : question[q].status = "open" ~> question[q].status # "open"
NeedsYouShown ==
    \A q \in Waits, w \in Windows : question[q].status = "open" ~>
        (question[q].status # "open" \/ view[w][q].data = 1)
===============================================================================
