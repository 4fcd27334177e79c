--------------------------- MODULE ControlPlaneProofs ---------------------------
(***************************************************************************)
(* What people are shown and told: honesty of ControlPlane, for every      *)
(* number of windows, callers and questions and any number of failed       *)
(* fetches and lost replies; the daemon the desktop application starts and *)
(* finds; the definitions runs are started from and people edit; the page  *)
(* of a run; and what the stream of a model tells of its answer.           *)
(***************************************************************************)
EXTENDS ControlPlane, DesktopShell, Designer, EventFeed, ModelStream,
        FiniteSetTheorems, SequenceTheorems, WellFoundedInduction, TLAPS

--------------------------------------------------------------------------------
(* The inductive invariant *)

Entry == [data : 0..2, stale : BOOLEAN, cache : 0..2, fetch : 0..2 \cup {None, Asked},
          late : 0..2 \cup {None}, newest : 0..2]

Typed ==
    /\ question \in [Questions -> [status : {"none", "open", "answered", "closed"},
                                   by : Senders \cup {"nobody"}]]
    /\ view \in [Windows -> [Questions -> Entry]]
    /\ form \in [Senders -> [Questions -> [pc : {"idle", "sent", "replying"},
                                           told : {"nothing", "accepted", "conflict", "error"}]]]

\* Nothing a window has of a question is of an edition still to come, and the fetch it
\* has not cancelled brings nothing older than what it has shown as fresh.
upTo(v, e) ==
    /\ v.data <= e /\ v.cache <= e /\ v.newest <= e
    /\ v.fetch \in 0..2 => v.newest <= v.fetch /\ v.fetch <= e
    /\ v.late \in 0..2 => v.late <= e
Seen == \A w \in Windows, q \in Questions : upTo(view[w][q], edition(q))

\* An answer is on its way only to a question that was asked.
SentOfAsked ==
    \A w \in Senders, q \in Questions : form[w][q].pc = "sent" => question[q].status # "none"

Honest == Typed /\ Seen /\ SentOfAsked /\ AnswersHonest

--------------------------------------------------------------------------------
(* Questions *)

\* A question is asked once and settled once.
QuestionKept(q) ==
    \/ question'[q] = question[q]
    \/ question[q].status = "none" /\ question'[q].status = "open"
    \/ question[q].status = "open" /\ question'[q].status \in {"answered", "closed"}

LEMMA Editions ==
    ASSUME Typed, NEW q \in Questions
    PROVE  /\ edition(q) \in 0..2
           /\ edition(q) >= 1 => question[q].status # "none"
BY DEF Typed, edition

\* What a list says of a question only moves on, and a question that was asked stays so.
LEMMA EditionsGrow ==
    ASSUME Typed, Typed', NEW q \in Questions, QuestionKept(q)
    PROVE  /\ edition(q) <= edition(q)'
           /\ question[q].status # "none" => question'[q].status # "none"
<1>1. question[q].status \in {"none", "open", "answered", "closed"}
  BY DEF Typed
<1> QED
  BY <1>1 DEF QuestionKept, edition

--------------------------------------------------------------------------------
(* Views *)

LEMMA EntryTyped ==
    ASSUME Typed, NEW w \in Windows, NEW q \in Questions
    PROVE  view[w][q] \in Entry /\ view[w][q].newest \in Nat
<1>1. view[w][q] \in Entry
  BY DEF Typed
<1> QED
  BY <1>1 DEF Entry

LEMMA UpToGrows ==
    ASSUME NEW v \in Entry, NEW e \in 0..2, NEW f \in 0..2, upTo(v, e), e <= f
    PROVE  upTo(v, f)
BY DEF upTo, Entry

\* A fetch that is cancelled or asked for brings nothing new.
LEMMA Refetched ==
    ASSUME NEW v \in Entry, NEW e \in 0..2, upTo(v, e)
    PROVE  refetched(v) \in Entry /\ upTo(refetched(v), e) /\ refetched(v).newest = v.newest
<1>1. /\ refetched(v).data = v.cache /\ refetched(v).stale = TRUE /\ refetched(v).cache = v.cache
      /\ refetched(v).fetch = Asked /\ refetched(v).newest = v.newest
      /\ refetched(v).late = IF v.fetch \in 0..2 THEN v.fetch ELSE v.late
  BY DEF refetched, Entry
<1>2. refetched(v) \in Entry
  BY DEF refetched, Entry
<1>3. upTo(refetched(v), e)
  BY <1>1 DEF upTo, Entry, Asked
<1> QED
  BY <1>1, <1>2, <1>3

\* What a step leaves of the views: entries of an edition the question has reached, and
\* nothing fresh that is older than before.
ViewsKept ==
    /\ view' \in [Windows -> [Questions -> Entry]]
    /\ \A w \in Windows, q \in Questions :
          upTo(view'[w][q], edition(q)) /\ view'[w][q].newest >= view[w][q].newest

LEMMA FetchKeeps ==
    ASSUME Typed, Seen, NEW ws \in SUBSET Windows, fetchIn(ws)
    PROVE  ViewsKept
<1>1. ASSUME NEW w \in Windows, NEW q \in Questions
      PROVE  /\ refetched(view[w][q]) \in Entry /\ upTo(refetched(view[w][q]), edition(q))
             /\ refetched(view[w][q]).newest = view[w][q].newest
             /\ view[w][q] \in Entry /\ upTo(view[w][q], edition(q))
             /\ view[w][q].newest \in Nat
  <2>1. view[w][q] \in Entry /\ view[w][q].newest \in Nat
    BY EntryTyped
  <2>2. upTo(view[w][q], edition(q))
    BY DEF Seen
  <2> QED
    BY <2>1, <2>2, Refetched, Editions
<1>2. view' = [w \in Windows |-> IF w \in ws THEN [q \in Questions |-> refetched(view[w][q])] ELSE view[w]]
  BY DEF fetchIn
<1>3. view' \in [Windows -> [Questions -> Entry]]
  BY <1>1, <1>2 DEF Typed
<1>4. ASSUME NEW w \in Windows, NEW q \in Questions
      PROVE  view'[w][q] = IF w \in ws THEN refetched(view[w][q]) ELSE view[w][q]
  BY <1>2
<1>5. ASSUME NEW w \in Windows, NEW q \in Questions
      PROVE  upTo(view'[w][q], edition(q)) /\ view'[w][q].newest >= view[w][q].newest
  BY <1>1, <1>4
<1> QED
  BY <1>3, <1>5 DEF ViewsKept

\* A step on the entry of one window.
LEMMA EntryKept ==
    ASSUME Typed, Seen, NEW w \in Windows, NEW q \in Questions, NEW new \in Entry,
           view' = [view EXCEPT ![w][q] = new],
           upTo(new, edition(q)), new.newest >= view[w][q].newest
    PROVE  ViewsKept
<1>1. view' \in [Windows -> [Questions -> Entry]]
  BY DEF Typed
<1>2. ASSUME NEW x \in Windows, NEW p \in Questions
      PROVE  view'[x][p] = IF x = w /\ p = q THEN new ELSE view[x][p]
  BY DEF Typed
<1>3. ASSUME NEW x \in Windows, NEW p \in Questions
      PROVE  upTo(view'[x][p], edition(p)) /\ view'[x][p].newest >= view[x][p].newest
  <2>1. view[x][p].newest \in Nat
    BY EntryTyped
  <2> QED
    BY <1>2, <2>1 DEF Seen
<1> QED
  BY <1>1, <1>3 DEF ViewsKept

LEMMA ViewsUnchanged ==
    ASSUME Typed, Seen, UNCHANGED view
    PROVE  ViewsKept
<1>1. ASSUME NEW w \in Windows, NEW q \in Questions PROVE view[w][q].newest \in Nat
  BY EntryTyped
<1> QED
  BY <1>1 DEF ViewsKept, Typed, Seen

--------------------------------------------------------------------------------
(* Steps *)

\* Every step moves a question on or leaves it, and leaves of the views what has been
\* reached; a form goes on an answer that was asked for, and its sender is told what the
\* daemon made of it.
FormsKept ==
    /\ form' \in [Senders -> [Questions -> [pc : {"idle", "sent", "replying"},
                                           told : {"nothing", "accepted", "conflict", "error"}]]]
    /\ \A w \in Senders, q \in Questions :
          /\ form'[w][q].pc = "sent" => question[q].status # "none"
          /\ form'[w][q].told = "accepted" => question'[q] = [status |-> "answered", by |-> w]
          /\ form'[w][q].told = "conflict" => question'[q].status \in {"answered", "closed"}
QuestionsKept ==
    /\ question' \in [Questions -> [status : {"none", "open", "answered", "closed"},
                                    by : Senders \cup {"nobody"}]]
    /\ \A q \in Questions : QuestionKept(q)
StepKept == QuestionsKept /\ ViewsKept /\ FormsKept

LEMMA QuestionsUnchanged ==
    ASSUME Typed, UNCHANGED question
    PROVE  QuestionsKept
BY DEF Typed, QuestionsKept, QuestionKept

LEMMA QuestionSettled ==
    ASSUME Typed, NEW q \in Questions,
           NEW status \in {"open", "answered", "closed"}, NEW by \in Senders \cup {"nobody"},
           question' = [question EXCEPT ![q] = [status |-> status, by |-> by]],
           question[q].status = (IF status = "open" THEN "none" ELSE "open")
    PROVE  /\ QuestionsKept
           /\ question'[q] = [status |-> status, by |-> by]
           /\ \A p \in Questions : p # q => question'[p] = question[p]
BY DEF Typed, QuestionsKept, QuestionKept

\* Nobody was told anything of a question that is open, or has yet to be asked.
LEMMA FormsUnchanged ==
    ASSUME Honest, UNCHANGED form, QuestionsKept
    PROVE  FormsKept
<1>1. form \in [Senders -> [Questions -> [pc : {"idle", "sent", "replying"},
                                         told : {"nothing", "accepted", "conflict", "error"}]]]
  BY DEF Honest, Typed
<1>2. ASSUME NEW w \in Senders, NEW q \in Questions
      PROVE  /\ form[w][q].pc = "sent" => question[q].status # "none"
             /\ form[w][q].told = "accepted" => question'[q] = [status |-> "answered", by |-> w]
             /\ form[w][q].told = "conflict" => question'[q].status \in {"answered", "closed"}
  <2>1. /\ form[w][q].pc = "sent" => question[q].status # "none"
        /\ form[w][q].told = "accepted" => question[q] = [status |-> "answered", by |-> w]
        /\ form[w][q].told = "conflict" => question[q].status \in {"answered", "closed"}
    BY DEF Honest, SentOfAsked, AnswersHonest
  <2>2. QuestionKept(q)
    BY DEF QuestionsKept
  <2>3. question[q].status \in {"answered", "closed"} => question'[q] = question[q]
    BY <2>2 DEF QuestionKept
  <2> QED
    BY <2>1, <2>3
<1> QED
  BY <1>1, <1>2 DEF FormsKept

\* A form goes on: it was not yet told, or what it is told is so.
LEMMA FormGoes ==
    ASSUME Honest, QuestionsKept, NEW w \in Senders, NEW q \in Questions,
           NEW pc \in {"idle", "sent", "replying"},
           NEW answer \in {"nothing", "accepted", "conflict", "error"},
           goesTo(w, q, pc, answer),
           pc = "sent" => question[q].status # "none",
           answer = "accepted" => question'[q] = [status |-> "answered", by |-> w],
           answer = "conflict" => question'[q].status \in {"answered", "closed"}
    PROVE  FormsKept
<1>1. form \in [Senders -> [Questions -> [pc : {"idle", "sent", "replying"},
                                         told : {"nothing", "accepted", "conflict", "error"}]]]
  BY DEF Honest, Typed
<1>2. form' = [form EXCEPT ![w][q] = [pc |-> pc, told |-> answer]]
  BY DEF goesTo
<1>3. form' \in [Senders -> [Questions -> [pc : {"idle", "sent", "replying"},
                                          told : {"nothing", "accepted", "conflict", "error"}]]]
  BY <1>1, <1>2
<1>4. ASSUME NEW x \in Senders, NEW p \in Questions
      PROVE  form'[x][p] = IF x = w /\ p = q THEN [pc |-> pc, told |-> answer] ELSE form[x][p]
  BY <1>1, <1>2
<1>5. ASSUME NEW x \in Senders, NEW p \in Questions
      PROVE  /\ form'[x][p].pc = "sent" => question[p].status # "none"
             /\ form'[x][p].told = "accepted" => question'[p] = [status |-> "answered", by |-> x]
             /\ form'[x][p].told = "conflict" => question'[p].status \in {"answered", "closed"}
  <2>1. CASE x = w /\ p = q
    BY <1>4, <2>1
  <2>2. CASE ~(x = w /\ p = q)
    <3>1. form'[x][p] = form[x][p]
      BY <1>4, <2>2
    <3>2. /\ form[x][p].pc = "sent" => question[p].status # "none"
          /\ form[x][p].told = "accepted" => question[p] = [status |-> "answered", by |-> x]
          /\ form[x][p].told = "conflict" => question[p].status \in {"answered", "closed"}
      BY DEF Honest, SentOfAsked, AnswersHonest
    <3>3. QuestionKept(p)
      BY DEF QuestionsKept
    <3>4. question[p].status \in {"answered", "closed"} => question'[p] = question[p]
      BY <3>3 DEF QuestionKept
    <3> QED
      BY <3>1, <3>2, <3>4
  <2> QED
    BY <2>1, <2>2
<1> QED
  BY <1>3, <1>5 DEF FormsKept

LEMMA ViewStep ==
    ASSUME Honest, UNCHANGED <<question, form>>, ViewsKept
    PROVE  StepKept
<1>1. QuestionsKept
  BY QuestionsUnchanged DEF Honest
<1> QED
  BY <1>1, FormsUnchanged DEF StepKept

LEMMA WindowSteps ==
    ASSUME Honest, NEW w \in Windows, Poll(w) \/ Probe(w)
    PROVE  StepKept
<1>1. Typed /\ Seen
  BY DEF Honest
<1>2. CASE Poll(w)
  <2>1. ViewsKept
    BY <1>1, <1>2, FetchKeeps DEF Poll
  <2> QED
    BY <1>2, <2>1, ViewStep DEF Poll
<1>3. CASE Probe(w)
  <2> DEFINE failed(v) == [refetched(v) EXCEPT !.fetch = None]
  <2>1. UNCHANGED <<question, form>>
    BY <1>3 DEF Probe
  <2>2. PICK off \in BOOLEAN :
          view' = [view EXCEPT ![w] = [q \in Questions |->
                      IF off THEN failed(view[w][q]) ELSE refetched(view[w][q])]]
    <3>1. CASE view' = [view EXCEPT ![w] = [q \in Questions |-> refetched(view[w][q])]]
      BY <3>1
    <3>2. CASE view' = [view EXCEPT ![w] = [q \in Questions |-> failed(view[w][q])]]
      BY <3>2
    <3> QED
      BY <1>3, <3>1, <3>2 DEF Probe
  <2>3. ASSUME NEW q \in Questions
        PROVE  /\ refetched(view[w][q]) \in Entry /\ upTo(refetched(view[w][q]), edition(q))
               /\ refetched(view[w][q]).newest = view[w][q].newest
               /\ failed(view[w][q]) \in Entry /\ upTo(failed(view[w][q]), edition(q))
               /\ failed(view[w][q]).newest = view[w][q].newest
    <3>1. /\ view[w][q] \in Entry /\ upTo(view[w][q], edition(q)) /\ edition(q) \in 0..2
      BY <1>1, EntryTyped, Editions DEF Seen
    <3>2. /\ refetched(view[w][q]) \in Entry /\ upTo(refetched(view[w][q]), edition(q))
          /\ refetched(view[w][q]).newest = view[w][q].newest
      BY <3>1, Refetched
    <3>3. failed(view[w][q]) \in Entry /\ failed(view[w][q]).newest = view[w][q].newest
      BY <3>2 DEF Entry
    <3>4. upTo(failed(view[w][q]), edition(q))
      BY <3>2 DEF upTo, Entry, None
    <3> QED
      BY <3>2, <3>3, <3>4
  <2>4. ASSUME NEW x \in Windows, NEW q \in Questions
        PROVE  view'[x][q] = IF x = w THEN (IF off THEN failed(view[w][q]) ELSE refetched(view[w][q]))
                             ELSE view[x][q]
    BY <1>1, <2>2 DEF Typed
  <2>5. view' \in [Windows -> [Questions -> Entry]]
    BY <1>1, <2>2, <2>3 DEF Typed
  <2>6. ASSUME NEW x \in Windows, NEW q \in Questions
        PROVE  upTo(view'[x][q], edition(q)) /\ view'[x][q].newest >= view[x][q].newest
    <3>1. view[x][q].newest \in Nat /\ upTo(view[x][q], edition(q))
      BY <1>1, EntryTyped DEF Seen
    <3> HIDE DEF failed
    <3> QED
      BY <2>3, <2>4, <3>1
  <2>7. ViewsKept
    BY <2>5, <2>6 DEF ViewsKept
  <2> QED
    BY <2>1, <2>7, ViewStep
<1> QED
  BY <1>2, <1>3

LEMMA FetchSteps ==
    ASSUME Honest, NEW w \in Windows, NEW q \in Questions,
           Serve(w, q) \/ Deliver(w, q) \/ FetchFails(w, q)
    PROVE  StepKept
<1> DEFINE v == view[w][q]
<1>1. /\ Typed /\ Seen
      /\ v \in Entry /\ v.newest \in Nat /\ upTo(v, edition(q)) /\ edition(q) \in 0..2
  BY EntryTyped, Editions DEF Honest, Seen
<1>2. view \in [Windows -> [Questions -> Entry]]
  BY <1>1 DEF Typed
<1>3. UNCHANGED <<question, form>>
  BY DEF Serve, Deliver, FetchFails
<1>4. SUFFICES \E new \in Entry : /\ view' = [view EXCEPT ![w][q] = new]
                                 /\ upTo(new, edition(q)) /\ new.newest >= v.newest
  <2>1. ViewsKept
    BY <1>1, <1>4, EntryKept
  <2> QED
    BY <1>3, <2>1, ViewStep
<1>5. CASE Serve(w, q)
  <2> DEFINE new == [v EXCEPT !.fetch = edition(q)]
  <2>1. view' = [view EXCEPT ![w][q] = new]
    BY <1>2, <1>5 DEF Serve
  <2>2. new \in Entry
    BY <1>1 DEF Entry
  <2>3. upTo(new, edition(q)) /\ new.newest >= v.newest
    BY <1>1 DEF Entry, upTo
  <2> QED
    BY <2>1, <2>2, <2>3
<1>6. CASE Deliver(w, q)
  <2>1. CASE v.fetch \in 0..2 /\ view' = [view EXCEPT ![w][q] = [v EXCEPT
               !.cache = v.fetch, !.data = v.fetch, !.stale = FALSE, !.newest = v.fetch, !.fetch = None]]
    <3> DEFINE new == [v EXCEPT !.cache = v.fetch, !.data = v.fetch, !.stale = FALSE,
                                !.newest = v.fetch, !.fetch = None]
    <3>1. new \in Entry
      BY <1>1, <2>1 DEF Entry
    <3>2. /\ new.cache = v.fetch /\ new.data = v.fetch /\ new.newest = v.fetch
          /\ new.fetch = None /\ new.late = v.late
      BY <1>1 DEF Entry
    <3>3. upTo(new, edition(q)) /\ new.newest >= v.newest
      BY <1>1, <2>1, <3>2 DEF upTo, None
    <3> QED
      BY <2>1, <3>1, <3>3
  <2>2. CASE v.late \in 0..2 /\ view' = [view EXCEPT ![w][q].cache = v.late, ![w][q].late = None]
    <3> DEFINE new == [v EXCEPT !.cache = v.late, !.late = None]
    <3>1. view' = [view EXCEPT ![w][q] = new]
      BY <1>2, <2>2
    <3>2. new \in Entry
      BY <1>1, <2>2 DEF Entry
    <3>3. upTo(new, edition(q)) /\ new.newest >= v.newest
      BY <1>1, <2>2 DEF Entry, upTo, None
    <3> QED
      BY <3>1, <3>2, <3>3
  <2> QED
    BY <1>6, <2>1, <2>2 DEF Deliver
<1>7. CASE FetchFails(w, q)
  <2> DEFINE new == [v EXCEPT !.fetch = None]
  <2>1. view' = [view EXCEPT ![w][q] = new]
    BY <1>2, <1>7 DEF FetchFails
  <2>2. new \in Entry
    BY <1>1 DEF Entry
  <2>3. upTo(new, edition(q)) /\ new.newest >= v.newest
    BY <1>1 DEF Entry, upTo, None
  <2> QED
    BY <2>1, <2>2, <2>3
<1> QED
  BY <1>5, <1>6, <1>7

\* The answer of a question, and the events of it.
LEMMA Settles ==
    ASSUME Honest, NEW q \in Questions,
           NEW status \in {"open", "answered", "closed"}, NEW by \in Senders \cup {"nobody"},
           settles(q, status, by), question[q].status = (IF status = "open" THEN "none" ELSE "open")
    PROVE  QuestionsKept /\ ViewsKept /\ question'[q] = [status |-> status, by |-> by]
<1>1. Typed /\ Seen
  BY DEF Honest
<1>2. QuestionsKept /\ question'[q] = [status |-> status, by |-> by]
  <2>1. question' = [question EXCEPT ![q] = [status |-> status, by |-> by]]
    BY DEF settles
  <2> QED
    BY <1>1, <2>1 DEF Typed, QuestionsKept, QuestionKept
<1>3. ViewsKept
  BY <1>1, FetchKeeps DEF settles
<1> QED
  BY <1>2, <1>3

LEMMA QuestionSteps ==
    ASSUME Honest, NEW q \in Questions, Ask(q) \/ Close(q)
    PROVE  StepKept
<1>1. QuestionsKept /\ ViewsKept
  BY Settles DEF Ask, Close
<1>2. UNCHANGED form
  BY DEF Ask, Close
<1> QED
  BY <1>1, <1>2, FormsUnchanged DEF StepKept

LEMMA FormSteps ==
    ASSUME Honest, NEW w \in Senders, NEW q \in Questions, Submit(w, q) \/ Answering(w, q)
    PROVE  StepKept
<1>1. Typed /\ Seen
  BY DEF Honest
<1>2. CASE Submit(w, q)
  <2>1. question[q].status # "none"
    <3>1. CASE w \in Callers
      BY <1>2, <3>1 DEF Submit
    <3>2. CASE w \in Windows
      <4>1. view[w][q].data = 1 /\ view[w][q].data <= edition(q)
        BY <1>1, <1>2, <3>2 DEF Submit, Seen, upTo
      <4> QED
        BY <1>1, <4>1, Editions
    <3> QED
      BY <3>1, <3>2 DEF Senders
  <2>2. QuestionsKept /\ ViewsKept
    BY <1>1, <1>2, QuestionsUnchanged, ViewsUnchanged DEF Submit
  <2>3. FormsKept
    BY <1>2, <2>1, <2>2, FormGoes DEF Submit
  <2> QED
    BY <2>2, <2>3 DEF StepKept
<1>3. CASE Respond(w, q)
  <2>1. CASE accepts(w, q) /\ settles(q, "answered", w) /\ goesTo(w, q, "replying", "accepted")
    <3>1. QuestionsKept /\ ViewsKept /\ question'[q] = [status |-> "answered", by |-> w]
      BY <2>1, Settles DEF accepts
    <3>2. FormsKept
      BY <2>1, <3>1, FormGoes
    <3> QED
      BY <3>1, <3>2 DEF StepKept
  <2>2. CASE ~accepts(w, q) /\ goesTo(w, q, "replying", "conflict") /\ UNCHANGED <<question, view>>
    <3>1. QuestionsKept /\ ViewsKept
      BY <1>1, <2>2, QuestionsUnchanged, ViewsUnchanged
    <3>2. question'[q].status \in {"answered", "closed"}
      <4>1. question[q].status \in {"none", "open", "answered", "closed"}
        BY <1>1 DEF Typed
      <4>2. question[q].status # "none"
        BY <1>3 DEF Respond, Form, Honest, SentOfAsked
      <4> QED
        BY <2>2, <4>1, <4>2 DEF accepts
    <3>3. FormsKept
      BY <2>2, <3>1, <3>2, FormGoes
    <3> QED
      BY <3>1, <3>3 DEF StepKept
  <2> QED
    BY <1>3, <2>1, <2>2 DEF Respond
<1>4. CASE Reply(w, q)
  <2>1. UNCHANGED question
    BY <1>4 DEF Reply
  <2>2. QuestionsKept
    BY <1>1, <2>1, QuestionsUnchanged
  <2>3. CASE goesTo(w, q, "idle", form[w][q].told)
             /\ fetchIn({v \in Windows : v = w /\ health[v] = "connected"})
    <3>1. ViewsKept
      BY <1>1, <2>3, FetchKeeps
    <3>2. /\ form[w][q].told \in {"nothing", "accepted", "conflict", "error"}
          /\ form[w][q].told = "accepted" => question'[q] = [status |-> "answered", by |-> w]
          /\ form[w][q].told = "conflict" => question'[q].status \in {"answered", "closed"}
      BY <2>1 DEF Honest, Typed, AnswersHonest
    <3>3. FormsKept
      BY <2>2, <2>3, <3>2, FormGoes
    <3> QED
      BY <2>2, <3>1, <3>3 DEF StepKept
  <2>4. CASE goesTo(w, q, "idle", "error") /\ UNCHANGED view
    <3>1. ViewsKept
      BY <1>1, <2>4, ViewsUnchanged
    <3>2. FormsKept
      BY <2>2, <2>4, FormGoes
    <3> QED
      BY <2>2, <3>1, <3>2 DEF StepKept
  <2> QED
    BY <1>4, <2>3, <2>4 DEF Reply
<1> QED
  BY <1>2, <1>3, <1>4 DEF Answering

LEMMA Steps ==
    ASSUME Honest, ControlNext
    PROVE  StepKept
BY QuestionSteps, WindowSteps, FetchSteps, FormSteps DEF ControlNext

LEMMA Stutters ==
    ASSUME Honest, UNCHANGED controlVars
    PROVE  StepKept
BY ViewStep, ViewsUnchanged DEF controlVars, Honest

--------------------------------------------------------------------------------
(* The theorems *)

LEMMA HonestAtFirst == ControlInit => Honest
<1> SUFFICES ASSUME ControlInit PROVE Honest
  OBVIOUS
<1>1. Unseen \in Entry
  BY DEF Unseen, Entry, None
<1>2. Typed
  BY <1>1 DEF ControlInit, Typed, Unasked
<1>3. ASSUME NEW w \in Windows, NEW q \in Questions PROVE upTo(view[w][q], edition(q))
  <2>1. view[w][q] = Unseen /\ edition(q) = 0
    BY DEF ControlInit, edition, Unasked
  <2> QED
    BY <2>1 DEF upTo, Unseen, None
<1>4. \A w \in Senders, q \in Questions :
        form[w][q].pc = "idle" /\ form[w][q].told = "nothing"
  BY DEF ControlInit
<1> QED
  BY <1>2, <1>3, <1>4 DEF Honest, Seen, SentOfAsked, AnswersHonest

LEMMA HonestStays == Honest /\ [ControlNext]_controlVars => Honest'
<1> SUFFICES ASSUME Honest, [ControlNext]_controlVars PROVE Honest'
  OBVIOUS
<1>1. QuestionsKept /\ ViewsKept /\ FormsKept
  BY Steps, Stutters DEF StepKept
<1>2. Typed /\ Seen
  BY DEF Honest
<1>3. Typed'
  BY <1>1 DEF Typed, QuestionsKept, ViewsKept, FormsKept
<1>4. ASSUME NEW q \in Questions
      PROVE  /\ edition(q) \in 0..2 /\ edition(q)' \in 0..2 /\ edition(q) <= edition(q)'
             /\ question[q].status # "none" => question'[q].status # "none"
  <2>1. QuestionKept(q)
    BY <1>1 DEF QuestionsKept
  <2>2. edition(q)' \in 0..2
    BY <1>3 DEF Typed, edition
  <2> QED
    BY <1>2, <1>3, <2>1, <2>2, Editions, EditionsGrow
<1>5. Seen'
  <2> SUFFICES ASSUME NEW w \in Windows, NEW q \in Questions
               PROVE  upTo(view'[w][q], edition(q)')
    BY DEF Seen, upTo
  <2>1. view'[w][q] \in Entry /\ upTo(view'[w][q], edition(q))
    BY <1>1 DEF ViewsKept
  <2> QED
    BY <1>4, <2>1 DEF upTo, Entry
<1>6. SentOfAsked'
  BY <1>1, <1>4 DEF FormsKept, SentOfAsked
<1>7. AnswersHonest'
  BY <1>1 DEF FormsKept, AnswersHonest
<1> QED
  BY <1>3, <1>5, <1>6, <1>7 DEF Honest

\* respondToWait tells exactly one sender that the answer was taken, the one whose answer
\* the row keeps, and a conflict only of a question that is settled: for any number of
\* windows and callers, fetches, lost replies and repeated answers.
THEOREM AnswersAreHonest == ControlSpec => []AnswersHonest
<1>1. Honest => AnswersHonest
  BY DEF Honest
<1> QED
  BY <1>1, HonestAtFirst, HonestStays, PTL DEF ControlSpec

\* A page never shows as fresh what is older than what it has shown as fresh: the fetch
\* it has not cancelled was served after every fetch it has shown.
THEOREM ViewsNeverOlder == ControlSpec => NeverOlder
<1>1. Honest /\ [ControlNext]_controlVars
        => [\A w \in Windows, q \in Questions : view'[w][q].newest >= view[w][q].newest]_view
  BY Steps, Stutters DEF StepKept, ViewsKept
<1> QED
  BY <1>1, HonestAtFirst, HonestStays, PTL DEF ControlSpec, NeverOlder

--------------------------------------------------------------------------------
(***************************************************************************)
(* The desktop application and its daemon, for any number of daemons,      *)
(* launches and restarts.                                                  *)
(***************************************************************************)

DaemonStates == {"starting", "listening", "ready", "stopping", "draining", "cleared", "exited"}
Over == {"cleared", "exited"}
Ending == {"stopping", "draining"} \cup Over
\* The ones that have had the port once.
Heard == {d \in DOMAIN daemons : daemons[d].pc # "starting"}
Ours == {d \in DOMAIN daemons : daemons[d].by = launches}

ShellRecords ==
    [pc : {"off", "bootstrap", "loop", "spawn", "spawned", "waits", "watches", "done"},
     child : Nat, pid : Nat, owns_process : BOOLEAN, stopping : BOOLEAN,
     restarts : Nat, late : BOOLEAN]

ShellTyped ==
    /\ daemons \in Seq([pc : DaemonStates, by : Nat])
    /\ {info, window, page.token, stored} \subseteq {0} \cup Heard
    /\ shell \in ShellRecords
    /\ page \in [loaded : BOOLEAN, token : Nat]
    /\ launches \in Nat

\* One daemon has the port.
OneListens == \A d, e \in DOMAIN daemons : listens(d) /\ listens(e) => d = e

\* Of the daemons the application has started all are over but the one it waits for; it
\* owns that one from its first look at it to its end.
Supervised ==
    /\ \A d \in DOMAIN daemons : daemons[d].by <= launches
    /\ ~at("off") => launches > 0
    /\ shell.pc \in {"bootstrap", "loop", "spawn", "done"} =>
         \A d \in Ours : daemons[d].pc \in Over
    /\ shell.pc \in {"spawned", "waits", "watches"} =>
         /\ shell.child \in Ours /\ shell.pid = shell.child
         /\ \A d \in Ours : d = shell.child \/ daemons[d].pc \in Over
    /\ shell.pc \in {"waits", "watches"} => shell.owns_process
    /\ shell.owns_process => shell.pc \in {"waits", "watches", "off"}

\* Whoever stops, and not between the look at the flag and the ownership, has told all
\* of its daemons.
StopsItsOwn ==
    /\ at("off") /\ launches > 0 => shell.stopping
    /\ shell.stopping /\ ~shell.late /\ launches > 0 =>
         /\ shell.pc \notin {"spawn", "spawned"}
         /\ \A d \in Ours : daemons[d].pc \in Ending

ShellInv == ShellTyped /\ OneListens /\ DaemonFound /\ Supervised /\ StopsItsOwn
--------------------------------------------------------------------------------
(* Daemons *)

Daemon == [pc : DaemonStates, by : Nat]

\* A daemon goes on, or does not: who has had the port has had it, and an end is an end.
Onward(a, b) ==
    /\ a # "starting" => b # "starting"
    /\ a \in Ending => b \in Ending
    /\ a \in Over => b = a
GoOn ==
    /\ daemons' \in Seq(Daemon)
    /\ Len(daemons) <= Len(daemons')
    /\ \A d \in DOMAIN daemons :
         daemons'[d].by = daemons[d].by /\ Onward(daemons[d].pc, daemons'[d].pc)
\* A step that gives nobody the port and leaves daemon.json alone.
Quiet ==
    /\ info' = info
    /\ \A d \in DOMAIN daemons' :
         listens(d)' => /\ d \in DOMAIN daemons /\ listens(d)
                        /\ daemons'[d].pc = "ready" => daemons[d].pc = "ready"

LEMMA DaemonsTyped ==
    ASSUME ShellTyped
    PROVE  /\ daemons \in Seq(Daemon) /\ Len(daemons) \in Nat /\ DOMAIN daemons = 1..Len(daemons)
           /\ \A d \in DOMAIN daemons : daemons[d] \in Daemon
<1>1. daemons \in Seq(Daemon)
  BY DEF ShellTyped, Daemon
<1>2. Len(daemons) \in Nat /\ DOMAIN daemons = 1..Len(daemons)
  BY <1>1
<1>3. \A d \in DOMAIN daemons : daemons[d] \in Daemon
  BY <1>1
<1> QED
  BY <1>1, <1>2, <1>3

LEMMA Further ==
    ASSUME ShellTyped, GoOn
    PROVE  DOMAIN daemons \subseteq DOMAIN daemons' /\ Heard \subseteq Heard'
<1>1. DOMAIN daemons = 1..Len(daemons) /\ DOMAIN daemons' = 1..Len(daemons') /\ Len(daemons) \in Nat
      /\ Len(daemons') \in Nat
  BY DaemonsTyped DEF GoOn
<1>2. DOMAIN daemons \subseteq DOMAIN daemons'
  BY <1>1 DEF GoOn
<1> QED
  BY <1>2 DEF GoOn, Heard, Onward

LEMMA Unmoved ==
    ASSUME ShellTyped, daemons' = daemons
    PROVE  GoOn /\ (info' = info => Quiet)
<1>1. GoOn
  BY DaemonsTyped DEF GoOn, Onward
<1> QED
  BY <1>1 DEF Quiet, listens

LEMMA Becomes ==
    ASSUME ShellTyped, NEW d \in DOMAIN daemons, NEW pc \in DaemonStates,
           Onward(daemons[d].pc, pc), becomes(d, pc)
    PROVE  /\ GoOn /\ DOMAIN daemons' = DOMAIN daemons
           /\ daemons'[d].pc = pc /\ daemons'[d].by = daemons[d].by
           /\ \A e \in DOMAIN daemons : e # d => daemons'[e] = daemons[e]
<1>1. daemons' = [daemons EXCEPT ![d] = [daemons[d] EXCEPT !.pc = pc]]
  BY DEF becomes
<1>2. [daemons[d] EXCEPT !.pc = pc] \in Daemon
  BY DaemonsTyped DEF Daemon
<1>3. daemons' \in Seq(Daemon) /\ Len(daemons') = Len(daemons) /\ DOMAIN daemons' = DOMAIN daemons
  BY <1>1, <1>2, DaemonsTyped
<1>4. daemons'[d].pc = pc /\ daemons'[d].by = daemons[d].by
  BY <1>1, DaemonsTyped DEF Daemon
<1>5. \A e \in DOMAIN daemons : e # d => daemons'[e] = daemons[e]
  BY <1>1
<1>6. GoOn
  BY <1>3, <1>4, <1>5, DaemonsTyped DEF GoOn, Onward
<1> QED
  BY <1>3, <1>4, <1>5, <1>6

LEMMA Starts ==
    ASSUME ShellTyped, NEW by \in Nat, started(by)
    PROVE  /\ GoOn /\ DOMAIN daemons' = 1..(Len(daemons) + 1)
           /\ daemons'[Len(daemons) + 1] = [pc |-> "starting", by |-> by]
           /\ \A e \in DOMAIN daemons : daemons'[e] = daemons[e]
           /\ info' = info => Quiet
<1> DEFINE new == [pc |-> "starting", by |-> by]
<1>1. daemons' = Append(daemons, new)
  BY DEF started
<1>2. new \in Daemon /\ new.pc = "starting"
  BY DEF Daemon, DaemonStates
<1> HIDE DEF new
<1>3. /\ daemons' \in Seq(Daemon) /\ Len(daemons') = Len(daemons) + 1 /\ DOMAIN daemons' = 1..(Len(daemons) + 1)
      /\ daemons'[Len(daemons) + 1] = new
      /\ \A e \in DOMAIN daemons : daemons'[e] = daemons[e]
  BY <1>1, <1>2, DaemonsTyped
<1>4. GoOn
  BY <1>3, DaemonsTyped DEF GoOn, Onward
<1>5. info' = info => Quiet
  <2>1. \A d \in DOMAIN daemons' : d \in DOMAIN daemons \/ d = Len(daemons) + 1
    BY <1>3, DaemonsTyped
  <2> QED BY <1>2, <1>3, <2>1 DEF Quiet, listens
<1> QED
  BY <1>3, <1>4, <1>5 DEF new

LEMMA Signalled ==
    ASSUME ShellTyped, NEW d \in DOMAIN daemons, signalled(d)
    PROVE  /\ GoOn /\ DOMAIN daemons' = DOMAIN daemons
           /\ daemons'[d].pc \in Ending
           /\ \A e \in DOMAIN daemons : e # d => daemons'[e] = daemons[e]
           /\ info' = info => Quiet
<1>1. CASE daemons[d].pc \in {"starting", "listening"}
  <2>1. becomes(d, "exited") /\ Onward(daemons[d].pc, "exited") /\ "exited" \in DaemonStates
    BY <1>1 DEF signalled, Onward, Ending, Over, DaemonStates
  <2>2. /\ GoOn /\ DOMAIN daemons' = DOMAIN daemons
        /\ daemons'[d].pc = "exited"
        /\ \A e \in DOMAIN daemons : e # d => daemons'[e] = daemons[e]
    BY <2>1, Becomes
  <2> QED BY <2>2 DEF Quiet, listens, Ending, Over
<1>2. CASE daemons[d].pc = "ready"
  <2>1. becomes(d, "stopping") /\ Onward(daemons[d].pc, "stopping") /\ "stopping" \in DaemonStates
    BY <1>2 DEF signalled, Onward, Ending, Over, DaemonStates
  <2>2. /\ GoOn /\ DOMAIN daemons' = DOMAIN daemons
        /\ daemons'[d].pc = "stopping"
        /\ \A e \in DOMAIN daemons : e # d => daemons'[e] = daemons[e]
    BY <2>1, Becomes
  <2> QED BY <1>2, <2>2 DEF Quiet, listens, Ending, Over
<1>3. CASE daemons[d].pc \notin {"starting", "listening", "ready"}
  <2>1. daemons' = daemons
    BY <1>3 DEF signalled
  <2>2. daemons[d].pc \in Ending
    BY <1>3, DaemonsTyped DEF Daemon, DaemonStates, Ending, Over
  <2> QED BY <2>1, <2>2, Unmoved
<1> QED
  BY <1>1, <1>2, <1>3

--------------------------------------------------------------------------------
(* What the steps keep *)

LEMMA QuietKeeps ==
    ASSUME ShellInv, GoOn, Quiet
    PROVE  OneListens' /\ DaemonFound'
<1>1. OneListens'
  BY DEF ShellInv, OneListens, Quiet
<1>2. DaemonFound'
  <2> SUFFICES ASSUME NEW d \in DOMAIN daemons', daemons'[d].pc = "ready", info' # d
               PROVE  info' = 0 /\ \E older \in DOMAIN daemons' : daemons'[older].pc = "cleared"
    BY DEF DaemonFound
  <2>1. d \in DOMAIN daemons /\ daemons[d].pc = "ready" /\ info # d
    BY DEF Quiet, listens
  <2>2. info = 0 /\ \E older \in DOMAIN daemons : daemons[older].pc = "cleared"
    BY <2>1 DEF ShellInv, DaemonFound
  <2>3. \A older \in DOMAIN daemons : daemons[older].pc = "cleared" => daemons'[older].pc = "cleared"
    BY DEF GoOn, Onward, Over
  <2> QED BY <2>2, <2>3, Further DEF ShellInv, Quiet
<1> QED
  BY <1>1, <1>2

\* Daemons that go on, and others started by hand, leave the application with its own.
LEMMA OwnKept ==
    ASSUME ShellInv, GoOn, UNCHANGED <<shell, launches>>,
           \A d \in DOMAIN daemons' \ DOMAIN daemons : daemons'[d].by = 0
    PROVE  Supervised' /\ StopsItsOwn'
<1>1. \A d \in DOMAIN daemons : daemons'[d].by = daemons[d].by /\ Onward(daemons[d].pc, daemons'[d].pc)
  BY DEF GoOn
<1>2. launches > 0 => Ours' = Ours
  BY <1>1, Further DEF ShellInv, Ours
<1>3. \A d \in Ours : /\ daemons[d].pc \in Over => daemons'[d].pc \in Over
                      /\ daemons[d].pc \in Ending => daemons'[d].pc \in Ending
  BY <1>1 DEF Ours, Onward
<1>4. \A d \in DOMAIN daemons' : daemons'[d].by <= launches'
  BY <1>1 DEF ShellInv, Supervised, ShellTyped
<1>5. ~at("off") => launches > 0
  BY DEF ShellInv, Supervised
<1>6. shell.pc \in {"bootstrap", "loop", "spawn", "done", "spawned", "waits", "watches"} => launches > 0
  BY <1>5 DEF at
<1>7. Supervised'
  BY <1>2, <1>3, <1>4, <1>5, <1>6 DEF ShellInv, Supervised, at
<1>8. StopsItsOwn'
  BY <1>2, <1>3 DEF ShellInv, StopsItsOwn, at
<1> QED
  BY <1>7, <1>8

\* The tokens somebody has are of daemons that have had the port.
LEMMA TokensKept ==
    ASSUME ShellInv, GoOn, shell' \in ShellRecords,
           page' \in [loaded : BOOLEAN, token : Nat], launches' \in Nat,
           {info', window', page'.token, stored'} \subseteq {0} \cup Heard'
    PROVE  ShellTyped'
BY DEF GoOn, ShellTyped, Daemon

--------------------------------------------------------------------------------
(* The steps *)

LEMMA DaemonStays ==
    ASSUME ShellInv,
           (\E d \in DOMAIN daemons :
              Listen(d) \/ WriteInfo(d) \/ ClosePort(d) \/ clearDaemonInfo(d) \/ Crash(d))
           \/ ByHand
    PROVE  ShellInv'
<1>1. ShellTyped /\ UNCHANGED <<shell, window, page, stored, launches>>
  BY DEF ShellInv, Listen, WriteInfo, ClosePort, clearDaemonInfo, Crash, ByHand
<1>2. ASSUME GoOn, info' = info \/ info' \in {0} \cup Heard',
             \A d \in DOMAIN daemons' \ DOMAIN daemons : daemons'[d].by = 0
      PROVE  ShellTyped' /\ Supervised' /\ StopsItsOwn'
  <2>1. {info', window', page'.token, stored'} \subseteq {0} \cup Heard'
    <3>1. Heard \subseteq Heard'
      BY <1>1, <1>2, Further
    <3> QED BY <1>1, <1>2, <3>1 DEF ShellTyped
  <2>2. ShellTyped'
    BY <1>1, <1>2, <2>1, TokensKept DEF ShellTyped
  <2> QED BY <1>1, <1>2, <2>2, OwnKept
<1>3. ASSUME NEW d \in DOMAIN daemons, Listen(d) PROVE ShellInv'
  <2> DEFINE pc == IF \E other \in DOMAIN daemons : listens(other) THEN "exited" ELSE "listening"
  <2>1. becomes(d, pc) /\ daemons[d].pc = "starting" /\ info' = info /\ pc \in DaemonStates
        /\ Onward(daemons[d].pc, pc)
    BY <1>3 DEF Listen, DaemonStates, Onward, Ending, Over
  <2>2. /\ GoOn /\ DOMAIN daemons' = DOMAIN daemons /\ daemons'[d].pc = pc
        /\ \A e \in DOMAIN daemons : e # d => daemons'[e] = daemons[e]
    BY <1>1, <2>1, Becomes
  <2>3. OneListens'
    BY <2>2 DEF ShellInv, OneListens, listens
  <2>4. DaemonFound'
    BY <2>1, <2>2 DEF ShellInv, DaemonFound
  <2> QED BY <1>2, <2>1, <2>2, <2>3, <2>4 DEF ShellInv
<1>4. ASSUME NEW d \in DOMAIN daemons, WriteInfo(d) PROVE ShellInv'
  <2>1. becomes(d, "ready") /\ daemons[d].pc = "listening" /\ info' = d /\ "ready" \in DaemonStates
        /\ Onward(daemons[d].pc, "ready")
    BY <1>4 DEF WriteInfo, DaemonStates, Onward, Ending, Over
  <2>2. /\ GoOn /\ DOMAIN daemons' = DOMAIN daemons /\ daemons'[d].pc = "ready"
        /\ \A e \in DOMAIN daemons : e # d => daemons'[e] = daemons[e]
    BY <1>1, <2>1, Becomes
  <2>3. OneListens'
    BY <2>1, <2>2 DEF ShellInv, OneListens, listens
  <2>4. DaemonFound'
    <3>1. \A e \in DOMAIN daemons' : daemons'[e].pc = "ready" => e = d
      BY <2>2, <2>3 DEF OneListens, listens
    <3> QED BY <2>1, <3>1 DEF DaemonFound
  <2>5. info' \in Heard'
    BY <2>1, <2>2 DEF Heard
  <2> QED BY <1>2, <2>2, <2>3, <2>4, <2>5 DEF ShellInv
<1>5. ASSUME NEW d \in DOMAIN daemons, clearDaemonInfo(d) PROVE ShellInv'
  <2>1. becomes(d, "cleared") /\ daemons[d].pc = "draining" /\ info' = 0 /\ "cleared" \in DaemonStates
        /\ Onward(daemons[d].pc, "cleared")
    BY <1>5 DEF clearDaemonInfo, DaemonStates, Onward, Ending, Over
  <2>2. /\ GoOn /\ DOMAIN daemons' = DOMAIN daemons /\ daemons'[d].pc = "cleared"
        /\ \A e \in DOMAIN daemons : e # d => daemons'[e] = daemons[e]
    BY <1>1, <2>1, Becomes
  <2>3. OneListens'
    BY <2>1, <2>2 DEF ShellInv, OneListens, listens
  <2>4. DaemonFound'
    BY <2>1, <2>2 DEF DaemonFound
  <2> QED BY <1>2, <2>1, <2>2, <2>3, <2>4 DEF ShellInv
<1>6. ASSUME GoOn, Quiet, \A d \in DOMAIN daemons' \ DOMAIN daemons : daemons'[d].by = 0
      PROVE  ShellInv'
  BY <1>2, <1>6, QuietKeeps DEF ShellInv, Quiet
<1>7. ASSUME NEW d \in DOMAIN daemons, ClosePort(d) \/ Crash(d) PROVE ShellInv'
  <2>1. PICK pc \in {"draining", "exited"} : becomes(d, pc)
    BY <1>7 DEF ClosePort, Crash
  <2>3. daemons[d].pc \notin Over /\ info' = info
    BY <1>7 DEF ClosePort, Crash, over, Over
  <2>4. Onward(daemons[d].pc, pc) /\ pc \in DaemonStates
    BY <2>3 DEF Onward, Ending, Over, DaemonStates
  <2>5. /\ GoOn /\ DOMAIN daemons' = DOMAIN daemons /\ daemons'[d].pc = pc
        /\ \A e \in DOMAIN daemons : e # d => daemons'[e] = daemons[e]
    BY <1>1, <2>1, <2>4, Becomes
  <2>6. Quiet
    BY <2>3, <2>5 DEF Quiet, listens
  <2> QED BY <1>6, <2>5, <2>6
<1>8. CASE ByHand
  <2>1. CASE started(0)
    <3>1. /\ GoOn /\ DOMAIN daemons' = 1..(Len(daemons) + 1)
          /\ daemons'[Len(daemons) + 1] = [pc |-> "starting", by |-> 0] /\ Quiet
      BY <1>1, <1>8, <2>1, Starts DEF ByHand
    <3>2. \A d \in DOMAIN daemons' \ DOMAIN daemons : d = Len(daemons) + 1
      BY <1>1, <3>1, DaemonsTyped
    <3> QED BY <1>6, <3>1, <3>2
  <2>2. ASSUME NEW d \in DOMAIN daemons, signalled(d) PROVE ShellInv'
    BY <1>1, <1>6, <1>8, <2>2, Signalled DEF ByHand
  <2> QED BY <1>8, <2>1, <2>2 DEF ByHand
<1> QED
  BY <1>3, <1>4, <1>5, <1>7, <1>8

\* The page keeps the token it has stored, or takes one there is.
LEMMA PageStays ==
    ASSUME ShellInv, Load \/ removeConnection \/ addConnection
    PROVE  ShellInv'
<1>1. UNCHANGED <<daemons, info, shell, window, launches>> /\ ShellTyped
  BY DEF Load, removeConnection, addConnection, ShellInv
<1>2. GoOn /\ Quiet
  BY <1>1, Unmoved
<1>3. PICK token \in {0, info, window, stored} : keeps(token)
  BY DEF Load, removeConnection, addConnection
<1>4. token \in {0} \cup Heard /\ token \in Nat
  BY <1>1, <1>3, DaemonsTyped DEF ShellTyped, Heard
<1>5. /\ page' = [loaded |-> TRUE, token |-> token] /\ stored' = token /\ page'.token = token
      /\ page' \in [loaded : BOOLEAN, token : Nat]
  BY <1>3, <1>4 DEF keeps
<1>6. {info', window', page'.token, stored'} \subseteq {0} \cup Heard'
  BY <1>1, <1>4, <1>5 DEF ShellTyped, Heard
<1>7. ShellTyped'
  BY <1>1, <1>2, <1>5, <1>6, TokensKept DEF ShellTyped
<1> QED
  BY <1>1, <1>2, <1>7, QuietKeeps, OwnKept DEF ShellInv

--------------------------------------------------------------------------------
(* The shell: steps that leave the daemons alone *)

\* A step of the shell with the daemons as they are keeps what is about the daemons.
LEMMA ShellKeepsDaemons ==
    ASSUME ShellInv, UNCHANGED <<daemons, info, stored>>,
           window' \in {0, info, window}, page' \in {page, NoPage},
           shell' \in ShellRecords, launches' \in Nat
    PROVE  ShellTyped' /\ OneListens' /\ DaemonFound' /\ Heard' = Heard
<1>1. ShellTyped
  BY DEF ShellInv
<1>2. GoOn /\ Quiet
  BY <1>1, Unmoved
<1>3. Heard' = Heard
  BY DEF Heard
<1>4. page' \in [loaded : BOOLEAN, token : Nat] /\ page'.token \in {0, page.token}
  <2>1. NoPage \in [loaded : BOOLEAN, token : Nat] /\ NoPage.token = 0
    BY DEF NoPage
  <2>2. page \in [loaded : BOOLEAN, token : Nat]
    BY <1>1 DEF ShellTyped
  <2> QED BY <2>1, <2>2
<1>5. {info', window', page'.token, stored'} \subseteq {0} \cup Heard'
  BY <1>1, <1>3, <1>4 DEF ShellTyped
<1>6. ShellTyped'
  BY <1>2, <1>4, <1>5, TokensKept
<1> QED
  BY <1>2, <1>3, <1>6, QuietKeeps

LEMMA Goes ==
    ASSUME ShellTyped, NEW pc \in {"off", "bootstrap", "loop", "spawn", "spawned", "waits", "watches", "done"},
           goes(pc)
    PROVE  /\ shell' \in ShellRecords /\ shell'.pc = pc
           /\ shell'.child = shell.child /\ shell'.pid = shell.pid
           /\ shell'.owns_process = shell.owns_process /\ shell'.stopping = shell.stopping
           /\ shell'.late = shell.late
BY DEF ShellTyped, ShellRecords, goes

LEMMA LaunchStays ==
    ASSUME ShellInv, Launch
    PROVE  ShellInv'
<1>1. ShellTyped /\ launches \in Nat /\ launches' = launches + 1
      /\ shell' = [Off EXCEPT !.pc = "bootstrap"] /\ UNCHANGED <<daemons, info, window, page, stored>>
  BY DEF ShellInv, ShellTyped, Launch
<1>2. shell' \in ShellRecords /\ shell'.pc = "bootstrap" /\ shell'.stopping = FALSE
      /\ shell'.owns_process = FALSE
  BY <1>1 DEF Off, ShellRecords
<1>3. ShellTyped' /\ OneListens' /\ DaemonFound'
  BY <1>1, <1>2, ShellKeepsDaemons
<1>4. \A d \in DOMAIN daemons : daemons[d].by \in Nat /\ daemons[d].by <= launches
  BY <1>1, DaemonsTyped DEF Daemon, ShellInv, Supervised
<1>5. Ours' = {}
  BY <1>1, <1>4 DEF Ours
<1>6. Supervised'
  BY <1>1, <1>2, <1>4, <1>5 DEF Supervised, at
<1>7. StopsItsOwn'
  BY <1>2 DEF StopsItsOwn, at
<1> QED
  BY <1>3, <1>6, <1>7 DEF ShellInv

LEMMA LoopStays ==
    ASSUME ShellInv, Bootstrap \/ Supervise \/ Own \/ wait_for_daemon \/ ChildEnded \/ Gone
    PROVE  ShellInv'
<1>1. ShellTyped /\ UNCHANGED <<daemons, info, stored, launches>>
  BY DEF ShellInv, Bootstrap, Supervise, Own, wait_for_daemon, ChildEnded, Gone
<1>2. window' \in {0, info, window} /\ page' \in {page, NoPage}
  BY DEF Bootstrap, Supervise, Own, wait_for_daemon, ChildEnded, Gone, open_window
<1>3. ASSUME shell' \in ShellRecords, Supervised', StopsItsOwn' PROVE ShellInv'
  <2>1. launches' \in Nat
    BY <1>1 DEF ShellTyped
  <2> QED BY <1>1, <1>2, <1>3, <2>1, ShellKeepsDaemons DEF ShellInv
<1>4. Ours' = Ours /\ DOMAIN daemons' = DOMAIN daemons /\ \A d \in DOMAIN daemons : daemons'[d] = daemons[d]
  BY <1>1 DEF Ours
<1>5. Supervised /\ StopsItsOwn
  BY DEF ShellInv
<1>6. CASE Bootstrap
  <2>1. PICK pc \in {"done", "loop"} : goes(pc)
    BY <1>6 DEF Bootstrap
  <2>2. /\ shell' \in ShellRecords /\ shell'.pc = pc /\ shell'.owns_process = shell.owns_process
        /\ shell'.stopping = shell.stopping /\ shell'.late = shell.late
    BY <1>1, <2>1, Goes
  <2>3. shell.pc = "bootstrap"
    BY <1>6 DEF Bootstrap, at
  <2>4. Supervised'
    BY <1>1, <1>4, <1>5, <2>2, <2>3 DEF Supervised, at
  <2>5. StopsItsOwn'
    BY <1>1, <1>4, <1>5, <2>2, <2>3 DEF StopsItsOwn, at
  <2> QED BY <1>3, <2>2, <2>4, <2>5
<1>7. CASE Supervise
  <2>1. PICK pc \in {"done", "spawn"} : goes(pc) /\ (shell.stopping => pc = "done")
    BY <1>7 DEF Supervise
  <2>2. /\ shell' \in ShellRecords /\ shell'.pc = pc /\ shell'.owns_process = shell.owns_process
        /\ shell'.stopping = shell.stopping /\ shell'.late = shell.late
    BY <1>1, <2>1, Goes
  <2>3. shell.pc = "loop"
    BY <1>7 DEF Supervise, at
  <2>4. Supervised'
    BY <1>1, <1>4, <1>5, <2>2, <2>3 DEF Supervised, at
  <2>5. StopsItsOwn'
    BY <1>1, <1>4, <1>5, <2>1, <2>2, <2>3 DEF StopsItsOwn, at
  <2> QED BY <1>3, <2>2, <2>4, <2>5
<1>8. CASE Own
  <2>1. shell' = [shell EXCEPT !.pc = "waits", !.owns_process = TRUE] /\ shell.pc = "spawned"
    BY <1>8 DEF Own, at
  <2>2. /\ shell' \in ShellRecords /\ shell'.pc = "waits" /\ shell'.owns_process
        /\ shell'.child = shell.child /\ shell'.pid = shell.pid
        /\ shell'.stopping = shell.stopping /\ shell'.late = shell.late
    BY <1>1, <2>1 DEF ShellTyped, ShellRecords
  <2>4. Supervised'
    BY <1>1, <1>4, <1>5, <2>1, <2>2 DEF Supervised, at
  <2>5. StopsItsOwn'
    BY <1>1, <1>4, <1>5, <2>1, <2>2 DEF StopsItsOwn, at
  <2> QED BY <1>3, <2>2, <2>4, <2>5
<1>9. CASE wait_for_daemon
  <2>1. goes("watches") /\ shell.pc = "waits"
    BY <1>9 DEF wait_for_daemon, at
  <2>2. /\ shell' \in ShellRecords /\ shell'.pc = "watches"
        /\ shell'.child = shell.child /\ shell'.pid = shell.pid /\ shell'.owns_process = shell.owns_process
        /\ shell'.stopping = shell.stopping /\ shell'.late = shell.late
    BY <1>1, <2>1, Goes
  <2>4. Supervised'
    BY <1>1, <1>4, <1>5, <2>1, <2>2 DEF Supervised, at
  <2>5. StopsItsOwn'
    BY <1>1, <1>4, <1>5, <2>1, <2>2 DEF StopsItsOwn, at
  <2> QED BY <1>3, <2>2, <2>4, <2>5
<1>10. CASE ChildEnded
  <2>1. PICK pc \in {"done", "loop"}, n \in {shell.restarts, shell.restarts + 1} :
          shell' = [shell EXCEPT !.pc = pc, !.pid = 0, !.owns_process = FALSE, !.restarts = n]
    BY <1>10 DEF ChildEnded
  <2>2. shell.pc = "watches" /\ daemons[shell.child].pc \in Over
    BY <1>10 DEF ChildEnded, at, over, Over
  <2>3. n \in Nat
    BY <1>1, <2>1 DEF ShellTyped, ShellRecords
  <2>4. /\ shell' \in ShellRecords /\ shell'.pc = pc /\ shell'.owns_process = FALSE
        /\ shell'.stopping = shell.stopping /\ shell'.late = shell.late
    BY <1>1, <2>1, <2>3 DEF ShellTyped, ShellRecords
  <2>5. Supervised'
    BY <1>1, <1>4, <1>5, <2>2, <2>4 DEF Supervised, at
  <2>6. StopsItsOwn'
    BY <1>1, <1>4, <1>5, <2>2, <2>4 DEF StopsItsOwn, at
  <2> QED BY <1>3, <2>4, <2>5, <2>6
<1>11. CASE Gone
  <2>1. shell' = [shell EXCEPT !.pc = "off"] /\ shell.stopping /\ shell.pc # "off"
    BY <1>11 DEF Gone, at
  <2>2. /\ shell' \in ShellRecords /\ shell'.pc = "off"
        /\ shell'.stopping = shell.stopping /\ shell'.late = shell.late
    BY <1>1, <2>1 DEF ShellTyped, ShellRecords
  <2>4. Supervised'
    BY <1>1, <1>4, <1>5, <2>1, <2>2 DEF Supervised, at
  <2>5. StopsItsOwn'
    BY <1>1, <1>4, <1>5, <2>1, <2>2 DEF StopsItsOwn, at
  <2> QED BY <1>3, <2>2, <2>4, <2>5
<1> QED
  BY <1>6, <1>7, <1>8, <1>9, <1>10, <1>11

--------------------------------------------------------------------------------
(* The shell: the start of a daemon, and the exit *)

LEMMA SpawnStays ==
    ASSUME ShellInv, Spawn
    PROVE  ShellInv'
<1>1. ShellTyped /\ UNCHANGED <<info, window, page, stored, launches>> /\ shell.pc = "spawn"
      /\ launches \in Nat /\ launches > 0
  BY DEF ShellInv, Spawn, ShellTyped, Supervised, at
<1>2. Supervised /\ StopsItsOwn
  BY DEF ShellInv
<1>3. CASE goes("done") /\ UNCHANGED daemons
  <2>1. /\ shell' \in ShellRecords /\ shell'.pc = "done" /\ shell'.owns_process = shell.owns_process
        /\ shell'.stopping = shell.stopping /\ shell'.late = shell.late
    BY <1>1, <1>3, Goes
  <2>2. ShellTyped' /\ OneListens' /\ DaemonFound'
    BY <1>1, <1>3, <2>1, ShellKeepsDaemons
  <2>3. Ours' = Ours /\ daemons' = daemons
    BY <1>1, <1>3 DEF Ours
  <2>4. Supervised'
    BY <1>1, <1>2, <2>1, <2>3 DEF Supervised, at
  <2>5. StopsItsOwn'
    BY <1>1, <1>2, <2>1, <2>3 DEF StopsItsOwn, at
  <2> QED BY <2>2, <2>4, <2>5 DEF ShellInv
<1>4. CASE started(launches) /\ shell' = [shell EXCEPT !.pc = "spawned", !.child = Len(daemons) + 1, !.pid = Len(daemons) + 1]
  <2> DEFINE new == Len(daemons) + 1
  <2>1. /\ GoOn /\ DOMAIN daemons' = 1..new
        /\ daemons'[new] = [pc |-> "starting", by |-> launches]
        /\ \A e \in DOMAIN daemons : daemons'[e] = daemons[e]
        /\ Quiet
    BY <1>1, <1>4, Starts
  <2>2. new \in Nat /\ new \in DOMAIN daemons' /\ daemons'[new].by = launches
        /\ \A d \in DOMAIN daemons' : d \in DOMAIN daemons \/ d = new
    BY <1>1, <2>1, DaemonsTyped
  <2>3. shell' = [shell EXCEPT !.pc = "spawned", !.child = new, !.pid = new]
    BY <1>4
  <2> HIDE DEF new
  <2>4. shell' \in ShellRecords /\ shell'.pc = "spawned" /\ shell'.child = new /\ shell'.pid = new
        /\ shell'.owns_process = shell.owns_process
        /\ shell'.stopping = shell.stopping /\ shell'.late = shell.late
    BY <1>1, <2>2, <2>3 DEF ShellTyped, ShellRecords
  <2>5. OneListens' /\ DaemonFound'
    BY <2>1, QuietKeeps
  <2>6. Heard \subseteq Heard'
    BY <1>1, <2>1, Further
  <2>7. ShellTyped'
    <3>1. {info', window', page'.token, stored'} \subseteq {0} \cup Heard'
      BY <1>1, <2>6 DEF ShellTyped
    <3> QED BY <1>1, <2>1, <2>4, <3>1, TokensKept DEF ShellTyped
  <2>8. Ours' \subseteq Ours \cup {new} /\ new \in Ours' /\ \A d \in Ours : daemons'[d] = daemons[d]
    BY <1>1, <2>1, <2>2 DEF Ours
  <2>9. \A d \in DOMAIN daemons' : daemons'[d].by <= launches'
    BY <1>1, <1>2, <2>1, <2>2 DEF Supervised
  <2>10. Supervised'
    <3>1. (\A d \in Ours : daemons[d].pc \in Over) /\ ~shell.owns_process
      BY <1>1, <1>2 DEF Supervised
    <3>2. \A d \in Ours' : d = new \/ daemons'[d].pc \in Over
      BY <2>8, <3>1
    <3>3. ~shell'.owns_process
      BY <2>4, <3>1
    <3> QED BY <1>1, <2>4, <2>8, <2>9, <3>2, <3>3 DEF Supervised, at
  <2>11. StopsItsOwn'
    BY <1>1, <1>2, <2>4 DEF StopsItsOwn, at
  <2> QED BY <2>5, <2>7, <2>10, <2>11 DEF ShellInv
<1> QED
  BY <1>3, <1>4 DEF Spawn

LEMMA ShutdownStays ==
    ASSUME ShellInv, shutdown
    PROVE  ShellInv'
<1>1. ShellTyped /\ UNCHANGED <<info, window, page, stored, launches>> /\ shell.pc # "off"
      /\ ~shell.stopping /\ launches > 0
  BY DEF ShellInv, shutdown, Supervised, at
<1>2. Supervised /\ StopsItsOwn
  BY DEF ShellInv
<1> DEFINE late == shell.pc \in {"spawn", "spawned"}
<1>3. shell' = [shell EXCEPT !.stopping = TRUE, !.late = late]
  BY DEF shutdown
<1>4. late \in BOOLEAN
  OBVIOUS
<1>5. shell' \in ShellRecords /\ shell'.pc = shell.pc /\ shell'.child = shell.child /\ shell'.pid = shell.pid
      /\ shell'.owns_process = shell.owns_process /\ shell'.stopping
  <2> HIDE DEF late
  <2> QED BY <1>1, <1>3, <1>4 DEF ShellTyped, ShellRecords
<1>6. ~shell'.late => shell.pc \notin {"spawn", "spawned"}
  BY <1>1, <1>3 DEF ShellTyped, ShellRecords
<1>7. shell.owns_process => shell.pc \in {"waits", "watches"} /\ shell.pid = shell.child /\ shell.pid \in Ours
  BY <1>1, <1>2 DEF Supervised
<1>8. 0 \notin DOMAIN daemons
  BY <1>1, DaemonsTyped
<1>9. /\ GoOn /\ Quiet /\ DOMAIN daemons' = DOMAIN daemons
      /\ \A d \in DOMAIN daemons : d # shell.pid \/ ~shell.owns_process => daemons'[d] = daemons[d]
      /\ shell.owns_process => daemons'[shell.pid].pc \in Ending
  <2>1. CASE shell.owns_process
    <3>1. shell.pid \in DOMAIN daemons /\ shell.pid # 0
      BY <1>7, <1>8, <2>1 DEF Ours
    <3>2. signalled(shell.pid)
      BY <2>1, <3>1 DEF shutdown
    <3> QED BY <1>1, <2>1, <3>1, <3>2, Signalled
  <2>2. CASE ~shell.owns_process
    <3>1. daemons' = daemons
      BY <2>2 DEF shutdown
    <3> QED BY <1>1, <2>2, <3>1, Unmoved
  <2> QED BY <2>1, <2>2
<1>10. OneListens' /\ DaemonFound'
  BY <1>9, QuietKeeps
<1>11. ShellTyped'
  <2>1. {info', window', page'.token, stored'} \subseteq {0} \cup Heard'
    BY <1>1, <1>9, Further DEF ShellTyped
  <2> QED BY <1>1, <1>5, <1>9, <2>1, TokensKept DEF ShellTyped
<1>12. Ours' = Ours /\ \A d \in Ours : Onward(daemons[d].pc, daemons'[d].pc)
  BY <1>1, <1>9 DEF Ours, GoOn
<1>13. \A d \in Ours : daemons[d].pc \in Over => daemons'[d].pc \in Over
  BY <1>12 DEF Onward
<1>14. Supervised'
  <2>1. \A d \in DOMAIN daemons' : daemons'[d].by <= launches'
    BY <1>1, <1>2, <1>9 DEF Supervised, GoOn
  <2> QED BY <1>1, <1>2, <1>5, <1>12, <1>13, <2>1 DEF Supervised, at
<1>15. StopsItsOwn'
  <2> SUFFICES ASSUME ~shell'.late
               PROVE  /\ shell'.pc \notin {"spawn", "spawned"}
                      /\ \A d \in Ours' : daemons'[d].pc \in Ending
    BY <1>1, <1>5 DEF StopsItsOwn, at
  <2>1. shell.pc \notin {"spawn", "spawned"}
    BY <1>6
  <2>2. shell.pc \in {"bootstrap", "loop", "done", "waits", "watches"}
    BY <1>1, <2>1 DEF ShellTyped, ShellRecords
  <2>3. ASSUME NEW d \in Ours PROVE daemons'[d].pc \in Ending
    <3>1. CASE shell.pc \in {"waits", "watches"}
      <4>1. shell.owns_process /\ (d = shell.pid \/ daemons[d].pc \in Over)
        BY <1>2, <2>3, <3>1 DEF Supervised
      <4> QED BY <1>9, <1>13, <2>3, <4>1 DEF Ending
    <3>2. CASE shell.pc \in {"bootstrap", "loop", "done"}
      <4>1. daemons[d].pc \in Over
        BY <1>2, <2>3, <3>2 DEF Supervised
      <4> QED BY <1>13, <2>3, <4>1 DEF Ending
    <3> QED BY <2>2, <3>1, <3>2
  <2> QED BY <1>5, <1>12, <2>1, <2>3
<1> QED
  BY <1>10, <1>11, <1>14, <1>15 DEF ShellInv

--------------------------------------------------------------------------------
(* The application *)

LEMMA ShellAtFirst ==
    ASSUME ShellInit
    PROVE  ShellInv
<1>1. daemons = <<>> /\ DOMAIN daemons = {} /\ launches = 0 /\ shell = Off
      /\ info = 0 /\ window = 0 /\ stored = 0 /\ page = NoPage
  BY DEF ShellInit
<1>2. shell \in ShellRecords /\ shell.pc = "off" /\ ~shell.owns_process
  BY <1>1 DEF Off, ShellRecords
<1>3. page \in [loaded : BOOLEAN, token : Nat] /\ page.token = 0
  BY <1>1 DEF NoPage
<1>4. ShellTyped
  <2>1. daemons \in Seq([pc : DaemonStates, by : Nat])
    BY <1>1
  <2> QED BY <1>1, <1>2, <1>3, <2>1 DEF ShellTyped
<1>5. OneListens /\ DaemonFound
  BY <1>1 DEF OneListens, DaemonFound
<1>6. Supervised
  BY <1>1, <1>2 DEF Supervised, at, Ours
<1>7. StopsItsOwn
  BY <1>1 DEF StopsItsOwn
<1> QED
  BY <1>4, <1>5, <1>6, <1>7 DEF ShellInv

LEMMA ShellStutters ==
    ASSUME ShellInv, UNCHANGED shellVars
    PROVE  ShellInv'
BY DEF ShellInv, ShellTyped, Heard, OneListens, DaemonFound, Supervised, StopsItsOwn, Ours, at, listens, shellVars

LEMMA ShellStays ==
    ASSUME ShellInv, [ShellNext]_shellVars
    PROVE  ShellInv'
<1>1. CASE UNCHANGED shellVars
  BY <1>1, ShellStutters
<1>2. CASE ShellNext
  BY <1>2, DaemonStays, LaunchStays, LoopStays, SpawnStays, ShutdownStays, PageStays DEF ShellNext
<1> QED
  BY <1>1, <1>2

\* shutdown() of lib.rs: an application that has quit has stopped the daemon it started,
\* unless the exit fell between the look at `stopping` and the store of `owns_process`.
THEOREM NoDaemonIsOrphaned == ShellSpec => []OrphansOnlyWhileSpawning
<1>1. ShellInv => OrphansOnlyWhileSpawning
  <2> SUFFICES ASSUME ShellInv, at("off"), launches > 0, ~shell.late, NEW d \in DOMAIN daemons,
                      daemons[d].by = launches
               PROVE  ~listens(d) \/ daemons[d].pc = "stopping"
    BY DEF OrphansOnlyWhileSpawning
  <2>1. daemons[d].pc \in Ending
    BY DEF ShellInv, StopsItsOwn, Ours
  <2> QED BY <2>1 DEF Ending, Over, listens
<1> QED
  BY <1>1, ShellAtFirst, ShellStays, PTL DEF ShellSpec

\* writeDaemonInfo and clearDaemonInfo: daemon.json names the daemon that is ready, unless
\* an older one has removed the file since.
THEOREM DaemonIsFound == ShellSpec => []DaemonFound
<1>1. ShellInv => DaemonFound
  BY DEF ShellInv
<1> QED
  BY <1>1, ShellAtFirst, ShellStays, PTL DEF ShellSpec

\* resolveInitialEntries: the entry that comes between a window and its daemon is of a
\* daemon that has given up the port.
THEOREM OldTokensAreOfTheEnded == ShellSpec => []StaleOnlyOfEnded
<1>1. ShellInv => StaleOnlyOfEnded
  <2> SUFFICES ASSUME ShellInv, window # 0, listens(window), page.token \notin {0, window}
               PROVE  daemons[page.token].pc \in {"draining", "cleared", "exited"}
    BY DEF StaleOnlyOfEnded
  <2>1. page.token \in Heard /\ window \in DOMAIN daemons /\ page.token \in DOMAIN daemons
    BY DEF ShellInv, ShellTyped, Heard
  <2>2. ~listens(page.token)
    BY <2>1 DEF ShellInv, OneListens
  <2>3. daemons[page.token].pc \in DaemonStates /\ daemons[page.token].pc # "starting"
    BY <2>1, DaemonsTyped DEF ShellInv, Daemon, Heard
  <2> QED BY <2>2, <2>3 DEF listens, DaemonStates
<1> QED
  BY <1>1, ShellAtFirst, ShellStays, PTL DEF ShellSpec

--------------------------------------------------------------------------------
(* The snapshots of runs *)

\* Documents refer to definitions there may be, a rubric to nothing.
DefinitionsAssumption ==
    /\ Root \in Names
    /\ \A n \in Names : KindOf[n] \in {"workflow", "gate-set", "profile", "experiment", "rubric"}
    /\ \A n \in Names : \A d \in Documents[n] :
         /\ Refs[d] \in Seq([name : Names, version : Nat, rubric : BOOLEAN])
         /\ KindOf[n] = "rubric" => Refs[d] = <<>>

Pin == [name : Names, version : Nat \ {0}]

VersionsTyped ==
    /\ DOMAIN versions = Names
    /\ \A n \in Names : versions[n] \in Seq(Documents[n])

Resolution == [pc : {"idle", "next", "lifecycle", "pinned", "rejected"},
               todo : Seq(Ref), found : Nat, collected : SUBSET Pin]
ResolutionTyped == resolution \in [Runs -> Resolution]

\* The document of b names version v of n, or with 0 no version of it.
named(b, n, v) == \E ref \in lookedUp(b) : ref.name = n /\ ref.version = v

\* What is collected exists, once for a name, and a workflow of it is valid.
Collection(S) ==
    /\ \A c \in S : c.version \in 1..latest(c.name)
    /\ \A c, d \in S : c.name = d.name => c = d
    /\ \A c \in S : KindOf[c.name] = "workflow" => documentOf(c) \in Valid

\* What is still to be collected, and what has been, was named by what has been,
Origins(S, todo) ==
    /\ \A i \in DOMAIN todo : todo[i].name = Root \/ \E b \in S : named(b, todo[i].name, todo[i].version)
    /\ \A c \in S : c.name = Root \/ \E b \in S : \E v \in {0, c.version} : named(b, c.name, v)

\* and what has been collected names nothing that is not collected or is not to be,
Covered(S, todo, c) ==
    \A ref \in lookedUp(c) :
        \/ inSnapshot(S, ref.name)
        \/ \E i \in DOMAIN todo : todo[i].name = ref.name /\ todo[i].version = ref.version
Followed(S, todo) ==
    \A c \in S : KindOf[c.name] \notin {"gate-set", "experiment"} => Covered(S, todo, c)

\* nor does an experiment a rubric is left to, unless it is still to be looked into.
RubricsFollowed(S, todo) ==
    \A c \in S : KindOf[c.name] \notin {"gate-set", "experiment"} =>
        \A ref \in lookedUp(c) : KindOf[ref.name] = "experiment" /\ ref.rubric =>
            \/ \E i \in DOMAIN todo : todo[i].name = ref.name /\ todo[i].rubric
            \/ /\ inSnapshot(S, ref.name)
               /\ \A e \in S : e.name = ref.name => Covered(S, todo, e)

Closure(S, todo) ==
    Collection(S) /\ Origins(S, todo) /\ Followed(S, todo) /\ RubricsFollowed(S, todo)

\* The latest version is in hand while its lifecycle is asked for.
InHand(r) ==
    LET now == resolution[r] IN
    /\ now.pc = "lifecycle" =>
         /\ now.todo # <<>> /\ Head(now.todo).version = 0
         /\ now.found \in 1..latest(Head(now.todo).name)
         /\ KindOf[Head(now.todo).name] = "experiment" => ~inSnapshot(now.collected, Head(now.todo).name)
    /\ now.pc = "pinned" => now.todo = <<>>

Resolved(r) == Closure(resolution[r].collected, resolution[r].todo) /\ InHand(r)

SnapshotInv == VersionsTyped /\ ResolutionTyped /\ \A r \in Runs : Resolved(r)

\* The references of a document are those of its text, at any depth.
LEMMA RefsNamed ==
    ASSUME DefinitionsAssumption, NEW n \in Names, NEW d \in Documents[n], NEW k \in Nat
    PROVE  /\ refs(d, k) \in Seq(Ref)
           /\ DOMAIN refs(d, k) = DOMAIN refs(d, 0)
           /\ \A i \in DOMAIN refs(d, k) : /\ refs(d, k)[i].name = refs(d, 0)[i].name
                                           /\ refs(d, k)[i].version = refs(d, 0)[i].version
                                           /\ refs(d, k)[i].rubric = refs(d, 0)[i].rubric
<1> DEFINE Text == [name : Names, version : Nat, rubric : BOOLEAN]
<1>1. Refs[d] \in Seq(Text)
  BY DEF DefinitionsAssumption
<1> HIDE DEF Text
<1>2. PICK size \in Nat : DOMAIN Refs[d] = 1..size
  BY <1>1
<1>3. \A i \in DOMAIN Refs[d] : Refs[d][i] \in Text
  BY <1>1
<1>4. \A i \in 1..size : refs(d, k)[i] = [name |-> Refs[d][i].name, version |-> Refs[d][i].version,
                                          rubric |-> Refs[d][i].rubric, depth |-> k]
  BY <1>2 DEF refs
<1>5. ASSUME NEW i \in 1..size PROVE refs(d, k)[i] \in Ref
  <2>1. Refs[d][i] \in Text
    BY <1>2, <1>3
  <2>2. ASSUME NEW text \in Text
        PROVE  [name |-> text.name, version |-> text.version, rubric |-> text.rubric, depth |-> k] \in Ref
    BY DEF Text, Ref
  <2>3. refs(d, k)[i] = [name |-> Refs[d][i].name, version |-> Refs[d][i].version,
                         rubric |-> Refs[d][i].rubric, depth |-> k]
    BY <1>4
  <2> HIDE DEF Text
  <2> QED
    BY <2>1, <2>2, <2>3
<1>6. DOMAIN refs(d, k) = 1..size /\ DOMAIN refs(d, 0) = 1..size
  BY <1>2 DEF refs
<1>7. \A i \in 1..size : /\ refs(d, 0)[i].name = Refs[d][i].name
                         /\ refs(d, 0)[i].version = Refs[d][i].version
                         /\ refs(d, 0)[i].rubric = Refs[d][i].rubric
  BY <1>2 DEF refs
<1>8. refs(d, k) \in Seq(Ref)
  <2>1. refs(d, k) = [i \in 1..size |-> refs(d, k)[i]]
    BY <1>6 DEF refs
  <2> QED
    BY <2>1, <1>5
<1> QED
  BY <1>4, <1>6, <1>7, <1>8

LEMMA Documented ==
    ASSUME VersionsTyped, NEW c \in Pin, c.version \in 1..latest(c.name)
    PROVE  documentOf(c) \in Documents[c.name] /\ c.name \in Names
<1>1. c.name \in Names
  BY DEF Pin
<1>2. versions[c.name] \in Seq(Documents[c.name])
  BY <1>1 DEF VersionsTyped
<1> QED
  BY <1>1, <1>2 DEF documentOf, latest

\* What is followed is collected in turn,
follow(ref) == KindOf[ref.name] \notin {"gate-set", "experiment"} \/ (KindOf[ref.name] = "experiment" /\ ref.rubric)

\* and is to do when it is in the list.
listed(more, ref) ==
    \E i \in DOMAIN more :
        more[i].name = ref.name /\ more[i].version = ref.version /\ more[i].rubric = ref.rubric

\* What follows from a document is what it names, and if it is followed, all of that.
LEMMA Following ==
    ASSUME DefinitionsAssumption, VersionsTyped, NEW c \in Pin, c.version \in 1..latest(c.name),
           NEW ref \in Ref, ref.name = c.name
    PROVE  LET more == follows(ref, documentOf(c)) IN
           /\ more \in Seq(Ref)
           /\ \A i \in DOMAIN more : named(c, more[i].name, more[i].version)
           /\ follow(ref) => \A other \in lookedUp(c) : listed(more, other)
<1> DEFINE d == documentOf(c)
           more == follows(ref, d)
<1> SUFFICES /\ more \in Seq(Ref)
             /\ \A i \in DOMAIN more : named(c, more[i].name, more[i].version)
             /\ follow(ref) => \A other \in lookedUp(c) : listed(more, other)
  OBVIOUS
<1>1. d \in Documents[c.name] /\ c.name \in Names
  BY Documented
<1>2. ref.depth + 1 \in Nat /\ 0 \in Nat
  BY DEF Ref
<1>3. ASSUME NEW k \in Nat, KindOf[c.name] # "gate-set"
      PROVE  /\ refs(d, k) \in Seq(Ref)
             /\ \A i \in DOMAIN refs(d, k) : named(c, refs(d, k)[i].name, refs(d, k)[i].version)
             /\ \A other \in lookedUp(c) : listed(refs(d, k), other)
  <2>1. lookedUp(c) = {refs(d, 0)[i] : i \in DOMAIN refs(d, 0)}
    BY <1>3 DEF lookedUp, Range
  <2>2. /\ refs(d, k) \in Seq(Ref)
        /\ DOMAIN refs(d, k) = DOMAIN refs(d, 0)
        /\ \A i \in DOMAIN refs(d, k) : /\ refs(d, k)[i].name = refs(d, 0)[i].name
                                        /\ refs(d, k)[i].version = refs(d, 0)[i].version
                                        /\ refs(d, k)[i].rubric = refs(d, 0)[i].rubric
    BY <1>1, RefsNamed
  <2> HIDE DEF d
  <2> QED
    BY <2>1, <2>2 DEF named, listed
<1>4. \/ more = refs(d, 0) /\ KindOf[c.name] # "gate-set"
      \/ more = refs(d, ref.depth + 1) /\ KindOf[c.name] # "gate-set"
      \/ more = <<>> /\ (~follow(ref) \/ KindOf[c.name] = "rubric")
  BY <1>1 DEF follow, follows, DefinitionsAssumption
<1>5. CASE more = <<>> /\ (~follow(ref) \/ KindOf[c.name] = "rubric")
  <2>1. KindOf[c.name] = "rubric" => lookedUp(c) = {}
    <3>1. KindOf[c.name] = "rubric" => Refs[d] = <<>>
      BY <1>1 DEF DefinitionsAssumption
    <3>2. KindOf[c.name] = "rubric" => DOMAIN refs(d, 0) = {}
      BY <3>1 DEF refs
    <3> QED
      BY <3>2 DEF lookedUp, Range
  <2> HIDE DEF more
  <2>2. more \in Seq(Ref) /\ DOMAIN more = {}
    BY <1>5
  <2> QED
    BY <2>1, <2>2, <1>5 DEF more
<1> HIDE DEF more, d
<1>6. CASE more # <<>> \/ ~(~follow(ref) \/ KindOf[c.name] = "rubric")
  <2>1. PICK k \in Nat : more = refs(d, k) /\ KindOf[c.name] # "gate-set"
    BY <1>2, <1>4, <1>6
  <2> QED
    BY <2>1, <1>3
<1> QED
  BY <1>5, <1>6

\* The first of what is to be collected, and what comes after it.
LEMMA FirstAndRest ==
    ASSUME NEW todo \in Seq(Ref), todo # <<>>
    PROVE  /\ Head(todo) \in Ref /\ Tail(todo) \in Seq(Ref) /\ 1 \in DOMAIN todo /\ Head(todo) = todo[1]
           /\ \A i \in DOMAIN todo : i = 1 \/ (i - 1 \in DOMAIN Tail(todo) /\ todo[i] = Tail(todo)[i - 1])
           /\ \A i \in DOMAIN Tail(todo) : i + 1 \in DOMAIN todo /\ Tail(todo)[i] = todo[i + 1]
OBVIOUS

LEMMA Joined ==
    ASSUME NEW more \in Seq(Ref), NEW rest \in Seq(Ref)
    PROVE  /\ more \o rest \in Seq(Ref)
           /\ \A i \in DOMAIN (more \o rest) :
                \/ i \in DOMAIN more /\ (more \o rest)[i] = more[i]
                \/ \E j \in DOMAIN rest : (more \o rest)[i] = rest[j]
           /\ \A i \in DOMAIN more : i \in DOMAIN (more \o rest) /\ (more \o rest)[i] = more[i]
           /\ \A j \in DOMAIN rest : \E i \in DOMAIN (more \o rest) : (more \o rest)[i] = rest[j]
<1>1. /\ more \o rest \in Seq(Ref)
      /\ Len(more \o rest) = Len(more) + Len(rest)
      /\ \A i \in 1..(Len(more) + Len(rest)) :
            (more \o rest)[i] = IF i <= Len(more) THEN more[i] ELSE rest[i - Len(more)]
  OBVIOUS
<1>2. /\ DOMAIN more = 1..Len(more) /\ DOMAIN rest = 1..Len(rest)
      /\ DOMAIN (more \o rest) = 1..(Len(more) + Len(rest))
      /\ Len(more) \in Nat /\ Len(rest) \in Nat
  BY <1>1
<1> DEFINE both == more \o rest
           m == Len(more)
           n == Len(rest)
<1>3. /\ \A i \in 1..(m + n) : both[i] = IF i <= m THEN more[i] ELSE rest[i - m]
      /\ DOMAIN more = 1..m /\ DOMAIN rest = 1..n /\ DOMAIN both = 1..(m + n)
      /\ m \in Nat /\ n \in Nat
  BY <1>1, <1>2
<1> HIDE DEF both, m, n
<1>4. ASSUME NEW i \in DOMAIN both
      PROVE  \/ i \in DOMAIN more /\ both[i] = more[i]
             \/ \E j \in DOMAIN rest : both[i] = rest[j]
  <2>1. CASE i <= m
    BY <2>1, <1>3
  <2>2. CASE ~(i <= m)
    <3>1. i - m \in 1..n /\ both[i] = rest[i - m]
      BY <2>2, <1>3
    <3> QED
      BY <3>1, <1>3
  <2> QED
    BY <2>1, <2>2
<1>5. \A i \in DOMAIN more : i \in DOMAIN both /\ both[i] = more[i]
  BY <1>3
<1>6. ASSUME NEW j \in DOMAIN rest PROVE \E i \in DOMAIN both : both[i] = rest[j]
  <2>1. m + j \in 1..(m + n) /\ ~(m + j <= m) /\ (m + j) - m = j
    BY <1>3
  <2> QED
    BY <2>1, <1>3
<1> QED
  BY <1>1, <1>4, <1>5, <1>6 DEF both

\* A reference to what has been collected gives way to what a rubric is looked up in.
LEMMA Replaced ==
    ASSUME NEW S \in SUBSET Pin, NEW todo \in Seq(Ref), todo # <<>>, Closure(S, todo),
           inSnapshot(S, Head(todo).name), NEW more \in Seq(Ref),
           \A i \in DOMAIN more : \E b \in S : named(b, more[i].name, more[i].version),
           KindOf[Head(todo).name] = "experiment" /\ Head(todo).rubric =>
             \A e \in S : e.name = Head(todo).name => \A ref \in lookedUp(e) : listed(more, ref)
    PROVE  more \o Tail(todo) \in Seq(Ref) /\ Closure(S, more \o Tail(todo))
<1> DEFINE rest == Tail(todo)
           all == more \o rest
<1>1. /\ rest \in Seq(Ref) /\ 1 \in DOMAIN todo /\ Head(todo) = todo[1]
      /\ \A i \in DOMAIN todo : i = 1 \/ (i - 1 \in DOMAIN rest /\ todo[i] = rest[i - 1])
      /\ \A i \in DOMAIN rest : i + 1 \in DOMAIN todo /\ rest[i] = todo[i + 1]
  BY FirstAndRest
<1> HIDE DEF rest
<1>2. /\ all \in Seq(Ref)
      /\ \A i \in DOMAIN all : \/ i \in DOMAIN more /\ all[i] = more[i]
                               \/ \E j \in DOMAIN rest : all[i] = rest[j]
      /\ \A i \in DOMAIN more : i \in DOMAIN all /\ all[i] = more[i]
      /\ \A j \in DOMAIN rest : \E i \in DOMAIN all : all[i] = rest[j]
  BY <1>1, Joined
<1> HIDE DEF all
<1>3. \A i \in DOMAIN todo : i = 1 \/ \E k \in DOMAIN all : all[k] = todo[i]
  BY <1>1, <1>2
<1>4. Origins(S, all)
  <2>1. \A i \in DOMAIN rest : \E k \in DOMAIN todo : rest[i] = todo[k]
    BY <1>1
  <2>2. ASSUME NEW i \in DOMAIN all
        PROVE  all[i].name = Root \/ \E b \in S : named(b, all[i].name, all[i].version)
    <3>1. CASE i \in DOMAIN more /\ all[i] = more[i]
      BY <3>1
    <3>2. CASE \E j \in DOMAIN rest : all[i] = rest[j]
      BY <3>2, <2>1 DEF Closure, Origins
    <3> QED BY <3>1, <3>2, <1>2
  <2> QED BY <2>2 DEF Closure, Origins
<1>5. ASSUME NEW c \in S, Covered(S, todo, c) PROVE Covered(S, all, c)
  <2> SUFFICES ASSUME NEW ref \in lookedUp(c), ~inSnapshot(S, ref.name)
               PROVE  \E i \in DOMAIN all : all[i].name = ref.name /\ all[i].version = ref.version
    BY DEF Covered
  <2>1. PICK i \in DOMAIN todo : todo[i].name = ref.name /\ todo[i].version = ref.version
    BY <1>5 DEF Covered
  <2>2. i # 1
    BY <2>1, <1>1
  <2> QED
    BY <2>1, <2>2, <1>3
<1>6. Followed(S, all)
  BY <1>5 DEF Closure, Followed
<1>7. RubricsFollowed(S, all)
  <2> SUFFICES ASSUME NEW c \in S, KindOf[c.name] \notin {"gate-set", "experiment"},
                      NEW ref \in lookedUp(c), KindOf[ref.name] = "experiment" /\ ref.rubric
               PROVE  \/ \E i \in DOMAIN all : all[i].name = ref.name /\ all[i].rubric
                      \/ /\ inSnapshot(S, ref.name)
                         /\ \A e \in S : e.name = ref.name => Covered(S, all, e)
    BY DEF RubricsFollowed
  <2>1. CASE \E i \in DOMAIN todo : todo[i].name = ref.name /\ todo[i].rubric
    <3>1. PICK i \in DOMAIN todo : todo[i].name = ref.name /\ todo[i].rubric
      BY <2>1
    <3>2. CASE i = 1
      <4>1. \A e \in S : e.name = ref.name => \A other \in lookedUp(e) : listed(more, other)
        BY <3>1, <3>2, <1>1
      <4>2. \A e \in S : e.name = ref.name => Covered(S, all, e)
        BY <4>1, <1>2 DEF listed, Covered
      <4> QED BY <4>2, <3>1, <3>2, <1>1
    <3>3. CASE i # 1
      BY <3>1, <3>3, <1>3
    <3> QED BY <3>2, <3>3
  <2>2. CASE inSnapshot(S, ref.name) /\ \A e \in S : e.name = ref.name => Covered(S, todo, e)
    BY <2>2, <1>5
  <2> QED
    BY <2>1, <2>2 DEF Closure, RubricsFollowed
<1> QED
  BY <1>2, <1>4, <1>6, <1>7 DEF Closure, all, rest

\* What is named first and not collected yet is, and what its document names comes next.
LEMMA Added ==
    ASSUME DefinitionsAssumption, VersionsTyped,
           NEW S \in SUBSET Pin, NEW todo \in Seq(Ref), todo # <<>>, Closure(S, todo),
           ~inSnapshot(S, Head(todo).name),
           NEW version \in 1..latest(Head(todo).name), Head(todo).version \in {0, version},
           NEW c, c = [name |-> Head(todo).name, version |-> version],
           KindOf[c.name] = "workflow" => documentOf(c) \in Valid
    PROVE  LET more == follows(Head(todo), documentOf(c)) IN
           /\ S \cup {c} \in SUBSET Pin
           /\ more \o Tail(todo) \in Seq(Ref)
           /\ Closure(S \cup {c}, more \o Tail(todo))
<1> DEFINE more == follows(Head(todo), documentOf(c))
           rest == Tail(todo)
           all == more \o rest
           T == S \cup {c}
<1> SUFFICES T \in SUBSET Pin /\ all \in Seq(Ref) /\ Closure(T, all)
  OBVIOUS
<1>1. /\ Head(todo) \in Ref /\ rest \in Seq(Ref) /\ 1 \in DOMAIN todo /\ Head(todo) = todo[1]
      /\ \A i \in DOMAIN todo : i = 1 \/ (i - 1 \in DOMAIN rest /\ todo[i] = rest[i - 1])
      /\ \A i \in DOMAIN rest : i + 1 \in DOMAIN todo /\ rest[i] = todo[i + 1]
  BY FirstAndRest
<1>2. Head(todo).name \in Names
  BY <1>1 DEF Ref
<1>3. latest(Head(todo).name) \in Nat
  BY <1>2 DEF latest, VersionsTyped
<1>4. c \in Pin /\ c.name = Head(todo).name /\ c.version = version
  BY <1>2, <1>3 DEF Pin
<1>5. /\ more \in Seq(Ref)
      /\ \A i \in DOMAIN more : named(c, more[i].name, more[i].version)
      /\ follow(Head(todo)) => \A other \in lookedUp(c) : listed(more, other)
  <2> HIDE DEF more
  <2>1. c.version \in 1..latest(c.name)
    BY <1>4
  <2> QED
    BY <2>1, <1>1, <1>4, Following DEF more
<1> HIDE DEF more, rest
<1>6. /\ all \in Seq(Ref)
      /\ \A i \in DOMAIN all : \/ i \in DOMAIN more /\ all[i] = more[i]
                               \/ \E j \in DOMAIN rest : all[i] = rest[j]
      /\ \A i \in DOMAIN more : i \in DOMAIN all /\ all[i] = more[i]
      /\ \A j \in DOMAIN rest : \E i \in DOMAIN all : all[i] = rest[j]
  BY <1>1, <1>5, Joined
<1> HIDE DEF all
<1>7. T \in SUBSET Pin
  BY <1>4
<1>8. Collection(T)
  <2>1. \A b \in S : b.name # c.name
    BY <1>4 DEF inSnapshot
  <2>2. Collection(S)
    BY DEF Closure
  <2>3. c.version \in 1..latest(c.name)
    BY <1>4
  <2> QED
    BY <2>1, <2>2, <2>3 DEF Collection
<1>9. Origins(T, all)
  <2>1. Origins(S, todo)
    BY DEF Closure
  <2>2. ASSUME NEW i \in DOMAIN all
        PROVE  all[i].name = Root \/ \E b \in T : named(b, all[i].name, all[i].version)
    <3>1. CASE i \in DOMAIN more /\ all[i] = more[i]
      BY <3>1, <1>5
    <3>2. CASE \E j \in DOMAIN rest : all[i] = rest[j]
      <4>1. PICK j \in DOMAIN rest : all[i] = rest[j]
        BY <3>2
      <4>2. j + 1 \in DOMAIN todo /\ all[i] = todo[j + 1]
        BY <4>1, <1>1
      <4> QED
        BY <4>2, <2>1 DEF Origins
    <3> QED
      BY <3>1, <3>2, <1>6
  <2>3. c.name = Root \/ \E b \in S : \E v \in {0, c.version} : named(b, c.name, v)
    <3>1. todo[1].name = Root \/ \E b \in S : named(b, todo[1].name, todo[1].version)
      BY <1>1, <2>1 DEF Origins
    <3>2. todo[1].name = c.name /\ todo[1].version \in {0, c.version}
      BY <1>1, <1>4
    <3> QED
      BY <3>1, <3>2
  <2> QED
    BY <2>1, <2>2, <2>3 DEF Origins
<1>10. \A i \in DOMAIN todo : i = 1 \/ \E k \in DOMAIN all : all[k] = todo[i]
  BY <1>1, <1>6
<1>11. ASSUME NEW b \in S, Covered(S, todo, b) PROVE Covered(T, all, b)
  <2> SUFFICES ASSUME NEW ref \in lookedUp(b), ~inSnapshot(T, ref.name)
               PROVE  \E i \in DOMAIN all : all[i].name = ref.name /\ all[i].version = ref.version
    BY DEF Covered
  <2>1. ~inSnapshot(S, ref.name) /\ ref.name # c.name
    BY DEF inSnapshot
  <2>2. PICK i \in DOMAIN todo : todo[i].name = ref.name /\ todo[i].version = ref.version
    BY <2>1, <1>11 DEF Covered
  <2>3. i # 1
    BY <2>1, <2>2, <1>1, <1>4
  <2> QED
    BY <2>2, <2>3, <1>10
<1>12. follow(Head(todo)) => Covered(T, all, c)
  <2>1. \A ref \in lookedUp(c) : listed(more, ref) => listed(all, ref)
    BY <1>6 DEF listed
  <2> QED
    BY <1>5, <2>1 DEF listed, Covered
<1>13. Followed(T, all)
  <2>1. KindOf[c.name] \notin {"gate-set", "experiment"} => Covered(T, all, c)
    BY <1>4, <1>12 DEF follow
  <2> QED
    BY <2>1, <1>11 DEF Closure, Followed
<1>14. RubricsFollowed(T, all)
  <2> SUFFICES ASSUME NEW b \in T, KindOf[b.name] \notin {"gate-set", "experiment"},
                      NEW ref \in lookedUp(b), KindOf[ref.name] = "experiment" /\ ref.rubric
               PROVE  \/ \E i \in DOMAIN all : all[i].name = ref.name /\ all[i].rubric
                      \/ /\ inSnapshot(T, ref.name)
                         /\ \A e \in T : e.name = ref.name => Covered(T, all, e)
    BY DEF RubricsFollowed
  <2>1. CASE b = c
    <3>1. listed(more, ref)
      BY <2>1, <1>4, <1>5 DEF follow
    <3> QED BY <3>1, <1>6 DEF listed
  <2>2. CASE b \in S /\ \E i \in DOMAIN todo : todo[i].name = ref.name /\ todo[i].rubric
    <3>1. PICK i \in DOMAIN todo : todo[i].name = ref.name /\ todo[i].rubric
      BY <2>2
    <3>2. CASE i = 1
      <4>1. ref.name = c.name /\ follow(Head(todo))
        BY <3>1, <3>2, <1>1, <1>4 DEF follow
      <4>2. \A e \in T : e.name = ref.name => e = c
        BY <4>1, <1>4 DEF inSnapshot
      <4> QED BY <4>1, <4>2, <1>12 DEF inSnapshot
    <3>3. CASE i # 1
      BY <3>1, <3>3, <1>10
    <3> QED BY <3>2, <3>3
  <2>3. CASE /\ b \in S /\ inSnapshot(S, ref.name)
             /\ \A e \in S : e.name = ref.name => Covered(S, todo, e)
    <3>1. ref.name # c.name /\ inSnapshot(T, ref.name)
      BY <2>3, <1>4 DEF inSnapshot
    <3> QED BY <2>3, <3>1, <1>11
  <2> QED
    BY <2>1, <2>2, <2>3 DEF Closure, RubricsFollowed
<1> QED
  BY <1>6, <1>7, <1>8, <1>9, <1>13, <1>14 DEF Closure

\* What is closed stays closed while no version is added.
LEMMA Carried ==
    ASSUME UNCHANGED versions, NEW q \in Runs, NEW S, NEW todo, Closure(S, todo),
           resolution'[q].collected = S, resolution'[q].todo = todo
    PROVE  Closure(resolution[q].collected, resolution[q].todo)'
<1>1. /\ \A n : latest(n)' = latest(n)
      /\ \A c : documentOf(c)' = documentOf(c)
      /\ \A c : lookedUp(c)' = lookedUp(c)
  BY DEF latest, documentOf, lookedUp
<1>2. \A b, n, v : named(b, n, v)' <=> named(b, n, v)
  BY <1>1 DEF named
<1>3. Collection(resolution[q].collected)'
  BY <1>1 DEF Closure, Collection
<1>4. Origins(resolution[q].collected, resolution[q].todo)'
  BY <1>2 DEF Closure, Origins
<1>5. \A c : Covered(resolution[q].collected, resolution[q].todo, c)' <=> Covered(S, todo, c)
  BY <1>1 DEF Covered, inSnapshot
<1>6. Followed(resolution[q].collected, resolution[q].todo)'
  BY <1>5 DEF Closure, Followed
<1>7. RubricsFollowed(resolution[q].collected, resolution[q].todo)'
  BY <1>1, <1>5 DEF Closure, RubricsFollowed, inSnapshot
<1> QED
  BY <1>3, <1>4, <1>6, <1>7 DEF Closure

\* What a run goes on with, and the others keep theirs.
LEMMA GoesOn ==
    ASSUME SnapshotInv, UNCHANGED versions, NEW r \in Runs,
           NEW pc \in {"next", "pinned", "rejected"}, NEW todo \in Seq(Ref), NEW S \in SUBSET Pin,
           Closure(S, todo), pc = "pinned" => todo = <<>>, goesOn(r, pc, todo, S)
    PROVE  SnapshotInv'
<1> DEFINE entry == [pc |-> pc, todo |-> todo, found |-> 0, collected |-> S]
<1>1. entry \in Resolution
  BY DEF Resolution
<1>2. entry.pc = pc /\ entry.todo = todo /\ entry.collected = S
  OBVIOUS
<1>3. resolution' = [resolution EXCEPT ![r] = entry]
  BY DEF goesOn
<1> HIDE DEF entry
<1>4. /\ ResolutionTyped'
      /\ resolution'[r] = entry
      /\ \A q \in Runs \ {r} : resolution'[q] = resolution[q]
  BY <1>1, <1>3 DEF SnapshotInv, ResolutionTyped
<1>5. VersionsTyped'
  BY DEF SnapshotInv, VersionsTyped
<1>6. \A n : latest(n)' = latest(n)
  BY DEF latest
<1>7. ASSUME NEW q \in Runs PROVE Resolved(q)'
  <2>1. CASE q = r
    <3>1. Closure(resolution[q].collected, resolution[q].todo)'
      BY <2>1, <1>2, <1>4, Carried
    <3>2. InHand(q)'
      BY <2>1, <1>2, <1>4 DEF InHand
    <3> QED
      BY <3>1, <3>2 DEF Resolved
  <2>2. CASE q # r
    <3>1. Resolved(q) /\ resolution'[q] = resolution[q]
      BY <2>2, <1>4 DEF SnapshotInv
    <3>2. Closure(resolution[q].collected, resolution[q].todo)'
      BY <3>1, Carried DEF Resolved
    <3>3. InHand(q)'
      BY <3>1, <1>6 DEF Resolved, InHand, inSnapshot
    <3> QED
      BY <3>2, <3>3 DEF Resolved
  <2> QED
    BY <2>1, <2>2
<1> QED
  BY <1>4, <1>5, <1>7 DEF SnapshotInv

LEMMA NothingCollected == Closure({}, <<>>)
BY DEF Closure, Collection, Origins, Followed, RubricsFollowed

\* A run's own step leaves all snapshots closed.
LEMMA ResolutionKept ==
    ASSUME DefinitionsAssumption, SnapshotInv, NEW r \in Runs, resolve(r)
    PROVE  SnapshotInv'
<1> DEFINE now == resolution[r]
           ref == Head(now.todo)
<1>1. /\ now \in Resolution
      /\ now.todo \in Seq(Ref) /\ now.collected \in SUBSET Pin
      /\ Closure(now.collected, now.todo) /\ InHand(r)
  BY DEF SnapshotInv, ResolutionTyped, Resolution, Resolved
<1>2. UNCHANGED versions
  BY DEF resolve, Begin, TooDeep, Known, Get, GetLifecycle, Pinned
<1>3. ASSUME rejected(r) PROVE SnapshotInv'
  BY <1>2, <1>3, NothingCollected, GoesOn, <<>> \in Seq(Ref), {} \in SUBSET Pin DEF rejected
<1>4. CASE Begin(r)
  <2>1. PICK v \in 0..latest(Root) :
          goesOn(r, "next", <<[name |-> Root, version |-> v, rubric |-> TRUE, depth |-> 0]>>, {})
    BY <1>4 DEF Begin
  <2> DEFINE root == [name |-> Root, version |-> v, rubric |-> TRUE, depth |-> 0]
  <2>2. root \in Ref /\ root.name = Root
    <3>1. latest(Root) \in Nat
      BY DEF SnapshotInv, VersionsTyped, DefinitionsAssumption, latest
    <3> QED
      BY <3>1 DEF Ref, DefinitionsAssumption
  <2> HIDE DEF root
  <2>3. <<root>> \in Seq(Ref) /\ \A i \in DOMAIN <<root>> : <<root>>[i].name = Root
    BY <2>2
  <2>4. Closure({}, <<root>>)
    BY <2>3 DEF Closure, Collection, Origins, Followed, RubricsFollowed
  <2> QED
    BY <1>2, <2>1, <2>3, <2>4, GoesOn, {} \in SUBSET Pin, "next" # "pinned",
       "next" \in {"next", "pinned", "rejected"} DEF root
<1>5. CASE TooDeep(r)
  BY <1>3, <1>5 DEF TooDeep
<1>6. CASE Known(r)
  <2> DEFINE c == CHOOSE c \in now.collected : c.name = ref.name
             more == IF KindOf[ref.name] = "experiment" THEN follows(ref, documentOf(c)) ELSE <<>>
  <2>1. /\ now.pc = "next" /\ now.todo # <<>>
        /\ inSnapshot(now.collected, ref.name)
        /\ goesOn(r, "next", more \o Tail(now.todo), now.collected)
    BY <1>6 DEF Known
  <2>2. c \in now.collected /\ c.name = ref.name
    BY <2>1 DEF inSnapshot
  <2>3. Tail(now.todo) \in Seq(Ref) /\ ref \in Ref
    BY <1>1, <2>1, FirstAndRest
  <2>4. c \in Pin /\ c.version \in 1..latest(c.name)
    BY <1>1, <2>2 DEF Closure, Collection
  <2>5. /\ more \in Seq(Ref) /\ \A i \in DOMAIN more : named(c, more[i].name, more[i].version)
        /\ KindOf[ref.name] = "experiment" /\ ref.rubric => \A other \in lookedUp(c) : listed(more, other)
    <3> HIDE DEF c, now
    <3>1. CASE KindOf[ref.name] = "experiment"
      BY <3>1, <2>2, <2>3, <2>4, Following DEF SnapshotInv, follow
    <3>2. CASE KindOf[ref.name] # "experiment"
      BY <3>2
    <3> QED
      BY <3>1, <3>2
  <2> HIDE DEF more, c
  <2>6. \A e \in now.collected : e.name = ref.name => e = c
    BY <1>1, <2>2 DEF Closure, Collection
  <2>7. more \o Tail(now.todo) \in Seq(Ref) /\ Closure(now.collected, more \o Tail(now.todo))
    BY <1>1, <2>1, <2>2, <2>5, <2>6, Replaced
  <2> QED
    BY <1>1, <1>2, <2>1, <2>7, GoesOn
<1>7. ASSUME NEW version \in 1..latest(ref.name), ref.version \in {0, version}, now.todo # <<>>,
             KindOf[ref.name] = "experiment" => ~inSnapshot(now.collected, ref.name),
             Collected(r, version)
      PROVE  SnapshotInv'
  <2> DEFINE c == [name |-> ref.name, version |-> version]
             more == follows(ref, documentOf(c))
  <2>1. CASE inSnapshot(now.collected, ref.name)
    <3>1. Tail(now.todo) \in Seq(Ref) /\ Closure(now.collected, Tail(now.todo))
      <4>1. Tail(now.todo) \in Seq(Ref)
        BY <1>1, <1>7, FirstAndRest
      <4>2. <<>> \in Seq(Ref) /\ DOMAIN <<>> = {} /\ <<>> \o Tail(now.todo) = Tail(now.todo)
        BY <4>1
      <4>3. Closure(now.collected, <<>> \o Tail(now.todo))
        BY <1>1, <1>7, <2>1, <4>2, Replaced
      <4> QED BY <4>1, <4>2, <4>3
    <3>2. goesOn(r, "next", Tail(now.todo), now.collected)
      BY <1>7, <2>1 DEF Collected
    <3> QED
      BY <1>1, <1>2, <3>1, <3>2, GoesOn
  <2>2. CASE ~inSnapshot(now.collected, ref.name) /\ KindOf[ref.name] = "workflow" /\ documentOf(c) \notin Valid
    <3>1. rejected(r)
      BY <1>7, <2>2 DEF Collected
    <3> QED
      BY <3>1, <1>3
  <2>3. CASE ~inSnapshot(now.collected, ref.name) /\ ~(KindOf[ref.name] = "workflow" /\ documentOf(c) \notin Valid)
    <3>1. goesOn(r, "next", more \o Tail(now.todo), now.collected \cup {c})
      BY <1>7, <2>3 DEF Collected
    <3>2. c.name = ref.name
      OBVIOUS
    <3>3. VersionsTyped
      BY DEF SnapshotInv
    <3> DEFINE first == c
    <3>4. first = [name |-> ref.name, version |-> version]
      OBVIOUS
    <3> HIDE DEF first
    <3>5. KindOf[first.name] = "workflow" => documentOf(first) \in Valid
      BY <2>3, <3>2, <3>4
    <3>6. /\ now.collected \cup {first} \in SUBSET Pin
          /\ follows(Head(now.todo), documentOf(first)) \o Tail(now.todo) \in Seq(Ref)
          /\ Closure(now.collected \cup {first}, follows(Head(now.todo), documentOf(first)) \o Tail(now.todo))
      <4> DEFINE S == now.collected
                 todo == now.todo
      <4>1. /\ S \in SUBSET Pin /\ todo \in Seq(Ref) /\ todo # <<>> /\ Closure(S, todo)
            /\ ~inSnapshot(S, Head(todo).name) /\ version \in 1..latest(Head(todo).name)
            /\ Head(todo).version \in {0, version}
            /\ first = [name |-> Head(todo).name, version |-> version]
        BY <1>1, <1>7, <2>3, <3>4
      <4>2. DefinitionsAssumption
        OBVIOUS
      <4> HIDE DEF S, todo, now, ref
      <4>3. /\ S \cup {first} \in SUBSET Pin
            /\ follows(Head(todo), documentOf(first)) \o Tail(todo) \in Seq(Ref)
            /\ Closure(S \cup {first}, follows(Head(todo), documentOf(first)) \o Tail(todo))
        BY <3>3, <3>5, <4>1, <4>2, Added
      <4> QED BY <4>3 DEF S, todo
    <3>7. first = c
      BY DEF first
    <3> HIDE DEF now
    <3> QED
      BY <1>1, <1>2, <3>1, <3>6, <3>7, GoesOn
  <2> QED
    BY <2>1, <2>2, <2>3
<1>8. CASE Get(r)
  <2>1. /\ now.pc = "next" /\ now.todo # <<>>
        /\ KindOf[ref.name] = "experiment" => ~inSnapshot(now.collected, ref.name)
        /\ IF ref.version > latest(ref.name) \/ versions[ref.name] = <<>> THEN rejected(r)
           ELSE IF ref.version > 0 THEN Collected(r, ref.version)
           ELSE resolution' = [resolution EXCEPT ![r].pc = "lifecycle", ![r].found = latest(ref.name)]
    BY <1>8 DEF Get
  <2>2. ref \in Ref /\ ref.version \in Nat /\ ref.name \in Names
    BY <1>1, <2>1, FirstAndRest DEF Ref
  <2>3. latest(ref.name) \in Nat /\ (versions[ref.name] = <<>> <=> latest(ref.name) = 0)
    BY <2>2 DEF SnapshotInv, VersionsTyped, latest
  <2>4. CASE ref.version > latest(ref.name) \/ versions[ref.name] = <<>>
    BY <1>3, <2>1, <2>4
  <2>5. CASE ~(ref.version > latest(ref.name) \/ versions[ref.name] = <<>>) /\ ref.version > 0
    <3>1. Collected(r, ref.version)
      BY <2>1, <2>5
    <3>2. ref.version \in 1..latest(ref.name) /\ ref.version \in {0, ref.version}
      BY <2>2, <2>3, <2>5
    <3> QED
      BY <1>7, <2>1, <3>1, <3>2
  <2>6. CASE ~(ref.version > latest(ref.name) \/ versions[ref.name] = <<>>) /\ ~(ref.version > 0)
    <3> DEFINE last == latest(ref.name)
               entry == [now EXCEPT !.pc = "lifecycle", !.found = last]
    <3>1. last \in 1..latest(ref.name) /\ last \in Nat /\ ref.version = 0
      BY <2>2, <2>3, <2>6
    <3>2. resolution' = [resolution EXCEPT ![r].pc = "lifecycle", ![r].found = last]
      BY <2>1, <2>6
    <3> HIDE DEF last
    <3>3. resolution' = [resolution EXCEPT ![r] = entry]
      BY <3>2
    <3>4. /\ entry \in Resolution
          /\ entry.pc = "lifecycle" /\ entry.todo = now.todo /\ entry.found = last
          /\ entry.collected = now.collected
      BY <1>1, <3>1 DEF Resolution
    <3> HIDE DEF entry
    <3>5. /\ ResolutionTyped'
          /\ resolution'[r] = entry
          /\ \A q \in Runs \ {r} : resolution'[q] = resolution[q]
      BY <3>3, <3>4 DEF SnapshotInv, ResolutionTyped
    <3>6. VersionsTyped'
      BY <1>2 DEF SnapshotInv, VersionsTyped
    <3>7. \A n : latest(n)' = latest(n)
      BY <1>2 DEF latest
    <3>9. ASSUME NEW q \in Runs PROVE Resolved(q)'
      <4>1. Closure(resolution[q].collected, resolution[q].todo)'
        <5>1. CASE q = r
          BY <5>1, <1>1, <1>2, <3>4, <3>5, Carried
        <5>2. CASE q # r
          BY <5>2, <1>2, <3>5, Carried DEF SnapshotInv, Resolved
        <5> QED
          BY <5>1, <5>2
      <4>2. InHand(q)'
        <5>1. CASE q = r
          BY <5>1, <2>1, <3>1, <3>4, <3>5, <3>7 DEF InHand, inSnapshot
        <5>2. CASE q # r
          BY <5>2, <3>5, <3>7 DEF SnapshotInv, Resolved, InHand, inSnapshot
        <5> QED
          BY <5>1, <5>2
      <4> QED
        BY <4>1, <4>2 DEF Resolved
    <3> QED
      BY <3>5, <3>6, <3>9 DEF SnapshotInv
  <2> QED
    BY <2>4, <2>5, <2>6
<1>9. CASE GetLifecycle(r)
  <2>1. now.pc = "lifecycle" /\ (Collected(r, now.found) \/ rejected(r))
    BY <1>9 DEF GetLifecycle
  <2>2. /\ now.todo # <<>> /\ ref.version = 0 /\ now.found \in 1..latest(ref.name)
        /\ KindOf[ref.name] = "experiment" => ~inSnapshot(now.collected, ref.name)
    BY <1>1, <2>1 DEF InHand
  <2> QED
    BY <1>3, <1>7, <2>1, <2>2
<1>10. CASE Pinned(r)
  <2>1. now.todo = <<>> /\ goesOn(r, "pinned", <<>>, now.collected)
    BY <1>10 DEF Pinned
  <2> QED
    BY <1>1, <1>2, <2>1, GoesOn
<1> QED
  BY <1>4, <1>5, <1>6, <1>8, <1>9, <1>10 DEF resolve

\* A save adds a version at most, and changes none.
LEMMA Minting ==
    ASSUME VersionsTyped, NEW n \in Names, NEW d \in Documents[n], store(n, d)
    PROVE  /\ VersionsTyped'
           /\ \A m \in Names : /\ latest(m) \in Nat /\ latest(m)' \in Nat /\ latest(m) <= latest(m)'
                               /\ \A v \in 1..latest(m) : versions'[m][v] = versions[m][v]
           /\ EditionsDiffer => EditionsDiffer'
<1> DEFINE history == minted(n, d)
<1>1. versions[n] \in Seq(Documents[n]) /\ DOMAIN versions = Names
  BY DEF VersionsTyped
<1>2. \/ history = versions[n]
      \/ history = Append(versions[n], d) /\ (versions[n] = <<>> \/ versions[n][Len(versions[n])] # d)
  BY <1>1 DEF minted, Last
<1>3. versions' = [versions EXCEPT ![n] = history]
  BY DEF store
<1> HIDE DEF history
<1>4. /\ history \in Seq(Documents[n])
      /\ Len(versions[n]) \in Nat /\ Len(history) \in Nat /\ Len(versions[n]) <= Len(history)
      /\ \A v \in 1..Len(versions[n]) : history[v] = versions[n][v]
  BY <1>1, <1>2
<1>5. Edited(versions[n]) => Edited(history)
  <2>1. CASE history = versions[n]
    BY <2>1
  <2>2. CASE history = Append(versions[n], d) /\ (versions[n] = <<>> \/ versions[n][Len(versions[n])] # d)
    <3> DEFINE before == versions[n]
               k == Len(before)
    <3>1. k \in Nat /\ before \in Seq(Documents[n]) /\ Len(history) = k + 1 /\ history[k + 1] = d
      BY <1>1, <2>2
    <3>2. \A v \in 1..k : history[v] = before[v]
      BY <1>4
    <3>3. k = 0 \/ before[k] # d
      BY <2>2
    <3> SUFFICES ASSUME \A v \in 1..(k - 1) : before[v] # before[v + 1],
                        NEW v \in 1..k
                 PROVE  history[v] # history[v + 1]
      BY <3>1 DEF Edited
    <3> HIDE DEF before, k
    <3>4. CASE v = k
      BY <3>1, <3>2, <3>3, <3>4
    <3>5. CASE v # k
      <4>1. v \in 1..(k - 1) /\ v + 1 \in 1..k
        BY <3>1, <3>5
      <4> QED
        BY <4>1, <3>2
    <3> QED
      BY <3>4, <3>5
  <2> QED
    BY <1>2, <2>1, <2>2
<1>6. \A m \in Names : versions'[m] = IF m = n THEN history ELSE versions[m]
  BY <1>1, <1>3
<1>7. VersionsTyped'
  BY <1>1, <1>3, <1>4, <1>6 DEF VersionsTyped
<1>8. ASSUME NEW m \in Names
      PROVE  /\ latest(m) \in Nat /\ latest(m)' \in Nat /\ latest(m) <= latest(m)'
             /\ \A v \in 1..latest(m) : versions'[m][v] = versions[m][v]
  <2>1. versions[m] \in Seq(Documents[m])
    BY DEF VersionsTyped
  <2>2. CASE m = n
    BY <2>2, <1>4, <1>6 DEF latest
  <2>3. CASE m # n
    BY <2>1, <2>3, <1>6 DEF latest
  <2> QED
    BY <2>2, <2>3
<1>9. EditionsDiffer => EditionsDiffer'
  BY <1>5, <1>6 DEF EditionsDiffer
<1> QED
  BY <1>7, <1>8, <1>9

LEMMA SaveKept ==
    ASSUME SnapshotInv, NEW n \in Names, NEW d \in Documents[n], store(n, d), UNCHANGED resolution
    PROVE  SnapshotInv'
<1>1. VersionsTyped /\ ResolutionTyped
  BY DEF SnapshotInv
<1>2. VersionsTyped' /\ ResolutionTyped'
  BY <1>1, Minting DEF ResolutionTyped
<1>3. \A m \in Names : /\ latest(m) \in Nat /\ latest(m)' \in Nat /\ latest(m) <= latest(m)'
                       /\ \A v \in 1..latest(m) : versions'[m][v] = versions[m][v]
  BY <1>1, Minting
<1>4. ASSUME NEW r \in Runs PROVE Resolved(r)'
  <2> DEFINE S == resolution[r].collected
             todo == resolution[r].todo
  <2>1. /\ resolution[r] \in Resolution /\ S \in SUBSET Pin /\ todo \in Seq(Ref)
        /\ Closure(S, todo) /\ InHand(r) /\ resolution'[r] = resolution[r]
    BY <1>1 DEF SnapshotInv, ResolutionTyped, Resolution, Resolved
  <2>2. ASSUME NEW c \in S
        PROVE  /\ c.version \in 1..latest(c.name)'
               /\ documentOf(c)' = documentOf(c) /\ lookedUp(c)' = lookedUp(c)
    <3>1. c.name \in Names /\ c.version \in 1..latest(c.name)
      BY <2>1 DEF Pin, Closure, Collection
    <3>2. documentOf(c)' = documentOf(c)
      BY <3>1, <1>3 DEF documentOf
    <3>3. lookedUp(c)' = lookedUp(c)
      BY <3>2 DEF lookedUp
    <3> QED
      BY <3>1, <3>2, <3>3, <1>3
  <2>3. \A b \in S : \A m, v : named(b, m, v)' <=> named(b, m, v)
    BY <2>2 DEF named
  <2>4. Collection(S)'
    BY <2>1, <2>2 DEF Closure, Collection
  <2>5. Origins(S, todo)'
    BY <2>1, <2>3 DEF Closure, Origins
  <2>6. /\ \A c \in S : Covered(S, todo, c)' <=> Covered(S, todo, c)
        /\ \A m : inSnapshot(S, m)' <=> inSnapshot(S, m)
    BY <2>1, <2>2 DEF Covered, inSnapshot
  <2>8. Followed(S, todo)'
    BY <2>1, <2>6 DEF Closure, Followed
  <2>9. RubricsFollowed(S, todo)'
    BY <2>1, <2>2, <2>6 DEF Closure, RubricsFollowed
  <2>7. InHand(r)'
    <3>1. resolution[r].pc = "lifecycle" => Head(todo).name \in Names
      BY <2>1, FirstAndRest DEF InHand, Ref
    <3> QED
      BY <3>1, <2>1, <1>3 DEF InHand, inSnapshot
  <2> QED
    BY <2>4, <2>5, <2>7, <2>8, <2>9 DEF Resolved, Closure
<1> QED
  BY <1>2, <1>4 DEF SnapshotInv

LEMMA SnapshotInit ==
    ASSUME NEW contents \in Shelves, DefinitionsInit(contents)
    PROVE  SnapshotInv /\ EditionsDiffer
<1>1. VersionsTyped /\ EditionsDiffer
  BY DEF DefinitionsInit, Shelves, VersionsTyped, EditionsDiffer
<1> DEFINE entry == [pc |-> "idle", todo |-> <<>>, found |-> 0, collected |-> {}]
<1>2. resolution = [r \in Runs |-> entry]
  BY DEF DefinitionsInit
<1>3. entry \in Resolution /\ entry.pc = "idle" /\ entry.todo = <<>> /\ entry.collected = {}
  BY DEF Resolution
<1> HIDE DEF entry
<1>4. ResolutionTyped
  BY <1>2, <1>3 DEF ResolutionTyped
<1>5. \A r \in Runs : Resolved(r)
  BY <1>2, <1>3, NothingCollected DEF Resolved, InHand
<1> QED
  BY <1>1, <1>4, <1>5 DEF SnapshotInv

\* Nothing but a change of versions or resolutions matters.
LEMMA SnapshotStutter ==
    ASSUME SnapshotInv, UNCHANGED <<versions, resolution>>
    PROVE  SnapshotInv'
<1>1. VersionsTyped' /\ ResolutionTyped'
  BY DEF SnapshotInv, VersionsTyped, ResolutionTyped
<1>2. ASSUME NEW r \in Runs PROVE Resolved(r)'
  <2>1. Closure(resolution[r].collected, resolution[r].todo)'
    BY Carried DEF SnapshotInv, Resolved
  <2>2. InHand(r)'
    BY DEF SnapshotInv, Resolved, InHand, latest, inSnapshot
  <2> QED
    BY <2>1, <2>2 DEF Resolved
<1> QED
  BY <1>1, <1>2 DEF SnapshotInv

LEMMA DefinitionsStep ==
    ASSUME DefinitionsAssumption, SnapshotInv, EditionsDiffer, [DefinitionsNext]_definitionVars
    PROVE  SnapshotInv' /\ EditionsDiffer'
<1>1. VersionsTyped
  BY DEF SnapshotInv
<1>2. ASSUME NEW n \in Names, NEW d \in Documents[n], Save(n, d)
      PROVE  SnapshotInv' /\ EditionsDiffer'
  BY <1>1, <1>2, Minting, SaveKept DEF Save
<1>3. ASSUME UNCHANGED <<versions, resolution>> PROVE SnapshotInv' /\ EditionsDiffer'
  BY <1>3, SnapshotStutter DEF EditionsDiffer
<1>4. ASSUME NEW r \in Runs, resolve(r) PROVE SnapshotInv' /\ EditionsDiffer'
  <2>1. UNCHANGED versions
    BY <1>4 DEF resolve, Begin, TooDeep, Known, Get, GetLifecycle, Pinned
  <2> QED
    BY <1>4, <2>1, ResolutionKept DEF EditionsDiffer
<1> QED
  BY <1>2, <1>3, <1>4 DEF DefinitionsNext, setLifecycle, definitionVars

LEMMA SnapshotsClosed == SnapshotInv => SnapshotSelfContained
<1> SUFFICES ASSUME SnapshotInv, NEW r \in Runs, resolution[r].pc = "pinned"
             PROVE  LET S == resolution[r].collected IN
                    /\ \A c, d \in S : c.name = d.name => c = d
                    /\ \A c \in S : KindOf[c.name] = "workflow" => documentOf(c) \in Valid
                    /\ \A c \in S : (KindOf[c.name] = "experiment" => rubricLeftTo(S, c)) =>
                         \A ref \in lookedUp(c) :
                           /\ inSnapshot(S, ref.name)
                           /\ \/ findInSnapshot(S, ref.name, ref.version) # {}
                              \/ ref.name = Root
                              \/ \E b \in S : \E other \in lookedUp(b) :
                                   other.name = ref.name /\ other.version # ref.version
  BY DEF SnapshotSelfContained, snapshots
<1> DEFINE S == resolution[r].collected
<1>1. S \in SUBSET Pin /\ Closure(S, <<>>)
  BY DEF SnapshotInv, ResolutionTyped, Resolution, Resolved, InHand
<1> HIDE DEF S
<1>2. ASSUME NEW c \in S, KindOf[c.name] = "experiment" => rubricLeftTo(S, c),
             NEW ref \in lookedUp(c)
      PROVE  /\ inSnapshot(S, ref.name)
             /\ \/ findInSnapshot(S, ref.name, ref.version) # {}
                \/ ref.name = Root
                \/ \E b \in S : \E other \in lookedUp(b) :
                     other.name = ref.name /\ other.version # ref.version
  <2>1. KindOf[c.name] # "gate-set"
    BY <1>2 DEF lookedUp
  <2>2. inSnapshot(S, ref.name)
    <3>1. CASE KindOf[c.name] = "experiment"
      <4>1. PICK b \in S : \E by \in lookedUp(b) :
                  KindOf[b.name] = "workflow" /\ by.name = c.name /\ by.rubric
        BY <1>2, <3>1 DEF rubricLeftTo
      <4>2. Covered(S, <<>>, c)
        BY <1>1, <3>1, <4>1 DEF Closure, RubricsFollowed
      <4> QED
        BY <1>2, <4>2 DEF Covered
    <3>2. CASE KindOf[c.name] # "experiment"
      BY <1>1, <1>2, <2>1, <3>2 DEF Closure, Followed, Covered
    <3> QED BY <3>1, <3>2
  <2>3. PICK d \in S : d.name = ref.name
    BY <2>2 DEF inSnapshot
  <2>4. ref.name = Root \/ \E b \in S, v \in {0, d.version} : named(b, ref.name, v)
    BY <1>1, <2>3 DEF Closure, Origins
  <2>5. CASE ref.version \in {0, d.version}
    <3>1. d \in findInSnapshot(S, ref.name, ref.version)
      BY <2>3, <2>5 DEF findInSnapshot
    <3> QED
      BY <2>2, <3>1
  <2>6. CASE ref.version \notin {0, d.version}
    BY <2>2, <2>4, <2>6 DEF named
  <2> QED
    BY <2>5, <2>6
<1> QED
  BY <1>1, <1>2 DEF Closure, Collection, S

\* SnapshotSelfContained: a run that is started has, in the versions it was resolved with,
\* all that its workflows and profiles refer to and the rubrics left to its experiments,
\* whatever is saved, enabled or disabled meanwhile.
THEOREM SnapshotsAreClosed ==
    ASSUME DefinitionsAssumption
    PROVE  DefinitionsSpec => []SnapshotSelfContained
<1>1. (\E contents \in Shelves : DefinitionsInit(contents)) => SnapshotInv /\ EditionsDiffer
  BY SnapshotInit
<1>2. SnapshotInv /\ EditionsDiffer /\ [DefinitionsNext]_definitionVars => SnapshotInv' /\ EditionsDiffer'
  BY DefinitionsStep
<1>3. SnapshotInv => SnapshotSelfContained
  BY SnapshotsClosed
<1> QED
  BY <1>1, <1>2, <1>3, PTL DEF DefinitionsSpec

\* EditionsDiffer: no document is stored as a new version of itself, whoever saves it and
\* however often.
THEOREM EditionsAreDistinct ==
    ASSUME DefinitionsAssumption
    PROVE  DefinitionsSpec => []EditionsDiffer
<1>1. (\E contents \in Shelves : DefinitionsInit(contents)) => SnapshotInv /\ EditionsDiffer
  BY SnapshotInit
<1>2. SnapshotInv /\ EditionsDiffer /\ [DefinitionsNext]_definitionVars => SnapshotInv' /\ EditionsDiffer'
  BY DefinitionsStep
<1> QED
  BY <1>1, <1>2, PTL DEF DefinitionsSpec

--------------------------------------------------------------------------------
(* The designer *)

\* A document is a text that parses; what is shown of one is one.
DesignerAssumption ==
    /\ Pages # {}
    /\ Unparsed \notin Documents[Root] /\ NoTimer \notin Documents[Root]
    /\ Redacted \in [Documents[Root] -> Documents[Root]]

Editor == [open : BOOLEAN, doc : texts, text : texts, timer : texts \cup {NoTimer},
           wrong : BOOLEAN, saving : BOOLEAN, issues : BOOLEAN]
CallStates == {"free", "validate", "put", "stored", "over"}

DesignerTyped ==
    /\ query \in [Pages -> [pc : {"asked", "answered", "idle", "failed"}, version : Nat]]
    /\ editor \in [Pages -> Editor]
    /\ calls \in [Presses -> [pc : CallStates, by : Pages, doc : texts, here : BOOLEAN]]

\* What is typed is not on the canvas before it is parsed; while the definition is fetched
\* there is no editor, and without one nothing is typed or awaited.
Projected(e) ==
    /\ e.open /\ e.timer = NoTimer /\ ~e.wrong => e.text = e.doc
    /\ e.timer # NoTimer => e.text = e.timer
    /\ e.open => e.doc # Unparsed
    /\ ~e.open => e.timer = NoTimer /\ ~e.saving
Shown ==
    \A w \in Pages :
        /\ Projected(editor[w])
        /\ query[w].pc \in {"asked", "answered"} => ~editor[w].open
        /\ query[w].pc = "answered" => query[w].version \in 1..latest(Root)

\* The save an editor waits for.
Awaited(w, p) == calls[p].by = w /\ calls[p].here /\ calls[p].pc \notin {"free", "over"}
Waiting ==
    \A w \in Pages :
        /\ \A p, q \in Presses : Awaited(w, p) /\ Awaited(w, q) => p = q
        /\ editor[w].saving <=> \E p \in Presses : Awaited(w, p)

\* A save is of a document, which has been validated before it is stored.
Validation ==
    \A p \in Presses :
        /\ calls[p].pc \in {"validate", "put", "stored"} => calls[p].doc # Unparsed
        /\ calls[p].pc \in {"put", "stored"} => calls[p].doc \in Valid

DesignerInv ==
    /\ VersionsTyped /\ Root \in Names /\ versions[Root] # <<>> /\ EditionsDiffer
    /\ DesignerTyped /\ Shown /\ Waiting /\ Validation

LEMMA Editors ==
    ASSUME DesignerAssumption, NEW d \in Documents[Root]
    PROVE  /\ closed \in Editor /\ Projected(closed) /\ closed.open = FALSE /\ closed.saving = FALSE
           /\ opened(d) \in Editor /\ Projected(opened(d)) /\ opened(d).saving = FALSE
<1>1. closed \in Editor /\ Projected(closed) /\ closed.open = FALSE /\ closed.saving = FALSE
  BY DEF closed, Editor, Projected, texts
<1>2. d # Unparsed /\ NoTimer \in texts \cup {NoTimer} /\ d \in texts
  BY DEF DesignerAssumption, texts
<1> DEFINE e == opened(d)
<1>3. /\ e \in Editor /\ e.timer = NoTimer /\ e.text = d /\ e.doc = d
      /\ e.saving = FALSE /\ e.open = TRUE
  BY <1>2 DEF opened, closed, Editor, texts
<1> HIDE DEF e
<1>4. Projected(e)
  BY <1>2, <1>3 DEF Projected
<1> QED
  BY <1>1, <1>3, <1>4 DEF e

LEMMA DesignerStart ==
    ASSUME DesignerAssumption, NEW contents \in Shelves, Root \in Names, contents[Root] # <<>>,
           DefinitionsInit(contents), DesignerInit
    PROVE  DesignerInv
<1>1. VersionsTyped /\ versions[Root] # <<>> /\ EditionsDiffer
  BY DEF DefinitionsInit, Shelves, VersionsTyped, EditionsDiffer
<1>2. closed \in Editor /\ Projected(closed) /\ closed.open = FALSE /\ closed.saving = FALSE
  BY DEF closed, Editor, Projected, texts
<1> HIDE DEF closed
<1> DEFINE free == [pc |-> "free", by |-> CHOOSE w \in Pages : TRUE, doc |-> Unparsed, here |-> FALSE]
<1>3. /\ free \in [pc : CallStates, by : Pages, doc : texts, here : BOOLEAN]
      /\ free.pc = "free" /\ free.here = FALSE
  <2>1. (CHOOSE w \in Pages : TRUE) \in Pages
    BY DEF DesignerAssumption
  <2> QED
    BY <2>1 DEF CallStates, texts
<1>4. /\ query = [w \in Pages |-> [pc |-> "asked", version |-> 0]]
      /\ editor = [w \in Pages |-> closed]
      /\ calls = [p \in Presses |-> free]
  BY DEF DesignerInit
<1> HIDE DEF free
<1>5. DesignerTyped
  BY <1>2, <1>3, <1>4 DEF DesignerTyped
<1>6. Shown
  BY <1>2, <1>4 DEF Shown
<1>7. Waiting
  BY <1>2, <1>3, <1>4 DEF Waiting, Awaited
<1>8. Validation
  BY <1>3, <1>4 DEF Validation
<1> QED
  BY <1>1, <1>5, <1>6, <1>7, <1>8 DEF DesignerInv

\* A step that gives one editor and one fetch new values, and keeps the calls.
LEMMA EditorStep ==
    ASSUME DesignerInv, UNCHANGED <<versions, calls>>, NEW w \in Pages,
           NEW e \in Editor, Projected(e), e.saving = editor[w].saving,
           NEW f \in [pc : {"asked", "answered", "idle", "failed"}, version : Nat],
           f.pc \in {"asked", "answered"} => ~e.open,
           f.pc = "answered" => f.version \in 1..latest(Root),
           editor' = [editor EXCEPT ![w] = e], query' = [query EXCEPT ![w] = f]
    PROVE  DesignerInv'
<1>1. DesignerTyped'
  BY DEF DesignerInv, DesignerTyped
<1>2. /\ \A v \in Pages : editor'[v] = IF v = w THEN e ELSE editor[v]
      /\ \A v \in Pages : query'[v] = IF v = w THEN f ELSE query[v]
      /\ \A v \in Pages : editor'[v].saving = editor[v].saving
  BY DEF DesignerInv, DesignerTyped
<1>3. /\ VersionsTyped' /\ Validation' /\ latest(Root)' = latest(Root)
      /\ versions'[Root] # <<>> /\ EditionsDiffer'
  BY DEF DesignerInv, VersionsTyped, Validation, latest, EditionsDiffer
<1>4. Shown'
  <2> SUFFICES ASSUME NEW v \in Pages
               PROVE  /\ Projected(editor'[v])
                      /\ query'[v].pc \in {"asked", "answered"} => ~editor'[v].open
                      /\ query'[v].pc = "answered" => query'[v].version \in 1..latest(Root)
    BY <1>3 DEF Shown, Projected
  <2>1. CASE v = w
    BY <2>1, <1>2
  <2>2. CASE v # w
    BY <2>2, <1>2 DEF DesignerInv, Shown
  <2> QED
    BY <2>1, <2>2
<1>5. Waiting'
  BY <1>2 DEF DesignerInv, Waiting, Awaited
<1> QED
  BY <1>1, <1>3, <1>4, <1>5 DEF DesignerInv

LEMMA EditsKept ==
    ASSUME DesignerAssumption, DesignerInv, NEW w \in Pages,
           \/ \E d \in Documents[Root] : changeDocument(w, d)
           \/ \E text \in texts : changeYaml(w, text)
           \/ Parse(w)
    PROVE  DesignerInv'
<1> DEFINE now == editor[w]
<1>1. /\ now \in Editor /\ Projected(now) /\ query[w] \in [pc : {"asked", "answered", "idle", "failed"}, version : Nat]
      /\ query[w].pc \in {"asked", "answered"} => ~now.open
      /\ query[w].pc = "answered" => query[w].version \in 1..latest(Root)
      /\ query = [query EXCEPT ![w] = query[w]]
  BY DEF DesignerInv, DesignerTyped, Shown
<1>2. NoTimer \notin texts /\ NoTimer # Unparsed
  BY DEF DesignerAssumption, texts, NoTimer, Unparsed
<1>3. ASSUME NEW e \in Editor, Projected(e), e.saving = now.saving, e.open = now.open,
             editor' = [editor EXCEPT ![w] = e], onlyEditor
      PROVE  DesignerInv'
  <2>1. UNCHANGED <<versions, calls>> /\ query' = [query EXCEPT ![w] = query[w]]
    BY <1>1, <1>3 DEF onlyEditor
  <2>2. /\ query[w].pc \in {"asked", "answered"} => ~e.open
        /\ query[w].pc = "answered" => query[w].version \in 1..latest(Root)
        /\ e.saving = editor[w].saving
    BY <1>1, <1>3
  <2> HIDE DEF now
  <2> QED
    BY <1>1, <1>3, <2>1, <2>2, EditorStep
<1>4. ASSUME NEW d \in Documents[Root], changeDocument(w, d) PROVE DesignerInv'
  <2> DEFINE e == [now EXCEPT !.doc = d, !.text = d, !.wrong = FALSE]
  <2>1. now.open /\ now.timer = NoTimer /\ editor' = [editor EXCEPT ![w] = e] /\ onlyEditor
    BY <1>4 DEF changeDocument
  <2>2. d \in texts /\ d # Unparsed
    BY DEF texts, DesignerAssumption
  <2> HIDE DEF now
  <2>3. /\ e \in Editor /\ e.saving = now.saving /\ e.open = now.open
        /\ e.doc = d /\ e.text = d /\ e.timer = now.timer
    BY <1>1, <2>2 DEF Editor
  <2> HIDE DEF e
  <2>4. Projected(e)
    BY <2>1, <2>2, <2>3 DEF Projected
  <2> QED
    BY <1>3, <2>1, <2>3, <2>4
<1>5. ASSUME NEW text \in texts, changeYaml(w, text) PROVE DesignerInv'
  <2> DEFINE e == [now EXCEPT !.text = text, !.timer = text]
  <2>1. now.open /\ editor' = [editor EXCEPT ![w] = e] /\ onlyEditor
    BY <1>5 DEF changeYaml
  <2>2. text \in texts \cup {NoTimer} /\ text # NoTimer
    BY <1>2
  <2> HIDE DEF now
  <2>3. /\ e \in Editor /\ e.saving = now.saving /\ e.open = now.open
        /\ e.doc = now.doc /\ e.text = text /\ e.timer = text
    BY <1>1, <2>2 DEF Editor
  <2> HIDE DEF e
  <2>4. Projected(e)
    BY <1>1, <2>1, <2>2, <2>3 DEF Projected
  <2> QED
    BY <1>3, <2>1, <2>3, <2>4
<1>6. ASSUME Parse(w) PROVE DesignerInv'
  <2> DEFINE malformed == now.timer = Unparsed
             d == IF malformed THEN now.doc ELSE now.timer
             e == [now EXCEPT !.timer = NoTimer, !.wrong = malformed, !.doc = d]
  <2>1. now.timer # NoTimer /\ onlyEditor
    BY <1>6 DEF Parse
  <2>2. editor' = [editor EXCEPT ![w].timer = NoTimer, ![w].wrong = editor[w].timer = Unparsed,
                                 ![w].doc = IF editor[w].timer = Unparsed THEN @ ELSE editor[w].timer]
    BY <1>6 DEF Parse
  <2>3. editor' = [editor EXCEPT ![w] = e]
    <3>1. editor \in [Pages -> Editor]
      BY DEF DesignerInv, DesignerTyped
    <3> QED
      BY <2>2, <3>1
  <2>4. d \in texts /\ malformed \in BOOLEAN /\ NoTimer \in texts \cup {NoTimer} /\ now.open
    BY <1>1, <2>1 DEF Editor, Projected
  <2>5. ~malformed => d = now.timer /\ now.text = now.timer /\ now.timer # Unparsed
    BY <1>1, <2>1 DEF Projected
  <2>6. malformed => d = now.doc
    OBVIOUS
  <2> HIDE DEF now, malformed, d
  <2>7. /\ e \in Editor /\ e.saving = now.saving /\ e.open = now.open
        /\ e.doc = d /\ e.text = now.text /\ e.timer = NoTimer /\ e.wrong = malformed
    BY <1>1, <2>4 DEF Editor
  <2> HIDE DEF e
  <2>8. Projected(e)
    <3>1. now.open => now.doc # Unparsed
      BY <1>1 DEF Projected
    <3>2. e.doc # Unparsed
      BY <2>4, <2>5, <2>6, <2>7, <3>1
    <3> QED
      BY <2>4, <2>5, <2>7, <3>2 DEF Projected
  <2> QED
    BY <1>3, <2>1, <2>3, <2>7, <2>8
<1> QED
  BY <1>4, <1>5, <1>6

LEMMA FetchesKept ==
    ASSUME DesignerAssumption, DesignerInv, NEW w \in Pages,
           ServeDefinition(w) \/ Show(w) \/ QueryFails(w)
    PROVE  DesignerInv'
<1> DEFINE Fetch == [pc : {"asked", "answered", "idle", "failed"}, version : Nat]
<1>1. /\ editor[w] \in Editor /\ Projected(editor[w]) /\ query[w] \in Fetch
      /\ query[w].pc \in {"asked", "answered"} => ~editor[w].open
      /\ query[w].pc = "answered" => query[w].version \in 1..latest(Root)
      /\ editor = [editor EXCEPT ![w] = editor[w]]
      /\ query \in [Pages -> Fetch]
  BY DEF DesignerInv, DesignerTyped, Shown
<1>2. CASE Show(w)
  <2> DEFINE d == Redacted[versions[Root][query[w].version]]
             f == [query[w] EXCEPT !.pc = "idle"]
  <2>1. query[w].pc = "answered" /\ onlyQuery /\ editor' = [editor EXCEPT ![w] = opened(d)]
        /\ query' = [query EXCEPT ![w] = f]
    BY <1>2 DEF Show
  <2>2. d \in Documents[Root]
    <3>1. versions[Root] \in Seq(Documents[Root]) /\ query[w].version \in 1..Len(versions[Root])
      BY <1>1, <2>1 DEF DesignerInv, VersionsTyped, latest, DefinitionsAssumption
    <3> QED
      BY <3>1 DEF DesignerAssumption
  <2>3. f \in Fetch /\ f.pc = "idle"
    BY <1>1
  <2>4. ~editor[w].open /\ editor[w].saving = FALSE
    BY <1>1, <2>1 DEF Projected, Editor
  <2> HIDE DEF d, f
  <2> DEFINE e == opened(d)
  <2>5. e \in Editor /\ Projected(e) /\ e.saving = editor[w].saving
    BY <2>2, <2>4, Editors
  <2>6. UNCHANGED <<versions, calls>>
    BY <2>1 DEF onlyQuery
  <2> HIDE DEF e
  <2> QED
    BY <2>1, <2>3, <2>5, <2>6, EditorStep DEF e
<1>3. ASSUME NEW f \in Fetch, f.pc \in {"asked", "answered"} => query[w].pc \in {"asked", "answered"},
             f.pc = "answered" => f.version \in 1..latest(Root),
             query' = [query EXCEPT ![w] = f], onlyQuery, UNCHANGED editor
      PROVE  DesignerInv'
  <2>1. editor' = [editor EXCEPT ![w] = editor[w]] /\ UNCHANGED <<versions, calls>>
    BY <1>1, <1>3 DEF onlyQuery
  <2>2. f.pc \in {"asked", "answered"} => ~editor[w].open
    BY <1>1, <1>3
  <2> QED
    BY <1>1, <1>3, <2>1, <2>2, EditorStep
<1>4. CASE ServeDefinition(w)
  <2> DEFINE f == [pc |-> "answered", version |-> latest(Root)]
  <2>1. query[w].pc = "asked" /\ query' = [query EXCEPT ![w] = f] /\ onlyQuery /\ UNCHANGED editor
    BY <1>4 DEF ServeDefinition
  <2>2. latest(Root) \in Nat \ {0}
    BY DEF DesignerInv, VersionsTyped, latest
  <2>3. f \in Fetch /\ f.pc = "answered" /\ f.version \in 1..latest(Root)
    BY <2>2
  <2> HIDE DEF f
  <2> QED
    BY <1>3, <2>1, <2>3
<1>5. CASE QueryFails(w)
  <2> DEFINE f == [query[w] EXCEPT !.pc = "failed"]
  <2>1. query' = [query EXCEPT ![w] = f] /\ onlyQuery /\ UNCHANGED editor
    BY <1>5 DEF QueryFails
  <2>2. f \in Fetch /\ f.pc = "failed"
    BY <1>1
  <2> HIDE DEF f
  <2> QED
    BY <1>3, <2>1, <2>2
<1> QED
  BY <1>2, <1>4, <1>5

Calls == [pc : CallStates, by : Pages, doc : texts, here : BOOLEAN]

\* An editor that waits or no longer waits shows what it has shown.
LEMMA SavingOnly ==
    ASSUME NEW e \in Editor, Projected(e), NEW saving \in BOOLEAN, NEW issues \in BOOLEAN,
           saving => e.open
    PROVE  LET now == [e EXCEPT !.saving = saving, !.issues = issues] IN
           now \in Editor /\ Projected(now) /\ now.saving = saving /\ now.open = e.open
<1> DEFINE now == [e EXCEPT !.saving = saving, !.issues = issues]
<1>1. /\ now \in Editor /\ now.saving = saving /\ now.open = e.open /\ now.timer = e.timer
      /\ now.text = e.text /\ now.doc = e.doc /\ now.wrong = e.wrong
  BY DEF Editor
<1> HIDE DEF now
<1>2. Projected(now)
  BY <1>1 DEF Projected
<1> QED
  BY <1>1, <1>2 DEF now

LEMMA PressKept ==
    ASSUME DesignerAssumption, DesignerInv, NEW w \in Pages, NEW p \in Presses, Press(w, p)
    PROVE  DesignerInv'
<1> DEFINE e == [editor[w] EXCEPT !.saving = TRUE, !.issues = FALSE]
           call == [pc |-> "validate", by |-> w, doc |-> editor[w].doc, here |-> TRUE]
<1>1. /\ editor[w].open /\ ~editor[w].saving /\ calls[p].pc = "free"
      /\ calls' = [calls EXCEPT ![p] = call]
      /\ UNCHANGED <<versions, query>>
  BY DEF Press, definitionVars
<1>2. /\ editor \in [Pages -> Editor] /\ calls \in [Presses -> Calls] /\ Projected(editor[w])
      /\ query \in [Pages -> [pc : {"asked", "answered", "idle", "failed"}, version : Nat]]
  BY DEF DesignerInv, DesignerTyped, Shown, Calls
<1>3. editor' = [editor EXCEPT ![w] = e]
  BY <1>2 DEF Press
<1>4. e \in Editor /\ Projected(e) /\ e.saving = TRUE /\ e.open = editor[w].open
  BY <1>1, <1>2, SavingOnly
<1>5. call \in Calls /\ call.pc = "validate" /\ call.by = w /\ call.here = TRUE /\ call.doc # Unparsed
  <2>1. editor[w].doc \in texts /\ editor[w].doc # Unparsed
    BY <1>1, <1>2 DEF Editor, Projected
  <2> QED
    BY <2>1 DEF Calls, CallStates
<1> HIDE DEF e, call
<1>6. /\ \A v \in Pages : editor'[v] = IF v = w THEN e ELSE editor[v]
      /\ \A q \in Presses : calls'[q] = IF q = p THEN call ELSE calls[q]
  BY <1>1, <1>2, <1>3
<1>7. DesignerTyped'
  BY <1>1, <1>2, <1>3, <1>4, <1>5 DEF DesignerTyped, Calls
<1>8. /\ VersionsTyped' /\ Root \in Names /\ versions'[Root] # <<>> /\ EditionsDiffer'
      /\ latest(Root)' = latest(Root)
  BY <1>1 DEF DesignerInv, VersionsTyped, EditionsDiffer, latest
<1>9. Shown'
  <2>1. \A v \in Pages : Projected(editor'[v]) /\ editor'[v].open = editor[v].open
    BY <1>4, <1>6 DEF DesignerInv, Shown
  <2> QED
    BY <2>1, <1>1, <1>8 DEF DesignerInv, Shown, Projected
<1>10. Waiting'
  <2>1. \A q \in Presses : ~Awaited(w, q)
    BY <1>1 DEF DesignerInv, Waiting
  <2>2. \A v \in Pages, q \in Presses : Awaited(v, q)' <=> IF q = p THEN v = w ELSE Awaited(v, q)
    BY <1>5, <1>6 DEF Awaited
  <2>3. \A v \in Pages : ~Awaited(v, p)
    BY <1>1 DEF Awaited
  <2>4. ASSUME NEW v \in Pages
        PROVE  /\ \A q, r \in Presses : Awaited(v, q)' /\ Awaited(v, r)' => q = r
               /\ editor'[v].saving <=> \E q \in Presses : Awaited(v, q)'
    <3>1. CASE v = w
      BY <3>1, <2>1, <2>2, <1>4, <1>6
    <3>2. CASE v # w
      BY <3>2, <2>2, <2>3, <1>6 DEF DesignerInv, Waiting
    <3> QED
      BY <3>1, <3>2
  <2> QED
    BY <2>4 DEF Waiting
<1>11. Validation'
  BY <1>5, <1>6 DEF DesignerInv, Validation
<1> QED
  BY <1>7, <1>8, <1>9, <1>10, <1>11 DEF DesignerInv

\* A call that goes on, with the document it is about.
LEMMA CallGoesOn ==
    ASSUME DesignerInv, NEW p \in Presses, calls[p].pc \notin {"free", "over"},
           NEW stage \in {"put", "stored"}, calls[p].doc \in Valid,
           NEW call \in Calls, call.pc = stage, call.by = calls[p].by, call.here = calls[p].here,
           call.doc = calls[p].doc, calls' = [calls EXCEPT ![p] = call],
           UNCHANGED <<query, editor>>,
           VersionsTyped', EditionsDiffer', versions'[Root] # <<>>,
           latest(Root) \in Nat, latest(Root)' \in Nat, latest(Root) <= latest(Root)'
    PROVE  DesignerInv'
<1>1. \A q \in Presses : calls'[q] = IF q = p THEN call ELSE calls[q]
  BY DEF DesignerInv, DesignerTyped
<1>2. DesignerTyped'
  BY DEF DesignerInv, DesignerTyped, Calls
<1>3. Shown'
  BY DEF DesignerInv, Shown, Projected
<1>4. \A v \in Pages, q \in Presses : Awaited(v, q)' <=> Awaited(v, q)
  BY <1>1 DEF Awaited
<1>5. Waiting'
  BY <1>4 DEF DesignerInv, Waiting
<1>7. calls[p].pc \in {"validate", "put", "stored"}
  BY DEF DesignerInv, DesignerTyped, CallStates
<1>6. Validation'
  BY <1>1, <1>7 DEF DesignerInv, Validation
<1> QED
  BY <1>2, <1>3, <1>5, <1>6 DEF DesignerInv

\* A call that ends, and the editor that awaits it.
LEMMA CallEnds ==
    ASSUME DesignerInv, NEW p \in Presses, calls[p].pc \notin {"free", "over"}, NEW issues \in BOOLEAN,
           calls' = [calls EXCEPT ![p].pc = "over"], ends(p, issues), UNCHANGED <<versions, query>>
    PROVE  DesignerInv'
<1> DEFINE call == [calls[p] EXCEPT !.pc = "over"]
           w == calls[p].by
           e == IF calls[p].here THEN [editor[w] EXCEPT !.saving = FALSE, !.issues = issues] ELSE editor[w]
<1>1. /\ editor \in [Pages -> Editor] /\ calls \in [Presses -> Calls] /\ w \in Pages
      /\ Projected(editor[w]) /\ calls[p] \in Calls /\ editor[w] \in Editor
  BY DEF DesignerInv, DesignerTyped, Shown, Calls
<1>2. editor' = [editor EXCEPT ![w] = e]
  BY <1>1 DEF ends
<1>3. /\ e \in Editor /\ Projected(e) /\ e.open = editor[w].open
      /\ e.saving = (~calls[p].here /\ editor[w].saving)
  <2>1. CASE calls[p].here
    BY <2>1, <1>1, SavingOnly
  <2>2. CASE ~calls[p].here
    <3>1. editor[w].saving \in BOOLEAN
      BY <1>1 DEF Editor
    <3> QED
      BY <2>2, <3>1, <1>1
  <2> QED
    BY <2>1, <2>2
<1>4. call \in Calls /\ call.pc = "over" /\ calls' = [calls EXCEPT ![p] = call]
  BY <1>1 DEF Calls, CallStates
<1> HIDE DEF e, call
<1>5. /\ \A v \in Pages : editor'[v] = IF v = w THEN e ELSE editor[v]
      /\ \A q \in Presses : calls'[q] = IF q = p THEN call ELSE calls[q]
  BY <1>1, <1>2, <1>4
<1>6. DesignerTyped'
  <2>1. editor' \in [Pages -> Editor] /\ calls' \in [Presses -> Calls]
    BY <1>1, <1>2, <1>3, <1>4
  <2>2. query' \in [Pages -> [pc : {"asked", "answered", "idle", "failed"}, version : Nat]]
    BY DEF DesignerInv, DesignerTyped
  <2> QED BY <2>1, <2>2 DEF DesignerTyped, Calls
<1>7. /\ VersionsTyped' /\ Root \in Names /\ versions'[Root] # <<>> /\ EditionsDiffer'
      /\ latest(Root)' = latest(Root)
  BY DEF DesignerInv, VersionsTyped, EditionsDiffer, latest
<1>8. Shown'
  <2>1. \A v \in Pages : Projected(editor'[v]) /\ editor'[v].open = editor[v].open
    BY <1>3, <1>5 DEF DesignerInv, Shown
  <2> QED
    BY <2>1, <1>7 DEF DesignerInv, Shown, Projected
<1>9. Waiting'
  <2>1. \A v \in Pages, q \in Presses : Awaited(v, q)' <=> q # p /\ Awaited(v, q)
    BY <1>4, <1>5 DEF Awaited
  <2>2. \A v \in Pages : Awaited(v, p) <=> v = w /\ calls[p].here
    BY DEF Awaited
  <2>3. ASSUME NEW v \in Pages
        PROVE  /\ \A q, r \in Presses : Awaited(v, q)' /\ Awaited(v, r)' => q = r
               /\ editor'[v].saving <=> \E q \in Presses : Awaited(v, q)'
    <3>1. /\ \A q, r \in Presses : Awaited(v, q) /\ Awaited(v, r) => q = r
          /\ editor[v].saving <=> \E q \in Presses : Awaited(v, q)
      BY DEF DesignerInv, Waiting
    <3> HIDE DEF w
    <3>2. CASE v = w /\ calls[p].here
      <4>1. Awaited(v, p)
        BY <2>2, <3>2
      <4>2. ~editor'[v].saving
        BY <1>3, <1>5, <3>2
      <4> QED
        BY <2>1, <3>1, <4>1, <4>2
    <3>3. CASE ~(v = w /\ calls[p].here)
      <4>1. ~Awaited(v, p)
        BY <2>2, <3>3
      <4>2. editor'[v].saving <=> editor[v].saving
        BY <1>3, <1>5, <3>3
      <4> QED
        BY <2>1, <3>1, <4>1, <4>2
    <3> QED
      BY <3>2, <3>3
  <2> QED
    BY <2>3 DEF Waiting
<1>10. Validation'
  BY <1>4, <1>5 DEF DesignerInv, Validation
<1> QED
  BY <1>6, <1>7, <1>8, <1>9, <1>10 DEF DesignerInv

\* A fetch ends the editor of its page: nobody there awaits a save any more.
LEMMA QueryRefetched ==
    ASSUME DesignerAssumption, DesignerInv, NEW w \in Pages, fetches(w), UNCHANGED versions,
           calls' \in [Presses -> Calls],
           \A q \in Presses : ~Awaited(w, q)',
           \A q \in Presses, v \in Pages \ {w} : Awaited(v, q)' <=> Awaited(v, q),
           Validation'
    PROVE  DesignerInv'
<1> DEFINE f == [pc |-> "asked", version |-> 0]
<1>1. closed \in Editor /\ Projected(closed) /\ closed.open = FALSE /\ closed.saving = FALSE
  BY DEF closed, Editor, Projected, texts
<1>2. f \in [pc : {"asked", "answered", "idle", "failed"}, version : Nat] /\ f.pc = "asked"
  OBVIOUS
<1>3. query' = [query EXCEPT ![w] = f] /\ editor' = [editor EXCEPT ![w] = closed]
  BY DEF fetches
<1> HIDE DEF f, closed
<1>4. DesignerTyped'
  BY <1>1, <1>2, <1>3 DEF DesignerInv, DesignerTyped, Calls
<1>5. /\ \A v \in Pages : editor'[v] = IF v = w THEN closed ELSE editor[v]
      /\ \A v \in Pages : query'[v] = IF v = w THEN f ELSE query[v]
  BY <1>3 DEF DesignerInv, DesignerTyped
<1>6. /\ VersionsTyped' /\ Root \in Names /\ versions'[Root] # <<>> /\ EditionsDiffer'
      /\ latest(Root)' = latest(Root)
  BY DEF DesignerInv, VersionsTyped, EditionsDiffer, latest
<1>7. Shown'
  <2> SUFFICES ASSUME NEW v \in Pages
               PROVE  /\ Projected(editor'[v])
                      /\ query'[v].pc \in {"asked", "answered"} => ~editor'[v].open
                      /\ query'[v].pc = "answered" => query'[v].version \in 1..latest(Root)
    BY <1>6 DEF Shown, Projected
  <2>1. CASE v = w
    BY <2>1, <1>1, <1>2, <1>5
  <2>2. CASE v # w
    BY <2>2, <1>5 DEF DesignerInv, Shown
  <2> QED
    BY <2>1, <2>2
<1>8. Waiting'
  <2> SUFFICES ASSUME NEW v \in Pages
               PROVE  /\ \A q, r \in Presses : Awaited(v, q)' /\ Awaited(v, r)' => q = r
                      /\ editor'[v].saving <=> \E q \in Presses : Awaited(v, q)'
    BY DEF Waiting
  <2>1. CASE v = w
    BY <2>1, <1>1, <1>5
  <2>2. CASE v # w
    BY <2>2, <1>5 DEF DesignerInv, Waiting
  <2> QED
    BY <2>1, <2>2
<1> QED
  BY <1>4, <1>6, <1>7, <1>8 DEF DesignerInv

LEMMA CallsKept ==
    ASSUME DesignerAssumption, DesignerInv, NEW p \in Presses,
           Validated(p) \/ Put(p) \/ CallFails(p)
    PROVE  DesignerInv'
<1>1. /\ calls \in [Presses -> Calls] /\ calls[p] \in Calls
      /\ VersionsTyped /\ EditionsDiffer /\ versions[Root] # <<>> /\ Root \in Names
      /\ latest(Root) \in Nat
  BY DEF DesignerInv, DesignerTyped, Calls, VersionsTyped, latest
<1>2. CASE Validated(p)
  <2>1. calls[p].pc = "validate" /\ UNCHANGED <<versions, query>>
    BY <1>2 DEF Validated, definitionVars
  <2>2. CASE calls[p].doc \in Valid
    <3> DEFINE call == [calls[p] EXCEPT !.pc = "put"]
    <3>1. calls' = [calls EXCEPT ![p] = call] /\ UNCHANGED editor
      BY <1>2, <2>2 DEF Validated
    <3>2. /\ call \in Calls /\ call.pc = "put" /\ call.by = calls[p].by /\ call.here = calls[p].here
          /\ call.doc = calls[p].doc
      BY <1>1 DEF Calls, CallStates
    <3> HIDE DEF call
    <3>3. VersionsTyped' /\ EditionsDiffer' /\ versions'[Root] # <<>> /\ latest(Root)' = latest(Root)
      BY <1>1, <2>1 DEF VersionsTyped, EditionsDiffer, latest
    <3>4. latest(Root)' \in Nat /\ latest(Root) <= latest(Root)'
      BY <1>1, <3>3
    <3> QED
      BY <1>1, <2>1, <2>2, <3>1, <3>2, <3>3, <3>4, CallGoesOn
  <2>3. CASE calls[p].doc \notin Valid
    <3>1. calls' = [calls EXCEPT ![p].pc = "over"] /\ ends(p, TRUE)
      BY <1>2, <2>3 DEF Validated
    <3> QED
      BY <2>1, <3>1, CallEnds
  <2> QED
    BY <2>2, <2>3
<1>3. CASE Put(p)
  <2> DEFINE call == [calls[p] EXCEPT !.pc = "stored", !.doc = putOf(p)]
  <2>1. /\ calls[p].pc = "put" /\ store(Root, calls[p].doc) /\ UNCHANGED <<query, editor>>
        /\ calls' = [calls EXCEPT ![p] = call]
    BY <1>1, <1>3 DEF Put, putOf
  <2>2. calls[p].doc \in Valid
    BY <2>1 DEF DesignerInv, Validation
  <2>3. /\ call \in Calls /\ call.pc = "stored" /\ call.by = calls[p].by /\ call.here = calls[p].here
        /\ call.doc = calls[p].doc
    BY <1>1 DEF Calls, CallStates, putOf
  <2> HIDE DEF call
  <2>4. calls[p].doc \in Documents[Root]
    BY <1>1, <2>1 DEF DesignerInv, Validation, Calls, texts
  <2>5. /\ VersionsTyped' /\ EditionsDiffer' /\ latest(Root)' \in Nat /\ latest(Root) <= latest(Root)'
    BY <1>1, <2>1, <2>4, Minting
  <2>6. versions'[Root] # <<>>
    BY <1>1, <2>5 DEF latest, VersionsTyped
  <2> QED
    BY <1>1, <2>1, <2>2, <2>3, <2>5, <2>6, CallGoesOn
<1>4. CASE CallFails(p)
  BY <1>4, CallEnds DEF CallFails, definitionVars
<1> QED
  BY <1>2, <1>3, <1>4

LEMMA FetchedAgain ==
    ASSUME DesignerAssumption, DesignerInv,
           \/ \E w \in Pages : Reconnect(w)
           \/ \E p \in Presses : Saved(p)
    PROVE  DesignerInv'
<1>1. calls \in [Presses -> Calls]
  BY DEF DesignerInv, DesignerTyped, Calls
<1>2. ASSUME NEW w \in Pages, Reconnect(w) PROVE DesignerInv'
  <2> DEFINE gone(q) == [calls[q] EXCEPT !.here = FALSE]
  <2>1. /\ fetches(w) /\ UNCHANGED versions
        /\ calls' = [q \in Presses |-> IF calls[q].by = w THEN gone(q) ELSE calls[q]]
    BY <1>2 DEF Reconnect, definitionVars
  <2>2. \A q \in Presses : /\ gone(q) \in Calls /\ gone(q).here = FALSE /\ gone(q).by = calls[q].by
                           /\ gone(q).pc = calls[q].pc /\ gone(q).doc = calls[q].doc
    BY <1>1 DEF Calls
  <2> HIDE DEF gone
  <2>3. calls' \in [Presses -> Calls]
    BY <1>1, <2>1, <2>2
  <2>4. /\ \A q \in Presses : ~Awaited(w, q)'
        /\ \A q \in Presses, v \in Pages \ {w} : Awaited(v, q)' <=> Awaited(v, q)
    BY <2>1, <2>2 DEF Awaited
  <2>5. Validation'
    BY <2>1, <2>2 DEF DesignerInv, Validation
  <2> QED
    BY <2>1, <2>3, <2>4, <2>5, QueryRefetched
<1>3. ASSUME NEW p \in Presses, Saved(p) PROVE DesignerInv'
  <2> DEFINE gone(q) == [calls[q] EXCEPT !.here = FALSE]
             done == [calls[p] EXCEPT !.pc = "over"]
  <2>1. PICK w \in Pages : w = calls[p].by
    BY <1>1 DEF Calls
  <2>2. /\ fetches(w) /\ UNCHANGED versions
        /\ calls' = [q \in Presses |-> IF q = p THEN done
                                       ELSE IF calls[q].by = w THEN gone(q) ELSE calls[q]]
    BY <1>3, <2>1 DEF Saved, definitionVars
  <2>3. \A q \in Presses : /\ gone(q) \in Calls /\ gone(q).here = FALSE /\ gone(q).by = calls[q].by
                           /\ gone(q).pc = calls[q].pc /\ gone(q).doc = calls[q].doc
    BY <1>1 DEF Calls
  <2>4. done \in Calls /\ done.pc = "over" /\ done.by = w
    BY <1>1, <2>1 DEF Calls, CallStates
  <2> HIDE DEF gone, done
  <2>5. calls' \in [Presses -> Calls]
    BY <1>1, <2>2, <2>3, <2>4
  <2>6. \A q \in Presses : /\ calls'[q].by = calls[q].by
                           /\ calls[q].by = w => calls'[q].pc = "over" \/ calls'[q].here = FALSE
                           /\ calls[q].by # w => calls'[q] = calls[q]
    BY <2>1, <2>2, <2>3, <2>4
  <2>7. /\ \A q \in Presses : ~Awaited(w, q)'
        /\ \A q \in Presses, v \in Pages \ {w} : Awaited(v, q)' <=> Awaited(v, q)
    BY <2>6 DEF Awaited
  <2>8. Validation'
    BY <2>2, <2>3, <2>4 DEF DesignerInv, Validation
  <2> QED
    BY <2>2, <2>5, <2>7, <2>8, QueryRefetched
<1> QED
  BY <1>2, <1>3

\* Somebody saves beside the pages, or nothing happens.
LEMMA OthersKept ==
    ASSUME DesignerInv, UNCHANGED designerVars,
           \/ \E n \in Names : \E d \in Documents[n] : store(n, d)
           \/ UNCHANGED versions
    PROVE  DesignerInv'
<1>1. /\ VersionsTyped' /\ EditionsDiffer' /\ versions'[Root] # <<>>
      /\ latest(Root) \in Nat /\ latest(Root)' \in Nat /\ latest(Root) <= latest(Root)'
  <2>1. VersionsTyped /\ Root \in Names /\ versions[Root] # <<>> /\ EditionsDiffer
    BY DEF DesignerInv
  <2>2. CASE \E n \in Names : \E d \in Documents[n] : store(n, d)
    <3>0. PICK n \in Names : \E d \in Documents[n] : store(n, d)
      BY <2>2
    <3>1. PICK d \in Documents[n] : store(n, d)
      BY <3>0
    <3>2. /\ VersionsTyped' /\ EditionsDiffer' /\ latest(Root) \in Nat /\ latest(Root)' \in Nat
          /\ latest(Root) <= latest(Root)'
      BY <2>1, <3>1, Minting
    <3> QED
      BY <2>1, <3>2 DEF latest, VersionsTyped
  <2>3. CASE UNCHANGED versions
    BY <2>1, <2>3 DEF VersionsTyped, EditionsDiffer, latest
  <2> QED
    BY <2>2, <2>3
<1>2. UNCHANGED <<query, editor, calls>>
  BY DEF designerVars
<1>3. DesignerTyped' /\ Validation'
  BY <1>2 DEF DesignerInv, DesignerTyped, Validation
<1>4. Shown'
  BY <1>1, <1>2 DEF DesignerInv, Shown, Projected
<1>5. Waiting'
  BY <1>2 DEF DesignerInv, Waiting, Awaited
<1> QED
  BY <1>1, <1>3, <1>4, <1>5 DEF DesignerInv

LEMMA DesignerStep ==
    ASSUME DesignerAssumption, DesignerInv, [DesignerNext]_<<definitionVars, designerVars>>
    PROVE  DesignerInv'
<1>1. CASE UNCHANGED <<definitionVars, designerVars>>
  BY <1>1, OthersKept DEF definitionVars
<1>2. CASE \E n \in Names : \E d \in Documents[n] : Save(n, d) /\ UNCHANGED designerVars
  BY <1>2, OthersKept DEF Save
<1>3. ASSUME NEW w \in Pages,
             \/ ServeDefinition(w) \/ Show(w) \/ QueryFails(w) \/ Reconnect(w)
             \/ \E d \in Documents[Root] : changeDocument(w, d)
             \/ \E text \in texts : changeYaml(w, text)
             \/ Parse(w)
             \/ \E p \in Presses : Press(w, p)
      PROVE  DesignerInv'
  BY <1>3, FetchesKept, FetchedAgain, EditsKept, PressKept
<1>4. ASSUME NEW p \in Presses, Validated(p) \/ Put(p) \/ Saved(p) \/ CallFails(p)
      PROVE  DesignerInv'
  BY <1>4, CallsKept, FetchedAgain
<1> QED
  BY <1>1, <1>2, <1>3, <1>4 DEF DesignerNext

LEMMA Projections ==
    DesignerInv => SavedWasValidated /\ OneSaveAtATime /\ ProjectionsAgree /\ EditionsDiffer
<1> SUFFICES ASSUME DesignerInv PROVE SavedWasValidated /\ OneSaveAtATime /\ ProjectionsAgree /\ EditionsDiffer
  OBVIOUS
<1>1. OneSaveAtATime
  <2> SUFFICES ASSUME NEW w \in Pages
               PROVE  LET here == {p \in Presses : calls[p].by = w /\ calls[p].here
                                                   /\ calls[p].pc \notin {"free", "over"}} IN
                      Cardinality(here) <= 1 /\ (editor[w].saving <=> here # {})
    BY DEF OneSaveAtATime
  <2> DEFINE here == {p \in Presses : calls[p].by = w /\ calls[p].here
                                      /\ calls[p].pc \notin {"free", "over"}}
  <2>1. here = {p \in Presses : Awaited(w, p)}
    BY DEF Awaited
  <2>2. /\ \A p, q \in here : p = q
        /\ editor[w].saving <=> here # {}
    BY <2>1 DEF DesignerInv, Waiting
  <2> HIDE DEF here
  <2>3. Cardinality(here) <= 1
    <3>1. CASE here = {}
      BY <3>1, FS_EmptySet
    <3>2. CASE here # {}
      <4>1. PICK p \in here : here = {p}
        BY <2>2, <3>2
      <4> QED
        BY <4>1, FS_Singleton
    <3> QED
      BY <3>1, <3>2
  <2> QED
    BY <2>2, <2>3 DEF here
<1>3. SavedWasValidated
  BY DEF DesignerInv, Validation, SavedWasValidated
<1>2. ProjectionsAgree
  BY DEF DesignerInv, Shown, Projected, ProjectionsAgree
<1> QED
  BY <1>1, <1>2, <1>3 DEF DesignerInv

LEMMA DesignerHolds ==
    ASSUME DefinitionsAssumption, DesignerAssumption
    PROVE  DesignerSpec => []DesignerInv
<1>1. (\E contents \in Shelves : contents[Root] # <<>> /\ DefinitionsInit(contents)) /\ DesignerInit
        => DesignerInv
  BY DesignerStart DEF DefinitionsAssumption
<1>2. DesignerInv /\ [DesignerNext]_<<definitionVars, designerVars>> => DesignerInv'
  BY DesignerStep
<1> QED
  BY <1>1, <1>2, PTL DEF DesignerSpec

\* SavedWasValidated: whatever is edited, reloaded or lost while a save is under way, what
\* it stores is what the daemon has validated.
THEOREM SavesAreValidated ==
    ASSUME DefinitionsAssumption, DesignerAssumption
    PROVE  DesignerSpec => []SavedWasValidated
<1>1. DesignerInv => SavedWasValidated
  BY Projections
<1> QED
  BY <1>1, DesignerHolds, PTL

\* OneSaveAtATime: an editor waits for at most one save, and exactly while one of its own is
\* under way; the saves of an editor it has replaced may end whenever they do.
THEOREM SavesAreAwaited ==
    ASSUME DefinitionsAssumption, DesignerAssumption
    PROVE  DesignerSpec => []OneSaveAtATime
<1>1. DesignerInv => OneSaveAtATime
  BY Projections
<1> QED
  BY <1>1, DesignerHolds, PTL

\* ProjectionsAgree: once the text is parsed and well-formed, canvas and text show one
\* document, in whatever order typing, parsing, saving and refetching come.
THEOREM ProjectionsAreOfOneDocument ==
    ASSUME DefinitionsAssumption, DesignerAssumption
    PROVE  DesignerSpec => []ProjectionsAgree
<1>1. DesignerInv => ProjectionsAgree
  BY Projections
<1> QED
  BY <1>1, DesignerHolds, PTL

--------------------------------------------------------------------------------
(* The page of a run *)

Told == [type : STRING, of : Seq(STRING), status : STRING]

FeedAssumption ==
    /\ \A s \in Scripts : s \in Seq(Told)
    /\ MaxEvents \in Nat

FeedTyped ==
    /\ script \in Scripts
    /\ row \in Nat /\ published \in Nat /\ row <= published + 1
    /\ wire \in Seq(Nat)
    /\ fetch \in [Fetches -> [pc : {"asked", "served", "idle", "failed"}, at : Nat, data : Nat]]
    /\ shown \in [Fetches -> [at : Nat, data : Nat]]

States == {e \in DOMAIN script : isState(e)}

\* What was read of the run when n events had been published: a state it has had, no
\* older than the last one that had been told.
ReadAt(n, data) ==
    /\ n <= published /\ data <= n + 1 /\ data <= row
    /\ data = 0 \/ data \in States
    /\ \A e \in States : e <= n => e <= data

\* A change of state that was told of has passed the page by, is on its way to it, or the
\* run has been read since, is to be read again, or could not be read.
HeardOf(e) ==
    \/ e \in unheard \/ e \in Range(wire)
    \/ fetch["run"].pc \in {"asked", "failed"}
    \/ fetch["run"].pc = "served" /\ e <= fetch["run"].at
    \/ fetch["run"].pc = "idle" /\ e <= shown["run"].at

FeedInv ==
    /\ FeedTyped
    /\ ReadAt(published, row)
    /\ fetch["run"].pc = "served" => ReadAt(fetch["run"].at, fetch["run"].data)
    /\ ReadAt(shown["run"].at, shown["run"].data)
    /\ \A e \in States : e <= published => HeardOf(e)

LEMMA OnTheWire ==
    ASSUME NEW w \in Seq(Nat)
    PROVE  /\ \A e \in Nat : /\ Append(w, e) \in Seq(Nat)
                             /\ Range(Append(w, e)) = Range(w) \cup {e}
           /\ w # <<>> => /\ Tail(w) \in Seq(Nat)
                          /\ \A e \in Range(w) : e = Head(w) \/ e \in Range(Tail(w))
<1>1. ASSUME NEW e \in Nat
      PROVE  Append(w, e) \in Seq(Nat) /\ Range(Append(w, e)) = Range(w) \cup {e}
  <2> DEFINE longer == Append(w, e)
  <2>1. /\ longer \in Seq(Nat) /\ DOMAIN longer = 1..(Len(w) + 1) /\ DOMAIN w = 1..Len(w)
        /\ Len(w) \in Nat /\ longer[Len(w) + 1] = e /\ \A i \in 1..Len(w) : longer[i] = w[i]
    OBVIOUS
  <2> HIDE DEF longer
  <2>2. Range(longer) = {longer[i] : i \in 1..(Len(w) + 1)} /\ Range(w) = {w[i] : i \in 1..Len(w)}
    BY <2>1 DEF Range
  <2>3. \A x \in Range(longer) : x \in Range(w) \cup {e}
    <3> SUFFICES ASSUME NEW i \in 1..(Len(w) + 1) PROVE longer[i] \in Range(w) \cup {e}
      BY <2>2
    <3>1. i = Len(w) + 1 \/ i \in 1..Len(w)
      BY <2>1
    <3> QED
      BY <3>1, <2>1, <2>2
  <2>4. e \in Range(longer) /\ \A i \in 1..Len(w) : w[i] \in Range(longer)
    <3>1. Len(w) + 1 \in 1..(Len(w) + 1) /\ \A i \in 1..Len(w) : i \in 1..(Len(w) + 1)
      BY <2>1
    <3> QED
      BY <3>1, <2>1, <2>2
  <2>5. Range(longer) = Range(w) \cup {e}
    BY <2>2, <2>3, <2>4
  <2> QED
    BY <2>1, <2>5 DEF longer
<1>2. ASSUME w # <<>>
      PROVE  Tail(w) \in Seq(Nat) /\ \A e \in Range(w) : e = Head(w) \/ e \in Range(Tail(w))
  <2> DEFINE rest == Tail(w)
  <2>1. /\ rest \in Seq(Nat) /\ DOMAIN rest = 1..(Len(w) - 1) /\ DOMAIN w = 1..Len(w)
        /\ Len(w) \in Nat /\ Head(w) = w[1] /\ \A i \in 1..(Len(w) - 1) : rest[i] = w[i + 1]
    BY <1>2
  <2> HIDE DEF rest
  <2>2. ASSUME NEW i \in 1..Len(w) PROVE w[i] = Head(w) \/ w[i] \in Range(rest)
    <3>1. i = 1 \/ (i - 1 \in 1..(Len(w) - 1) /\ (i - 1) + 1 = i)
      BY <2>1
    <3> QED
      BY <3>1, <2>1 DEF Range
  <2> QED
    BY <2>1, <2>2 DEF Range, rest
<1> QED
  BY <1>1, <1>2

LEMMA FeedStart == ASSUME FeedAssumption, FeedInit PROVE FeedInv
<1>1. /\ published = 0 /\ row = 0 /\ wire = <<>> /\ script \in Scripts
      /\ fetch = [f \in Fetches |-> asked] /\ shown = [f \in Fetches |-> [at |-> 0, data |-> 0]]
  BY DEF FeedInit
<1>2. \A e \in States : e \in Nat \ {0}
  BY <1>1 DEF FeedAssumption, States
<1>3. asked \in [pc : {"asked", "served", "idle", "failed"}, at : Nat, data : Nat] /\ asked.pc = "asked"
  BY DEF asked
<1>4. FeedTyped
  BY <1>1, <1>3 DEF FeedTyped
<1>5. fetch["run"].pc = "asked" /\ shown["run"].at = 0 /\ shown["run"].data = 0
  BY <1>1, <1>3 DEF Fetches
<1> QED
  BY <1>1, <1>2, <1>4, <1>5 DEF FeedInv, ReadAt

LEMMA FeedStep == ASSUME FeedAssumption, FeedInv, [FeedNext]_feedVars PROVE FeedInv'
<1> DEFINE Fetch == [pc : {"asked", "served", "idle", "failed"}, at : Nat, data : Nat]
<1>1. /\ script' = script /\ States' = States
      /\ \A e \in States : e \in Nat \ {0} /\ e <= Len(script) /\ isState(e)
      /\ \A e \in Nat \ {0} : e <= Len(script) /\ isState(e) => e \in States
  <2>1. script' = script
    BY DEF FeedNext, feedVars, save, publish, streamEvents, onEvent, onError, connect, newClient,
           serve, arrive, fail
  <2>2. script \in Seq(Told)
    BY DEF FeedInv, FeedTyped, FeedAssumption
  <2> QED
    BY <2>1, <2>2 DEF States, isState
<1>2. /\ row \in Nat /\ published \in Nat /\ row <= published + 1 /\ wire \in Seq(Nat)
      /\ fetch \in [Fetches -> Fetch] /\ shown \in [Fetches -> [at : Nat, data : Nat]]
      /\ "run" \in Fetches
      /\ fetch["run"].at \in Nat /\ fetch["run"].data \in Nat
      /\ shown["run"].at \in Nat /\ shown["run"].data \in Nat
  BY DEF FeedInv, FeedTyped, Fetches
<1>3. asked \in Fetch /\ asked.pc = "asked"
  BY DEF asked
<1>4. CASE UNCHANGED feedVars
  BY <1>4 DEF FeedInv, FeedTyped, ReadAt, HeardOf, States, isState, feedVars
<1>5. CASE save
  <2>1. /\ published' = published /\ row' = published + 1 /\ row < published + 1
        /\ published + 1 <= Len(script) /\ isState(published + 1)
        /\ UNCHANGED <<wire, fetch, shown, unheard>>
    BY <1>5 DEF save, next
  <2>2. FeedTyped'
    BY <1>1, <1>2, <2>1 DEF FeedInv, FeedTyped
  <2>3. row' \in States
    BY <1>1, <1>2, <2>1
  <2>4. ReadAt(published, row)'
    BY <1>1, <1>2, <2>1, <2>3 DEF FeedInv, ReadAt
  <2>5. /\ fetch["run"].pc = "served" => ReadAt(fetch["run"].at, fetch["run"].data)'
        /\ ReadAt(shown["run"].at, shown["run"].data)'
    BY <1>1, <1>2, <2>1 DEF FeedInv, ReadAt
  <2>6. \A e \in States : HeardOf(e)' <=> HeardOf(e)
    BY <2>1 DEF HeardOf
  <2> QED
    BY <1>1, <2>1, <2>2, <2>4, <2>5, <2>6 DEF FeedInv
<1>6. CASE publish
  <2>1. /\ published' = published + 1 /\ row' = row
        /\ published + 1 <= Len(script) /\ (isState(published + 1) => row = published + 1)
        /\ UNCHANGED <<fetch, shown>>
        /\ \/ wire' = Append(wire, published + 1) /\ unheard' = unheard
           \/ unheard' = unheard \cup {published + 1} /\ wire' = wire
    BY <1>6 DEF publish, next
  <2>2. wire' \in Seq(Nat) /\ (Range(wire) \cup unheard \cup {published + 1} = Range(wire') \cup unheard')
    <3>1. CASE wire' = Append(wire, published + 1) /\ unheard' = unheard
      BY <3>1, <1>2, OnTheWire, published + 1 \in Nat
    <3>2. CASE unheard' = unheard \cup {published + 1} /\ wire' = wire
      BY <3>2, <1>2
    <3> QED
      BY <2>1, <3>1, <3>2
  <2>3. FeedTyped'
    BY <1>1, <1>2, <2>1, <2>2 DEF FeedInv, FeedTyped
  <2>4. ReadAt(published, row)'
    BY <1>1, <1>2, <2>1 DEF FeedInv, ReadAt
  <2>5. /\ fetch["run"].pc = "served" => ReadAt(fetch["run"].at, fetch["run"].data)'
        /\ ReadAt(shown["run"].at, shown["run"].data)'
    BY <1>1, <1>2, <2>1 DEF FeedInv, ReadAt
  <2>6. ASSUME NEW e \in States, e <= published + 1 PROVE HeardOf(e)'
    <3>1. CASE e = published + 1
      BY <3>1, <2>2 DEF HeardOf
    <3>2. CASE e # published + 1
      <4>1. HeardOf(e)
        BY <3>2, <1>1, <1>2, <2>6 DEF FeedInv
      <4> QED
        BY <4>1, <2>1, <2>2 DEF HeardOf
    <3> QED
      BY <3>1, <3>2
  <2> QED
    BY <1>1, <2>1, <2>3, <2>4, <2>5, <2>6 DEF FeedInv
<1>7. ASSUME UNCHANGED <<row, published>>, wire' \in Seq(Nat), fetch' \in [Fetches -> Fetch],
             shown' \in [Fetches -> [at : Nat, data : Nat]],
             fetch'["run"].pc = "served" => ReadAt(fetch'["run"].at, fetch'["run"].data),
             ReadAt(shown'["run"].at, shown'["run"].data),
             \A e \in States : e <= published /\ HeardOf(e) => HeardOf(e)'
      PROVE  FeedInv'
  <2>1. FeedTyped'
    BY <1>1, <1>2, <1>7 DEF FeedInv, FeedTyped
  <2>2. ReadAt(published, row)'
    BY <1>1, <1>7 DEF FeedInv, ReadAt
  <2>3. /\ fetch'["run"].pc = "served" => ReadAt(fetch["run"].at, fetch["run"].data)'
        /\ ReadAt(shown["run"].at, shown["run"].data)'
    BY <1>1, <1>7 DEF ReadAt
  <2>4. \A e \in States : e <= published => HeardOf(e)'
    BY <1>7 DEF FeedInv
  <2> QED
    BY <1>1, <1>7, <2>1, <2>2, <2>3, <2>4 DEF FeedInv
<1>8. ReadAt(shown["run"].at, shown["run"].data)
  BY DEF FeedInv
<1>9. CASE streamEvents \/ connect
  BY <1>2, <1>7, <1>8, <1>9 DEF streamEvents, connect, FeedInv, HeardOf
<1>10. CASE onEvent
  <2>1. wire # <<>> /\ wire' = Tail(wire) /\ UNCHANGED <<row, published, shown, unheard>>
        /\ fetch' = IF isState(Head(wire)) THEN [fetch EXCEPT !["run"] = asked] ELSE fetch
    BY <1>10 DEF onEvent, reloaded
  <2>2. /\ wire' \in Seq(Nat) /\ fetch' \in [Fetches -> Fetch]
        /\ \A e \in Range(wire) : e = Head(wire) \/ e \in Range(wire')
    <3>1. fetch' \in [Fetches -> Fetch]
      BY <1>2, <1>3, <2>1
    <3> QED
      BY <1>2, <2>1, <3>1, OnTheWire
  <2>3. fetch'["run"] = fetch["run"] \/ fetch'["run"].pc = "asked"
    BY <1>2, <1>3, <2>1
  <2>4. isState(Head(wire)) => fetch'["run"].pc = "asked"
    BY <1>2, <1>3, <2>1
  <2>5. \A e \in States : HeardOf(e) => HeardOf(e)'
    BY <1>1, <2>1, <2>2, <2>3, <2>4 DEF HeardOf
  <2>6. fetch'["run"].pc = "served" => ReadAt(fetch'["run"].at, fetch'["run"].data)
    BY <2>3 DEF FeedInv
  <2> QED
    BY <1>2, <1>7, <1>8, <2>1, <2>2, <2>5, <2>6
<1>11. CASE onError
  <2>1. wire' = <<>> /\ unheard' = unheard \cup Range(wire) /\ UNCHANGED <<row, published, fetch, shown>>
    BY <1>11 DEF onError
  <2>2. \A e \in States : HeardOf(e) => HeardOf(e)'
    BY <2>1 DEF HeardOf
  <2> QED
    BY <1>2, <1>7, <1>8, <2>1, <2>2 DEF FeedInv
<1>12. CASE newClient
  <2>1. /\ wire' = <<>> /\ fetch' = [f \in Fetches |-> asked] /\ UNCHANGED <<row, published, shown>>
    BY <1>12 DEF newClient
  <2>2. fetch' \in [Fetches -> Fetch] /\ fetch'["run"].pc = "asked"
    BY <1>2, <1>3, <2>1
  <2>3. \A e \in States : HeardOf(e)'
    BY <2>2 DEF HeardOf
  <2> QED
    BY <1>2, <1>7, <1>8, <2>1, <2>2, <2>3
<1>13. ASSUME NEW f \in Fetches, serve(f) PROVE FeedInv'
  <2> DEFINE served == [pc |-> "served", at |-> published, data |-> IF f = "run" THEN row ELSE published]
  <2>1. fetch[f].pc = "asked" /\ fetch' = [fetch EXCEPT ![f] = served]
        /\ UNCHANGED <<row, published, wire, shown, unheard>>
    BY <1>13 DEF serve
  <2>2. /\ served \in Fetch /\ served.pc = "served" /\ served.at = published
        /\ f = "run" => served.data = row
    BY <1>2
  <2> HIDE DEF served
  <2>3. fetch' \in [Fetches -> Fetch] /\ fetch'["run"] = IF f = "run" THEN served ELSE fetch["run"]
    BY <1>2, <2>1, <2>2
  <2>4. fetch'["run"].pc = "served" => ReadAt(fetch'["run"].at, fetch'["run"].data)
    BY <2>2, <2>3 DEF FeedInv
  <2>5. \A e \in States : e <= published /\ HeardOf(e) => HeardOf(e)'
    BY <2>1, <2>2, <2>3 DEF HeardOf
  <2> QED
    BY <1>2, <1>7, <1>8, <2>1, <2>3, <2>4, <2>5
<1>14. ASSUME NEW f \in Fetches, arrive(f) PROVE FeedInv'
  <2> DEFINE now == [fetch[f] EXCEPT !.pc = "idle"]
             new == [at |-> fetch[f].at, data |-> fetch[f].data]
  <2>1. fetch[f].pc = "served" /\ fetch' = [fetch EXCEPT ![f] = now] /\ shown' = [shown EXCEPT ![f] = new]
        /\ UNCHANGED <<row, published, wire, unheard>>
    BY <1>14 DEF arrive
  <2>2. now \in Fetch /\ now.pc = "idle" /\ new \in [at : Nat, data : Nat]
        /\ new.at = fetch[f].at /\ new.data = fetch[f].data
    BY <1>2
  <2> HIDE DEF now, new
  <2>3. /\ fetch' \in [Fetches -> Fetch] /\ shown' \in [Fetches -> [at : Nat, data : Nat]]
        /\ fetch'["run"] = IF f = "run" THEN now ELSE fetch["run"]
        /\ shown'["run"] = IF f = "run" THEN new ELSE shown["run"]
    BY <1>2, <2>1, <2>2
  <2>4. /\ fetch'["run"].pc = "served" => ReadAt(fetch'["run"].at, fetch'["run"].data)
        /\ ReadAt(shown'["run"].at, shown'["run"].data)
    BY <2>1, <2>2, <2>3, <1>8 DEF FeedInv
  <2>5. \A e \in States : HeardOf(e) => HeardOf(e)'
    BY <2>1, <2>2, <2>3 DEF HeardOf
  <2> QED
    BY <1>2, <1>7, <2>1, <2>3, <2>4, <2>5
<1>15. ASSUME NEW f \in Fetches, fail(f) PROVE FeedInv'
  <2> DEFINE now == [fetch[f] EXCEPT !.pc = "failed"]
  <2>1. fetch' = [fetch EXCEPT ![f] = now] /\ UNCHANGED <<row, published, wire, shown, unheard>>
    BY <1>15 DEF fail
  <2>2. now \in Fetch /\ now.pc = "failed"
    BY <1>2
  <2> HIDE DEF now
  <2>3. /\ fetch' \in [Fetches -> Fetch]
        /\ fetch'["run"] = IF f = "run" THEN now ELSE fetch["run"]
    BY <1>2, <2>1, <2>2
  <2>4. fetch'["run"].pc = "served" => ReadAt(fetch'["run"].at, fetch'["run"].data)
    BY <2>2, <2>3 DEF FeedInv
  <2>5. \A e \in States : HeardOf(e) => HeardOf(e)'
    BY <2>1, <2>2, <2>3 DEF HeardOf
  <2> QED
    BY <1>2, <1>7, <1>8, <2>1, <2>3, <2>4, <2>5
<1> QED
  BY <1>4, <1>5, <1>6, <1>9, <1>10, <1>11, <1>12, <1>13, <1>14, <1>15 DEF FeedNext

\* At rest the last change that was told of has been read, unless it has passed the page by.
LEMMA ShownAtRest == FeedInv => RunShownAsIs
<1> SUFFICES ASSUME FeedInv, AtRest, \A e \in unheard : isState(e) => e <= shown["run"].at,
                    row # next
             PROVE  shown["run"].data = row
  BY DEF RunShownAsIs
<1>1. /\ wire = <<>> /\ fetch["run"].pc = "idle" /\ row \in Nat /\ published \in Nat
      /\ row <= published /\ shown["run"].at \in Nat /\ shown["run"].data \in Nat
  BY DEF AtRest, Fetches, FeedInv, FeedTyped, next
<1>2. shown["run"].data <= row /\ (row = 0 \/ row \in States)
  BY DEF FeedInv, ReadAt
<1>3. CASE row \in States
  <2>1. HeardOf(row)
    BY <1>1, <1>3 DEF FeedInv
  <2>2. Range(wire) = {}
    BY <1>1 DEF Range
  <2>3. row <= shown["run"].at
    BY <1>1, <1>3, <2>1, <2>2 DEF HeardOf, States
  <2>4. row <= shown["run"].data
    BY <1>3, <2>3 DEF FeedInv, ReadAt
  <2> QED
    BY <1>1, <1>2, <2>4
<1> QED
  BY <1>1, <1>2, <1>3

\* RunShownAsIs: a page that has come to rest shows the state the run is in, whatever of the
\* feed was lost, seen twice or reread from a cursor, and whatever fetch was late; only a
\* change that it could not be told of, or that is saved and not told of yet, is missing.
THEOREM RunIsShownAsItIs ==
    ASSUME FeedAssumption
    PROVE  FeedSpec => []RunShownAsIs
<1>1. FeedInit => FeedInv
  BY FeedStart
<1>2. FeedInv /\ [FeedNext]_feedVars => FeedInv'
  BY FeedStep
<1>3. FeedInv => RunShownAsIs
  BY ShownAtRest
<1> QED
  BY <1>1, <1>2, <1>3, PTL DEF FeedSpec

--------------------------------------------------------------------------------
(* The events and the timeline of the page *)

\* What holds of nothing done and is kept by each step holds after any number of them.
LEMMA UpTo ==
    ASSUME NEW n \in Nat, NEW G, 0 \in G, \A m \in 1..n : m - 1 \in G => m \in G
    PROVE  \A m \in 0..n : m \in G
<1> DEFINE Bad == {m \in 0..n : m \notin G}
<1> SUFFICES ASSUME Bad # {} PROVE FALSE
  OBVIOUS
<1>1. \A m, k \in Nat : <<m, k>> \in OpToRel(<, Nat) <=> m < k
  BY DEF OpToRel
<1>2. Bad \in SUBSET Nat
  OBVIOUS
<1>3. PICK m \in Bad : \A k \in Bad : <<k, m>> \notin OpToRel(<, Nat)
  <2> HIDE DEF Bad
  <2> QED BY <1>2, NatLessThanWellFounded, WFMin, Zenon
<1>4. m \in 1..n /\ m - 1 \in 0..n
  <2>1. m \in 0..n /\ m # 0
    OBVIOUS
  <2> QED BY <2>1
<1>5. m - 1 \notin Bad
  <2>1. m - 1 \in Nat /\ m \in Nat /\ m - 1 < m
    BY <1>4
  <2> HIDE DEF Bad
  <2> QED BY <1>1, <1>3, <2>1
<1> QED
  BY <1>3, <1>4, <1>5

Follows(f, n, base, step) == f[0] = base /\ \A i \in 1..n : f[i] = step[<<f[i - 1], i>>]

\* A recursion along a sequence has a solution.
LEMMA Recursion ==
    ASSUME NEW n \in Nat, NEW T, NEW base \in T, NEW step \in [T \X (1..n) -> T]
    PROVE  \E f \in [0..n -> T] : Follows(f, n, base, step)
<1> DEFINE Solves(f, m) == /\ f \in [0..m -> T] /\ f[0] = base
                           /\ \A i \in 1..m : f[i] = step[<<f[i - 1], i>>]
           G == {m \in 0..n : \E f : Solves(f, m)}
<1>1. 0 \in G
  <2>1. Solves([i \in 0..0 |-> base], 0)
    OBVIOUS
  <2> HIDE DEF Solves
  <2> QED BY <2>1
<1>2. ASSUME NEW m \in 1..n, m - 1 \in G PROVE m \in G
  <2>1. PICK f : Solves(f, m - 1)
    <3> HIDE DEF Solves
    <3> QED BY <1>2
  <2>2. /\ f \in [0..(m - 1) -> T] /\ f[0] = base
        /\ \A i \in 1..(m - 1) : f[i] = step[<<f[i - 1], i>>]
    BY <2>1
  <2> DEFINE g == [i \in 0..m |-> IF i = m THEN step[<<f[m - 1], m>>] ELSE f[i]]
  <2>3. /\ m # 0 /\ \A i \in 0..m : i # m => i \in 0..(m - 1)
        /\ m - 1 \in 0..(m - 1) /\ m \in 0..m /\ m - 1 \in 0..m /\ m - 1 # m /\ 0 \in 0..m
    BY <1>2
  <2>4. f[m - 1] \in T
    BY <2>2, <2>3
  <2>5. step[<<f[m - 1], m>>] \in T
    BY <2>4
  <2>6. g \in [0..m -> T] /\ g[0] = base
    BY <2>2, <2>3, <2>5
  <2>7. ASSUME NEW i \in 1..m PROVE g[i] = step[<<g[i - 1], i>>]
    <3>1. CASE i = m
      BY <2>3, <3>1
    <3>2. CASE i # m
      <4>1. i \in 1..(m - 1) /\ i \in 0..m /\ i - 1 \in 0..m /\ i - 1 # m
        BY <3>2
      <4>2. g[i] = f[i] /\ g[i - 1] = f[i - 1]
        BY <3>2, <4>1
      <4> QED BY <2>2, <4>1, <4>2
    <3> QED BY <3>1, <3>2
  <2>8. Solves(g, m)
    BY <2>6, <2>7
  <2> HIDE DEF Solves
  <2> QED BY <2>8
<1>3. n \in G
  <2> HIDE DEF G
  <2>1. \A m \in 0..n : m \in G
    BY <1>1, <1>2, UpTo
  <2> QED BY <2>1
<1> QED
  BY <1>3 DEF Follows

Increasing(s) == \A i, j \in DOMAIN s : i < j => s[i] < s[j]

\* What stands behind the last of an increasing sequence makes it an increasing one.
LEMMA Longer ==
    ASSUME NEW s \in Seq(Nat), Increasing(s), NEW e \in Nat, \A x \in Range(s) : x < e
    PROVE  Increasing(Append(s, e))
<1> DEFINE more == Append(s, e)
<1>1. /\ DOMAIN more = 1..(Len(s) + 1) /\ DOMAIN s = 1..Len(s) /\ Len(s) \in Nat
      /\ more[Len(s) + 1] = e /\ \A i \in 1..Len(s) : more[i] = s[i] /\ s[i] \in Range(s)
  BY DEF Range
<1> HIDE DEF more
<1>2. ASSUME NEW i \in DOMAIN more, NEW j \in DOMAIN more, i < j PROVE more[i] < more[j]
  <2>1. i \in 1..Len(s) /\ (j \in 1..Len(s) \/ j = Len(s) + 1)
    BY <1>1, <1>2
  <2>2. CASE j \in 1..Len(s)
    BY <1>1, <1>2, <2>1, <2>2 DEF Increasing
  <2>3. CASE j = Len(s) + 1
    BY <1>1, <2>1, <2>3
  <2> QED BY <2>1, <2>2, <2>3
<1> QED
  BY <1>2 DEF Increasing, more

\* The history and what of the rest was heard, each once and in order.
LEMMA Merged ==
    ASSUME NEW h \in Nat, shown["history"].data = h,
           NEW heard \in Seq(Nat), Increasing(heard), \A e \in Range(heard) : e > 0
    PROVE  /\ allEvents(heard) \in Seq(Nat) /\ Increasing(allEvents(heard))
           /\ Range(allEvents(heard)) = 1..h \cup Range(heard)
<1> DEFINE n == Len(heard)
           first == [e \in 1..h |-> e]
           Body(seen, i) == IF heard[i] \in Range(seen) THEN seen ELSE Append(seen, heard[i])
           Solves(g) == g = [i \in 0..n |-> IF i = 0 THEN first ELSE Body(g[i - 1], i)]
           step == [p \in Seq(Nat) \X (1..n) |-> Body(p[1], p[2])]
<1>1. n \in Nat /\ DOMAIN heard = 1..n /\ \A i \in 1..n : heard[i] \in Nat /\ heard[i] > 0 /\ heard[i] \in Range(heard)
  BY DEF Range
<1>2. first \in Seq(Nat) /\ Increasing(first) /\ Range(first) = 1..h
  BY DEF Increasing, Range
<1> HIDE DEF n, first
<1>3. step \in [Seq(Nat) \X (1..n) -> Seq(Nat)]
  <2>1. ASSUME NEW seen \in Seq(Nat), NEW i \in 1..n PROVE Body(seen, i) \in Seq(Nat)
    BY <1>1
  <2> HIDE DEF Body
  <2> QED BY <2>1
<1>4. PICK f \in [0..n -> Seq(Nat)] : f[0] = first /\ \A i \in 1..n : f[i] = step[<<f[i - 1], i>>]
  <2> HIDE DEF step
  <2>1. PICK T : T = Seq(Nat)
    OBVIOUS
  <2>2. n \in Nat /\ first \in T /\ step \in [T \X (1..n) -> T]
    BY <1>1, <1>2, <1>3, <2>1
  <2>3. \E f \in [0..n -> T] : Follows(f, n, first, step)
    BY <2>2, Recursion
  <2> QED BY <2>1, <2>3 DEF Follows
<1>5. \A i \in 1..n : f[i] = Body(f[i - 1], i)
  <2> SUFFICES ASSUME NEW i \in 1..n PROVE f[i] = Body(f[i - 1], i)
    OBVIOUS
  <2>1. f[i - 1] \in Seq(Nat)
    BY <1>1
  <2>2. step[<<f[i - 1], i>>] = Body(f[i - 1], i)
    <3> HIDE DEF Body
    <3> QED BY <2>1
  <2> HIDE DEF step, Body
  <2> QED BY <1>4, <2>2
<1>6. Solves(f)
  <2>1. \A i \in 0..n : f[i] = IF i = 0 THEN first ELSE Body(f[i - 1], i)
    <3> HIDE DEF Body, step
    <3>1. \A i \in 0..n : i = 0 \/ i \in 1..n
      BY <1>1
    <3> QED BY <1>4, <1>5, <3>1
  <2> HIDE DEF Body, step
  <2> QED BY <2>1
<1>7. PICK g : Solves(g) /\ allEvents(heard) = g[n]
  <2>1. allEvents(heard) = (CHOOSE g : Solves(g))[n]
    BY DEF allEvents, listForRun, n, first
  <2>2. Solves(CHOOSE g : Solves(g))
    <3> HIDE DEF Solves
    <3> QED BY <1>6
  <2> HIDE DEF Solves
  <2> QED BY <2>1, <2>2
<1>8. g[0] = first /\ \A i \in 1..n : g[i] = Body(g[i - 1], i)
  <2> HIDE DEF Body
  <2>1. \A i \in 0..n : g[i] = IF i = 0 THEN first ELSE Body(g[i - 1], i)
    BY <1>7
  <2>2. 0 \in 0..n /\ \A i \in 1..n : i \in 0..n /\ i # 0
    BY <1>1
  <2> QED BY <2>1, <2>2
<1> DEFINE Good(m) == /\ g[m] \in Seq(Nat) /\ Increasing(g[m])
                      /\ Range(g[m]) = 1..h \cup {heard[i] : i \in 1..m}
           G == {m \in 0..n : Good(m)}
<1>9. 0 \in G
  BY <1>1, <1>2, <1>8
<1>10. ASSUME NEW m \in 1..n, m - 1 \in G PROVE m \in G
  <2>1. /\ g[m - 1] \in Seq(Nat) /\ Increasing(g[m - 1])
        /\ Range(g[m - 1]) = 1..h \cup {heard[i] : i \in 1..(m - 1)}
    BY <1>10
  <2>2. {heard[i] : i \in 1..m} = {heard[i] : i \in 1..(m - 1)} \cup {heard[m]}
    <3>1. \A i \in 1..m : i \in 1..(m - 1) \/ i = m
      BY <1>1
    <3>2. m \in 1..m /\ \A i \in 1..(m - 1) : i \in 1..m
      BY <1>1
    <3> QED BY <3>1, <3>2
  <2>3. CASE heard[m] \in Range(g[m - 1])
    <3>1. g[m] = g[m - 1]
      BY <1>8, <2>3
    <3>2. Range(g[m]) = 1..h \cup {heard[i] : i \in 1..m}
      BY <2>1, <2>2, <2>3, <3>1
    <3> QED BY <1>1, <2>1, <3>1, <3>2
  <2>4. CASE heard[m] \notin Range(g[m - 1])
    <3>1. g[m] = Append(g[m - 1], heard[m]) /\ heard[m] \in Nat
      BY <1>1, <1>8, <2>4
    <3>2. \A x \in Range(g[m - 1]) : x < heard[m]
      <4>1. \A x \in 1..h : x < heard[m]
        BY <1>1, <2>1, <2>4
      <4>2. \A i \in 1..(m - 1) : heard[i] < heard[m]
        <5>1. \A i \in 1..(m - 1) : i \in DOMAIN heard /\ m \in DOMAIN heard /\ i < m
          BY <1>1
        <5> QED BY <5>1 DEF Increasing
      <4> QED BY <2>1, <4>1, <4>2
    <3>3. Increasing(g[m])
      BY <2>1, <3>1, <3>2, Longer
    <3>4. g[m] \in Seq(Nat) /\ Range(g[m]) = Range(g[m - 1]) \cup {heard[m]}
      BY <2>1, <3>1, OnTheWire
    <3>5. Range(g[m]) = 1..h \cup {heard[i] : i \in 1..m}
      BY <2>1, <2>2, <3>4
    <3>6. m \in 0..n
      BY <1>1
    <3>7. Good(m)
      BY <3>3, <3>4, <3>5
    <3> HIDE DEF Good
    <3> QED BY <3>6, <3>7
  <2> QED BY <2>3, <2>4
<1>11. n \in G
  <2> HIDE DEF G
  <2>1. \A m \in 0..n : m \in G
    BY <1>1, <1>9, <1>10, UpTo
  <2> QED BY <1>1, <2>1
<1>12. {heard[i] : i \in 1..n} = Range(heard)
  BY <1>1 DEF Range
<1> QED
  BY <1>7, <1>11, <1>12

LEMMA KeptLast ==
    ASSUME MaxEvents \in Nat, NEW s \in Seq(Nat), Increasing(s)
    PROVE  keepLast(s) \in Seq(Nat) /\ Increasing(keepLast(s)) /\ Range(keepLast(s)) \subseteq Range(s)
<1>1. CASE Len(s) > MaxEvents
  <2> DEFINE from == Len(s) - MaxEvents
             k == SubSeq(s, from + 1, Len(s))
  <2>1. Len(s) \in Nat /\ from \in 1..Len(s) /\ from + MaxEvents = Len(s)
        /\ \A i \in 1..Len(s) : s[i] \in Nat /\ s[i] \in Range(s)
    BY <1>1 DEF Range
  <2>2. /\ k \in Seq(Nat) /\ DOMAIN k = 1..MaxEvents
        /\ \A i \in 1..MaxEvents : from + i \in 1..Len(s) /\ k[i] = s[from + i]
    BY <1>1, <2>1
  <2>3. keepLast(s) = k
    BY <1>1 DEF keepLast
  <2> HIDE DEF k, from
  <2>4. ASSUME NEW i \in DOMAIN k, NEW j \in DOMAIN k, i < j PROVE k[i] < k[j]
    <3>1. i \in 1..MaxEvents /\ j \in 1..MaxEvents
      BY <2>2
    <3>2. from \in Nat /\ i \in Nat /\ j \in Nat
      BY <2>1, <3>1
    <3>3. DOMAIN s = 1..Len(s)
      OBVIOUS
    <3>4. from + i \in DOMAIN s /\ from + j \in DOMAIN s
      BY <2>2, <3>1, <3>3
    <3>5. from + i < from + j
      BY <2>4, <3>2
    <3> QED BY <2>2, <3>1, <3>4, <3>5 DEF Increasing
  <2>5. Range(k) \subseteq Range(s)
    BY <2>1, <2>2 DEF Range
  <2> QED BY <2>2, <2>3, <2>4, <2>5 DEF Increasing
<1>2. CASE ~(Len(s) > MaxEvents)
  BY <1>2 DEF keepLast
<1> QED
  BY <1>1, <1>2

LEMMA HeardFirst ==
    ASSUME NEW w \in Seq(Nat), w # <<>>, Increasing(w)
    PROVE  /\ Tail(w) \in Seq(Nat) /\ Increasing(Tail(w)) /\ Head(w) \in Nat
           /\ Head(w) \in Range(w) /\ Range(Tail(w)) \subseteq Range(w)
           /\ \A e \in Range(Tail(w)) : Head(w) < e
<1> DEFINE rest == Tail(w)
<1>1. /\ rest \in Seq(Nat) /\ DOMAIN rest = 1..(Len(w) - 1) /\ DOMAIN w = 1..Len(w)
      /\ Len(w) \in Nat \ {0} /\ Head(w) = w[1] /\ w[1] \in Nat
      /\ \A i \in 1..(Len(w) - 1) : rest[i] = w[i + 1]
  <2>1. Len(w) \in Nat \ {0} /\ DOMAIN w = 1..Len(w)
    OBVIOUS
  <2>2. Head(w) = w[1] /\ w[1] \in Nat
    BY <2>1
  <2>3. rest \in Seq(Nat) /\ Len(rest) = Len(w) - 1
    BY <2>1
  <2>4. DOMAIN rest = 1..(Len(w) - 1)
    <3> HIDE DEF rest
    <3> QED BY <2>3
  <2>5. \A i \in 1..(Len(w) - 1) : rest[i] = w[i + 1]
    BY <2>1
  <2> QED BY <2>1, <2>2, <2>3, <2>4, <2>5
<1> HIDE DEF rest
<1>2. \A i \in DOMAIN rest : rest[i] = w[i + 1] /\ i + 1 \in DOMAIN w /\ i \in Nat /\ 1 < i + 1
  BY <1>1
<1>3. Increasing(rest)
  <2>1. ASSUME NEW i \in DOMAIN rest, NEW j \in DOMAIN rest, i < j PROVE rest[i] < rest[j]
    <3>1. i + 1 < j + 1
      BY <1>2, <2>1
    <3> QED BY <1>2, <3>1 DEF Increasing
  <2> QED BY <2>1 DEF Increasing
<1>4. 1 \in DOMAIN w
  BY <1>1
<1>5. \A i \in DOMAIN rest : rest[i] \in Range(w) /\ Head(w) < rest[i]
  BY <1>1, <1>2, <1>4 DEF Increasing, Range
<1>6. Range(rest) = {rest[i] : i \in DOMAIN rest} /\ Head(w) \in Range(w)
  BY <1>1, <1>4 DEF Range
<1> QED
  BY <1>1, <1>3, <1>5, <1>6 DEF rest

\* What was heard and what is on its way was published in this order.
OrderInv ==
    /\ live \in Seq(Nat) /\ Increasing(live) /\ Increasing(wire)
    /\ \A e \in Range(live) \cup Range(wire) : e > 0 /\ e <= published
    /\ \A e \in Range(live), d \in Range(wire) : e < d

LEMMA NothingYet == Increasing(<<>>) /\ <<>> \in Seq(Nat) /\ Range(<<>>) = {}
BY DEF Increasing, Range

LEMMA OrderStep ==
    ASSUME FeedAssumption, FeedInv, OrderInv, [FeedNext]_feedVars PROVE OrderInv'
<1>1. published \in Nat /\ wire \in Seq(Nat) /\ live \in Seq(Nat) /\ MaxEvents \in Nat
  BY DEF FeedInv, FeedTyped, OrderInv, FeedAssumption
<1>2. CASE UNCHANGED <<published, wire, live>>
  BY <1>2 DEF OrderInv
<1>3. CASE publish
  <2>1. /\ published' = published + 1 /\ live' = live
        /\ wire' = Append(wire, published + 1) \/ wire' = wire
    BY <1>3 DEF publish, next
  <2>2. CASE wire' = wire
    <3>1. \A e \in Range(live) \cup Range(wire) : e \in Nat
      BY <1>1 DEF Range
    <3>2. \A e \in Range(live) \cup Range(wire) : e > 0 /\ e <= published + 1
      BY <1>1, <3>1 DEF OrderInv
    <3> QED BY <2>1, <2>2, <3>2 DEF OrderInv
  <2>3. CASE wire' = Append(wire, published + 1)
    <3>1. published + 1 \in Nat /\ \A e \in Range(wire) \cup Range(live) : e \in Nat => e < published + 1
      BY <1>1 DEF OrderInv
    <3>2. /\ \A e \in Range(wire) : e \in Nat /\ e > 0 /\ e <= published
          /\ \A e \in Range(live) : e \in Nat /\ e > 0 /\ e <= published
      BY <1>1 DEF OrderInv, Range
    <3>3. Range(wire') = Range(wire) \cup {published + 1}
      BY <1>1, <2>3, <3>1, OnTheWire
    <3>4. Increasing(wire')
      BY <1>1, <2>3, <3>1, <3>2, Longer DEF OrderInv
    <3>5. \A e \in Range(live'), d \in Range(wire') : e < d
      BY <2>1, <3>1, <3>2, <3>3 DEF OrderInv
    <3>6. \A e \in Range(live') \cup Range(wire') : e > 0 /\ e <= published'
      BY <1>1, <2>1, <3>2, <3>3
    <3> QED BY <2>1, <3>4, <3>5, <3>6 DEF OrderInv
  <2> QED BY <2>1, <2>2, <2>3
<1>4. CASE onEvent
  <2> DEFINE longer == Append(live, Head(wire))
  <2>1. wire # <<>> /\ wire' = Tail(wire) /\ live' = keepLast(longer) /\ published' = published
    BY <1>4 DEF onEvent
  <2>2. /\ wire' \in Seq(Nat) /\ Increasing(wire') /\ Head(wire) \in Nat /\ Head(wire) \in Range(wire)
        /\ Range(wire') \subseteq Range(wire) /\ \A e \in Range(wire') : Head(wire) < e
    BY <1>1, <2>1, HeardFirst DEF OrderInv
  <2>3. /\ longer \in Seq(Nat) /\ Range(longer) = Range(live) \cup {Head(wire)}
    BY <1>1, <2>2, OnTheWire
  <2>4. Increasing(longer)
    BY <1>1, <2>2, Longer DEF OrderInv
  <2> HIDE DEF longer
  <2>5. live' \in Seq(Nat) /\ Increasing(live') /\ Range(live') \subseteq Range(live) \cup {Head(wire)}
    BY <1>1, <2>1, <2>3, <2>4, KeptLast
  <2>6. \A e \in Range(live') \cup Range(wire') : e \in Range(live) \cup Range(wire)
    BY <2>2, <2>5
  <2>7. \A e \in Range(live'), d \in Range(wire') : e < d
    BY <2>2, <2>5 DEF OrderInv
  <2> QED BY <2>1, <2>2, <2>5, <2>6, <2>7 DEF OrderInv
<1>5. CASE onError
  BY <1>5, NothingYet DEF onError, OrderInv
<1>6. CASE newClient
  BY <1>6, NothingYet DEF newClient, OrderInv
<1> QED
  BY <1>2, <1>3, <1>4, <1>5, <1>6
     DEF FeedNext, feedVars, save, streamEvents, connect, serve, arrive, fail

\* EventsInOrder: no event is shown twice, or before one that was published earlier, whatever
\* of the history and of the feed has arrived, in any order, and however often the stream
\* was lost.
THEOREM EventsAreInOrder ==
    ASSUME FeedAssumption
    PROVE  FeedSpec => []EventsInOrder
<1>1. FeedInit => FeedInv
  BY FeedStart
<1>2. FeedInit => OrderInv
  BY NothingYet DEF FeedInit, OrderInv
<1>3. FeedInv /\ [FeedNext]_feedVars => FeedInv'
  BY FeedStep
<1>4. FeedInv /\ OrderInv /\ [FeedNext]_feedVars => OrderInv'
  BY OrderStep
<1>5. FeedInv /\ OrderInv => EventsInOrder
  <2> SUFFICES ASSUME FeedInv, OrderInv PROVE EventsInOrder
    OBVIOUS
  <2>1. shown["history"].data \in Nat
    BY DEF FeedInv, FeedTyped, Fetches
  <2>2. Increasing(allEvents(live))
    BY <2>1, Merged DEF OrderInv
  <2> QED BY <2>2 DEF EventsInOrder, Increasing
<1> QED
  BY <1>1, <1>2, <1>3, <1>4, <1>5, PTL DEF FeedSpec

\* A set of places has a last one.
LEMMA LastOne ==
    ASSUME NEW n \in Nat, NEW S \in SUBSET (1..n), S # {}
    PROVE  \E m \in S : \A j \in S : j <= m
<1> DEFINE D == {n - i : i \in S}
<1>1. \A m, k \in Nat : <<m, k>> \in OpToRel(<, Nat) <=> m < k
  BY DEF OpToRel
<1>2. D \in SUBSET Nat /\ D # {}
  <2>1. PICK i \in S : i \in 1..n
    OBVIOUS
  <2>2. n - i \in D /\ \A j \in S : n - j \in Nat
    OBVIOUS
  <2> QED BY <2>2
<1>3. PICK d \in D : \A k \in D : <<k, d>> \notin OpToRel(<, Nat)
  <2> HIDE DEF D
  <2> QED BY <1>2, NatLessThanWellFounded, WFMin, Zenon
<1>4. \A k \in D : d <= k
  <2> SUFFICES ASSUME NEW k \in D PROVE d <= k
    OBVIOUS
  <2>1. d \in Nat /\ k \in Nat /\ ~(k < d)
    <3> HIDE DEF D
    <3> QED BY <1>1, <1>2, <1>3
  <2> HIDE DEF D
  <2> QED BY <2>1
<1>5. PICK m \in S : d = n - m
  OBVIOUS
<1>6. ASSUME NEW j \in S PROVE j <= m
  <2>1. n - j \in D /\ m \in 1..n /\ j \in 1..n
    OBVIOUS
  <2> HIDE DEF D
  <2>2. n - m <= n - j
    BY <1>4, <1>5, <2>1
  <2> QED BY <2>1, <2>2
<1> QED
  BY <1>6

alike(x, y) == x.type = y.type /\ x.of = y.of
isEntry(x) == x.type \in {"step", "tool"}

\* An event told adds an entry, takes the place of one that is alike, goes on with a text,
\* or leaves the timeline.
LEMMA TimelineStep ==
    ASSUME NEW t \in Seq(Told), NEW e, script[e] \in Told
    PROVE  /\ timelineWith(t, e) \in Seq(Told)
           /\ \A x \in Range(t) : isEntry(x) =>
                 \/ x \in Range(timelineWith(t, e))
                 \/ alike(x, script[e]) /\ script[e] \in Range(timelineWith(t, e))
           /\ isEntry(script[e]) /\ (script[e].type = "step" \/ script[e].status = "running"
                                     \/ \E x \in Range(t) : alike(x, script[e]))
                => script[e] \in Range(timelineWith(t, e))
<1> DEFINE x == script[e]
           same == {i \in DOMAIN t : t[i].type = x.type /\ t[i].of = x.of}
           last == CHOOSE i \in same : \A j \in same : j <= i
           after == timelineWith(t, e)
           replaced == [t EXCEPT ![last] = x]
           longer == Append(t, x)
           text == [t EXCEPT ![Len(t)].of = @ \o x.of]
<1>1. /\ DOMAIN t = 1..Len(t) /\ Len(t) \in Nat /\ \A i \in DOMAIN t : t[i] \in Told
      /\ Range(t) = {t[i] : i \in DOMAIN t}
  BY DEF Range
<1>2. same # {} => last \in DOMAIN t /\ alike(t[last], x)
  <2> SUFFICES ASSUME same # {} PROVE last \in same
    BY DEF alike
  <2>1. same \in SUBSET (1..Len(t)) /\ Len(t) \in Nat
    BY <1>1
  <2> HIDE DEF same
  <2>2. \E m \in same : \A j \in same : j <= m
    BY <2>1, LastOne
  <2> QED BY <2>2
<1>3. same # {} <=> \E y \in Range(t) : alike(y, x)
  BY <1>1 DEF alike
<1>4. after = CASE x.type = "step" /\ same # {} -> replaced
                [] x.type = "tool" /\ x.status # "running" -> IF same = {} THEN t ELSE replaced
                [] x.type = "text" /\ t # <<>> /\ Last(t).type = "text" -> text
                [] x.type = "run.state.changed" -> t
                [] OTHER -> longer
  BY DEF timelineWith
<1> HIDE DEF same, last
<1>5. same # {} => /\ replaced \in Seq(Told) /\ x \in Range(replaced)
                 /\ \A y \in Range(t) : y \in Range(replaced) \/ alike(y, x)
  <2> SUFFICES ASSUME same # {} PROVE /\ replaced \in Seq(Told) /\ x \in Range(replaced)
                                    /\ \A y \in Range(t) : y \in Range(replaced) \/ alike(y, x)
    OBVIOUS
  <2>1. /\ replaced \in Seq(Told) /\ DOMAIN replaced = DOMAIN t /\ replaced[last] = x
        /\ \A i \in DOMAIN t : i # last => replaced[i] = t[i]
    BY <1>1, <1>2
  <2>2. x \in Range(replaced) /\ \A i \in DOMAIN t : i # last => t[i] \in Range(replaced)
    <3> HIDE DEF replaced
    <3> QED BY <1>2, <2>1 DEF Range
  <2> HIDE DEF replaced
  <2> QED BY <1>1, <1>2, <2>1, <2>2
<1>6. longer \in Seq(Told) /\ x \in Range(longer) /\ \A y \in Range(t) : y \in Range(longer)
  <2>1. /\ longer \in Seq(Told) /\ DOMAIN longer = 1..(Len(t) + 1) /\ longer[Len(t) + 1] = x
        /\ \A i \in DOMAIN t : longer[i] = t[i] /\ i \in DOMAIN longer
    BY <1>1
  <2>2. Len(t) + 1 \in DOMAIN longer
    BY <1>1, <2>1
  <2> HIDE DEF longer
  <2> QED BY <1>1, <2>1, <2>2 DEF Range
<1>7. ASSUME t # <<>>, Last(t).type = "text"
      PROVE  text \in Seq(Told) /\ \A y \in Range(t) : isEntry(y) => y \in Range(text)
  <2>1. Len(t) \in DOMAIN t /\ t[Len(t)].type = "text" /\ t[Len(t)] \in Told
    BY <1>1, <1>7 DEF Last
  <2> DEFINE on == [t[Len(t)] EXCEPT !.of = @ \o x.of]
  <2>2. on \in Told /\ text = [t EXCEPT ![Len(t)] = on]
    <3>1. t[Len(t)].of \in Seq(STRING) /\ x.of \in Seq(STRING)
      BY <2>1 DEF Told
    <3>2. t[Len(t)].of \o x.of \in Seq(STRING)
      BY <3>1
    <3> QED BY <2>1, <3>2 DEF Told
  <2> DEFINE gone == [t EXCEPT ![Len(t)] = on]
  <2> HIDE DEF on
  <2>3. text \in Seq(Told) /\ DOMAIN text = DOMAIN t /\ \A i \in DOMAIN t : i # Len(t) => text[i] = t[i]
    <3>1. /\ gone \in Seq(Told) /\ DOMAIN gone = DOMAIN t
          /\ \A i \in DOMAIN t : i # Len(t) => gone[i] = t[i]
      BY <1>1, <2>1, <2>2
    <3> HIDE DEF gone, text
    <3> QED BY <2>2, <3>1 DEF gone
  <2> HIDE DEF text
  <2>4. ASSUME NEW i \in DOMAIN t, isEntry(t[i]) PROVE t[i] \in Range(text)
    <3>1. i # Len(t)
      BY <2>1, <2>4 DEF isEntry
    <3>2. i \in DOMAIN text /\ text[i] = t[i]
      BY <2>3, <3>1
    <3> QED BY <3>2 DEF Range
  <2> QED BY <1>1, <2>3, <2>4
<1> HIDE DEF replaced, longer, text, x, after
<1>8. \/ after = replaced /\ same # {}
      \/ after = longer
      \/ after = text /\ t # <<>> /\ Last(t).type = "text" /\ ~isEntry(x)
      \/ after = t /\ (isEntry(x) => same = {} /\ x.type # "step" /\ x.status # "running")
  <2>1. CASE x.type = "step"
    BY <1>4, <2>1
  <2>2. CASE x.type = "tool"
    BY <1>4, <2>2
  <2>3. CASE x.type = "text"
    BY <1>4, <2>3 DEF isEntry
  <2>4. CASE x.type = "run.state.changed"
    BY <1>4, <2>4 DEF isEntry
  <2>5. CASE x.type \notin {"step", "tool", "text", "run.state.changed"}
    BY <1>4, <2>5
  <2> QED BY <2>1, <2>2, <2>3, <2>4, <2>5
<1>9. /\ after \in Seq(Told)
      /\ \A y \in Range(t) : isEntry(y) => y \in Range(after) \/ (alike(y, x) /\ x \in Range(after))
      /\ isEntry(x) /\ (x.type = "step" \/ x.status = "running" \/ same # {}) => x \in Range(after)
  BY <1>5, <1>6, <1>7, <1>8
<1> QED
  BY <1>3, <1>9 DEF after, x

\* A tool call is told of first when it starts.
ToolsStart ==
    \A s \in Scripts : \A e \in DOMAIN s :
        s[e].type = "tool" /\ s[e].status # "running" =>
            \E d \in 1..(e - 1) : alike(s[d], s[e]) /\ s[d].status = "running"

\* What the page has heard, will hear, or has read or will read with the history.
Reached(e) ==
    \/ e \in unheard \/ e \in Range(wire) \/ e \in Range(live)
    \/ Len(live) >= MaxEvents
    \/ fetch["history"].pc \in {"asked", "failed"}
    \/ fetch["history"].pc = "served" /\ e <= fetch["history"].at
    \/ fetch["history"].pc = "idle" /\ e <= shown["history"].at

ReachInv ==
    /\ published <= Len(script)
    /\ fetch["history"].pc = "served" =>
          fetch["history"].data = fetch["history"].at /\ fetch["history"].at <= published
    /\ shown["history"].data = shown["history"].at /\ shown["history"].at <= published
    /\ \A e \in 1..published : Reached(e)

LEMMA ReachStart == ASSUME FeedAssumption, FeedInit PROVE ReachInv
<1>1. /\ published = 0 /\ script \in Seq(Told)
      /\ fetch = [f \in Fetches |-> asked] /\ shown = [f \in Fetches |-> [at |-> 0, data |-> 0]]
  BY DEF FeedInit, FeedAssumption
<1>2. fetch["history"].pc = "asked" /\ shown["history"].at = 0 /\ shown["history"].data = 0
  BY <1>1 DEF Fetches, asked
<1> QED
  BY <1>1, <1>2 DEF ReachInv

\* A full page stays full, and one that drops an event is full.
LEMMA FullStays ==
    ASSUME MaxEvents \in Nat, NEW s \in Seq(Nat), NEW e \in Nat
    PROVE  /\ Len(s) >= MaxEvents => Len(keepLast(Append(s, e))) >= MaxEvents
           /\ \/ Range(keepLast(Append(s, e))) = Range(s) \cup {e}
              \/ Len(keepLast(Append(s, e))) >= MaxEvents
<1> DEFINE longer == Append(s, e)
<1>1. longer \in Seq(Nat) /\ Len(longer) = Len(s) + 1 /\ Len(s) \in Nat
  OBVIOUS
<1>2. Range(longer) = Range(s) \cup {e}
  BY OnTheWire
<1> HIDE DEF longer
<1>3. CASE Len(longer) > MaxEvents
  <2>1. Len(SubSeq(longer, Len(longer) - MaxEvents + 1, Len(longer))) = MaxEvents
    BY <1>1, <1>3
  <2> QED BY <1>3, <2>1 DEF keepLast, longer
<1>4. CASE ~(Len(longer) > MaxEvents)
  BY <1>1, <1>2, <1>4 DEF keepLast, longer
<1> QED
  BY <1>3, <1>4

LEMMA ReachStep ==
    ASSUME FeedAssumption, FeedInv, OrderInv, ReachInv, [FeedNext]_feedVars PROVE ReachInv'
<1> DEFINE Fetch == [pc : {"asked", "served", "idle", "failed"}, at : Nat, data : Nat]
<1>1. /\ script' = script /\ script \in Seq(Told)
      /\ published \in Nat /\ wire \in Seq(Nat) /\ live \in Seq(Nat) /\ MaxEvents \in Nat
      /\ "history" \in Fetches /\ "run" # "history"
      /\ fetch \in [Fetches -> Fetch] /\ shown \in [Fetches -> [at : Nat, data : Nat]]
      /\ fetch["history"].at \in Nat /\ shown["history"].at \in Nat
  <2>1. script' = script
    BY DEF FeedNext, feedVars, save, publish, streamEvents, onEvent, onError, connect, newClient,
           serve, arrive, fail
  <2> QED
    BY <2>1 DEF FeedInv, FeedTyped, FeedAssumption, OrderInv, Fetches
<1>2. ASSUME /\ published' = published /\ shown'["history"] = shown["history"]
             /\ \/ fetch'["history"] = fetch["history"]
                \/ fetch'["history"].pc \in {"asked", "failed"}
             /\ \A e \in 1..published : Reached(e) => Reached(e)'
      PROVE  ReachInv'
  <2>1. fetch'["history"].pc = "served" => fetch'["history"] = fetch["history"]
    BY <1>2
  <2> QED BY <1>1, <1>2, <2>1 DEF ReachInv
<1>3. CASE UNCHANGED <<published, unheard, wire, live, fetch, shown>>
  BY <1>2, <1>3 DEF Reached
<1>4. CASE publish
  <2>1. /\ published' = published + 1 /\ published + 1 <= Len(script)
        /\ UNCHANGED <<live, fetch, shown>>
        /\ \/ wire' = Append(wire, published + 1) /\ unheard' = unheard
           \/ unheard' = unheard \cup {published + 1} /\ wire' = wire
    BY <1>4 DEF publish, next
  <2>2. Range(wire) \subseteq Range(wire') /\ published + 1 \in Range(wire') \cup unheard'
        /\ unheard \subseteq unheard'
    <3>1. published + 1 \in Nat
      BY <1>1
    <3>2. wire' = Append(wire, published + 1) => Range(wire') = Range(wire) \cup {published + 1}
      BY <1>1, <3>1, OnTheWire
    <3> QED BY <2>1, <3>2
  <2>3. ASSUME NEW e \in 1..(published + 1) PROVE Reached(e)'
    <3>1. CASE e \in 1..published
      <4>1. Reached(e)
        BY <3>1 DEF ReachInv
      <4> QED BY <2>1, <2>2, <4>1 DEF Reached
    <3>2. CASE e = published + 1
      BY <2>2, <3>2 DEF Reached
    <3> QED BY <1>1, <3>1, <3>2
  <2> QED BY <1>1, <2>1, <2>3 DEF ReachInv
<1>5. CASE onEvent
  <2>1. /\ wire # <<>> /\ wire' = Tail(wire) /\ live' = keepLast(Append(live, Head(wire)))
        /\ fetch' = IF isState(Head(wire)) THEN [fetch EXCEPT !["run"] = asked] ELSE fetch
        /\ UNCHANGED <<published, shown, unheard>>
    BY <1>5 DEF onEvent, reloaded
  <2>2. fetch'["history"] = fetch["history"]
    BY <1>1, <2>1
  <2>3. Head(wire) \in Nat /\ \A e \in Range(wire) : e = Head(wire) \/ e \in Range(wire')
    BY <1>1, <2>1, OnTheWire
  <2>4. /\ Len(live) >= MaxEvents => Len(live') >= MaxEvents
        /\ Range(live') = Range(live) \cup {Head(wire)} \/ Len(live') >= MaxEvents
    BY <1>1, <2>1, <2>3, FullStays
  <2>5. \A e \in 1..published : Reached(e) => Reached(e)'
    BY <2>1, <2>2, <2>3, <2>4 DEF Reached
  <2> QED BY <1>2, <2>1, <2>2, <2>5
<1>6. CASE onError
  <2>1. unheard' = unheard \cup Range(wire) /\ UNCHANGED <<published, live, fetch, shown>>
    BY <1>6 DEF onError
  <2>2. \A e \in 1..published : Reached(e) => Reached(e)'
    BY <2>1 DEF Reached
  <2> QED BY <1>2, <2>1, <2>2
<1>7. CASE newClient
  <2>1. fetch' = [f \in Fetches |-> asked] /\ UNCHANGED <<published, shown>>
    BY <1>7 DEF newClient
  <2>2. fetch'["history"].pc = "asked"
    BY <1>1, <2>1 DEF asked
  <2>3. \A e \in 1..published : Reached(e)'
    BY <2>2 DEF Reached
  <2> QED BY <1>2, <2>1, <2>2, <2>3
<1>8. ASSUME NEW f \in Fetches, serve(f) PROVE ReachInv'
  <2>1. /\ fetch[f].pc = "asked"
        /\ fetch' = [fetch EXCEPT ![f] = [pc |-> "served", at |-> published,
                                          data |-> IF f = "run" THEN row ELSE published]]
        /\ UNCHANGED <<published, wire, live, shown, unheard>>
    BY <1>8 DEF serve
  <2>2. CASE f = "run"
    <3>1. fetch'["history"] = fetch["history"]
      BY <1>1, <2>1, <2>2
    <3>2. \A e \in 1..published : Reached(e) => Reached(e)'
      BY <2>1, <3>1 DEF Reached
    <3> QED BY <1>2, <2>1, <3>1, <3>2
  <2>3. CASE f = "history"
    <3>1. fetch'["history"] = [pc |-> "served", at |-> published, data |-> published]
      BY <1>1, <2>1, <2>3
    <3>2. fetch'["history"].pc = "served" /\ fetch'["history"].at = published
          /\ fetch'["history"].data = published
      BY <3>1
    <3>3. \A e \in 1..published : Reached(e)'
      BY <1>1, <3>2 DEF Reached
    <3> QED BY <1>1, <2>1, <3>2, <3>3 DEF ReachInv
  <2> QED BY <2>2, <2>3 DEF Fetches
<1>9. ASSUME NEW f \in Fetches, arrive(f) PROVE ReachInv'
  <2>1. /\ fetch[f].pc = "served"
        /\ shown' = [shown EXCEPT ![f] = [at |-> fetch[f].at, data |-> fetch[f].data]]
        /\ fetch' = [fetch EXCEPT ![f] = [fetch[f] EXCEPT !.pc = "idle"]]
        /\ UNCHANGED <<published, wire, live, unheard>>
    BY <1>9 DEF arrive
  <2>2. CASE f = "run"
    <3>1. fetch'["history"] = fetch["history"] /\ shown'["history"] = shown["history"]
      BY <1>1, <2>1, <2>2
    <3>2. \A e \in 1..published : Reached(e) => Reached(e)'
      BY <2>1, <3>1 DEF Reached
    <3> QED BY <1>2, <2>1, <3>1, <3>2
  <2>3. CASE f = "history"
    <3>1. /\ fetch'["history"].pc = "idle"
          /\ shown'["history"].at = fetch["history"].at
          /\ shown'["history"].data = fetch["history"].data
      BY <1>1, <2>1, <2>3
    <3>2. \A e \in 1..published : Reached(e) => Reached(e)'
      BY <2>1, <2>3, <3>1 DEF Reached
    <3> QED BY <1>1, <2>1, <2>3, <3>1, <3>2 DEF ReachInv
  <2> QED BY <2>2, <2>3 DEF Fetches
<1>10. ASSUME NEW f \in Fetches, fail(f) PROVE ReachInv'
  <2>1. /\ fetch' = [fetch EXCEPT ![f] = [fetch[f] EXCEPT !.pc = "failed"]]
        /\ UNCHANGED <<published, wire, live, shown, unheard>>
    BY <1>10 DEF fail
  <2>2. fetch'["history"] = fetch["history"] \/ fetch'["history"].pc = "failed"
    BY <1>1, <2>1
  <2>3. \A e \in 1..published : Reached(e) => Reached(e)'
    BY <2>1, <2>2 DEF Reached
  <2> QED BY <1>2, <2>1, <2>2, <2>3
<1> QED
  BY <1>3, <1>4, <1>5, <1>6, <1>7, <1>8, <1>9, <1>10
     DEF FeedNext, feedVars, save, streamEvents, connect

\* Of each entry there is something in the timeline, and what was told of it last.
LEMMA Timeline ==
    ASSUME NEW events \in Seq(Nat), Increasing(events), script \in Seq(Told),
           Range(events) \subseteq DOMAIN script,
           \A e \in Range(events) :
              script[e].type = "tool" /\ script[e].status # "running" =>
                 \E d \in Range(events) : d < e /\ alike(script[d], script[e])
                                          /\ script[d].status = "running"
    PROVE  \A e \in Range(events) :
              /\ isEntry(script[e])
              /\ \A d \in Range(events) : d > e => ~alike(script[d], script[e])
              => script[e] \in Range(reduceRunTimeline(events))
<1> DEFINE n == Len(events)
           Solves(g) == g = [i \in 0..n |-> IF i = 0 THEN <<>> ELSE timelineWith(g[i - 1], events[i])]
           step == [p \in Seq(Told) \X (1..n) |-> timelineWith(p[1], events[p[2]])]
<1>1. /\ n \in Nat /\ DOMAIN events = 1..n
      /\ \A i \in 1..n : events[i] \in Nat /\ events[i] \in Range(events) /\ script[events[i]] \in Told
      /\ \A e \in Range(events) : \E i \in 1..n : e = events[i]
  <2>1. \A e \in DOMAIN script : script[e] \in Told
    OBVIOUS
  <2> QED BY <2>1 DEF Range
<1> HIDE DEF n
<1>2. step \in [Seq(Told) \X (1..n) -> Seq(Told)]
  <2>1. ASSUME NEW t \in Seq(Told), NEW i \in 1..n PROVE timelineWith(t, events[i]) \in Seq(Told)
    BY <1>1, TimelineStep
  <2> QED BY <2>1
<1>3. PICK f \in [0..n -> Seq(Told)] : f[0] = <<>> /\ \A i \in 1..n : f[i] = step[<<f[i - 1], i>>]
  <2> HIDE DEF step
  <2>1. PICK T : T = Seq(Told)
    OBVIOUS
  <2>2. n \in Nat /\ <<>> \in T /\ step \in [T \X (1..n) -> T]
    BY <1>1, <1>2, <2>1
  <2>3. \E f \in [0..n -> T] : Follows(f, n, <<>>, step)
    BY <2>2, Recursion
  <2> QED BY <2>1, <2>3 DEF Follows
<1>4. Solves(f)
  <2>1. ASSUME NEW i \in 1..n PROVE f[i] = timelineWith(f[i - 1], events[i])
    <3>1. f[i - 1] \in Seq(Told)
      BY <1>1
    <3>2. step[<<f[i - 1], i>>] = timelineWith(f[i - 1], events[i])
      BY <3>1
    <3> HIDE DEF step
    <3> QED BY <1>3, <3>2
  <2>2. \A i \in 0..n : i = 0 \/ i \in 1..n
    BY <1>1
  <2> HIDE DEF step
  <2>3. \A i \in 0..n : f[i] = IF i = 0 THEN <<>> ELSE timelineWith(f[i - 1], events[i])
    BY <1>3, <2>1, <2>2
  <2> QED BY <2>3
<1>5. PICK g : Solves(g) /\ reduceRunTimeline(events) = g[n]
  <2>1. reduceRunTimeline(events) = (CHOOSE g : Solves(g))[n]
    BY DEF reduceRunTimeline, n
  <2>2. Solves(CHOOSE g : Solves(g))
    <3> HIDE DEF Solves
    <3> QED BY <1>4
  <2> HIDE DEF Solves
  <2> QED BY <2>1, <2>2
<1>6. g[0] = <<>> /\ \A i \in 1..n : g[i] = timelineWith(g[i - 1], events[i])
  <2>1. \A i \in 0..n : g[i] = IF i = 0 THEN <<>> ELSE timelineWith(g[i - 1], events[i])
    BY <1>5
  <2>2. 0 \in 0..n /\ \A i \in 1..n : i \in 0..n /\ i # 0
    BY <1>1
  <2> QED BY <2>1, <2>2
<1> HIDE DEF Solves, step
<1> DEFINE said(i) == script[events[i]]
           Held(t, m) == \A i \in 1..m : isEntry(said(i)) =>
                            /\ \E x \in Range(t) : alike(x, said(i))
                            /\ (\A j \in (i + 1)..m : ~alike(said(j), said(i))) => said(i) \in Range(t)
           G == {m \in 0..n : g[m] \in Seq(Told) /\ Held(g[m], m)}
<1>7. 0 \in G
  <2>1. 0 \in 0..n /\ g[0] \in Seq(Told)
    BY <1>1, <1>6
  <2>2. Held(g[0], 0)
    OBVIOUS
  <2> HIDE DEF Held
  <2> QED BY <2>1, <2>2
<1>8. ASSUME NEW m \in 1..n, m - 1 \in G PROVE m \in G
  <2> DEFINE before == g[m - 1]
             after == g[m]
  <2>1. /\ before \in Seq(Told) /\ Held(before, m - 1) /\ after = timelineWith(before, events[m])
        /\ script[events[m]] \in Told
    BY <1>1, <1>6, <1>8
  <2>2. /\ after \in Seq(Told)
        /\ \A x \in Range(before) : isEntry(x) =>
              x \in Range(after) \/ (alike(x, said(m)) /\ said(m) \in Range(after))
        /\ isEntry(said(m)) /\ (said(m).type = "step" \/ said(m).status = "running"
                                \/ \E x \in Range(before) : alike(x, said(m)))
              => said(m) \in Range(after)
    BY <2>1, TimelineStep
  <2>3. isEntry(said(m)) => said(m) \in Range(after)
    <3> SUFFICES ASSUME said(m).type = "tool", said(m).status # "running"
                 PROVE  \E x \in Range(before) : alike(x, said(m))
      BY <2>2 DEF isEntry
    <3>1. PICK d \in Range(events) : d < events[m] /\ alike(script[d], said(m))
      BY <1>1
    <3>2. PICK i \in 1..n : d = events[i]
      BY <1>1
    <3>3. i < m
      <4>1. i \in Nat /\ m \in Nat
        BY <1>1
      <4> HIDE DEF said
      <4>4. \A k \in 1..n : events[k] \in Nat
        BY <1>1
      <4>2. i # m /\ ~(events[m] < d)
        BY <3>1, <3>2, <4>4
      <4>3. m < i => events[m] < events[i]
        BY <1>1 DEF Increasing
      <4> QED BY <3>2, <4>1, <4>2, <4>3, <4>4
    <3>4. i \in 1..(m - 1) /\ isEntry(said(i)) /\ alike(said(i), said(m))
      BY <3>1, <3>2, <3>3 DEF alike, isEntry
    <3>5. PICK x \in Range(before) : alike(x, said(i))
      BY <2>1, <3>4
    <3>6. alike(x, said(m))
      BY <3>4, <3>5 DEF alike
    <3> QED BY <3>6
  <2>4. ASSUME NEW i \in 1..m, isEntry(said(i))
        PROVE  /\ \E x \in Range(after) : alike(x, said(i))
               /\ (\A j \in (i + 1)..m : ~alike(said(j), said(i))) => said(i) \in Range(after)
    <3>1. CASE i = m
      BY <2>3, <2>4, <3>1 DEF alike
    <3>2. CASE i # m
      <4>1. i \in 1..(m - 1) /\ m \in (i + 1)..m /\ \A j \in (i + 1)..(m - 1) : j \in (i + 1)..m
        <5>1. m \in Nat
          BY <1>1
        <5>2. i \in Nat /\ 1 <= i /\ i < m
          BY <3>2, <5>1
        <5> QED BY <5>1, <5>2
      <4>2. PICK x \in Range(before) : alike(x, said(i))
        BY <2>1, <2>4, <4>1
      <4>3. isEntry(x)
        BY <2>4, <4>2 DEF alike, isEntry
      <4>4. \E y \in Range(after) : alike(y, said(i))
        BY <2>2, <4>2, <4>3 DEF alike
      <4>5. ASSUME \A j \in (i + 1)..m : ~alike(said(j), said(i)) PROVE said(i) \in Range(after)
        <5>1. said(i) \in Range(before)
          BY <2>1, <2>4, <4>1, <4>5
        <5>2. ~alike(said(m), said(i))
          BY <4>1, <4>5
        <5> QED BY <2>2, <2>4, <5>1, <5>2 DEF alike
      <4> QED BY <4>4, <4>5
    <3> QED BY <3>1, <3>2
  <2>5. m \in 0..n
    BY <1>1
  <2>6. Held(after, m)
    BY <2>4
  <2> HIDE DEF Held
  <2> QED BY <2>2, <2>5, <2>6
<1>9. Held(g[n], n)
  <2> HIDE DEF G
  <2>1. \A m \in 0..n : m \in G
    BY <1>1, <1>7, <1>8, UpTo
  <2>2. n \in G
    BY <1>1, <2>1
  <2> QED BY <2>2 DEF G
<1>10. ASSUME NEW e \in Range(events), isEntry(script[e]),
              \A d \in Range(events) : d > e => ~alike(script[d], script[e])
       PROVE  script[e] \in Range(g[n])
  <2>1. PICK i \in 1..n : e = events[i]
    BY <1>1
  <2>2. ASSUME NEW j \in (i + 1)..n PROVE ~alike(said(j), said(i))
    <3>1. j \in 1..n /\ i < j
      <4>1. n \in Nat /\ i \in Nat /\ 1 <= i
        BY <1>1
      <4>2. j \in (i + 1)..n
        BY <2>2
      <4> QED BY <4>1, <4>2
    <3>2. events[j] > e
      BY <1>1, <2>1, <3>1 DEF Increasing
    <3> QED BY <1>1, <1>10, <2>1, <3>1, <3>2
  <2> QED BY <1>9, <1>10, <2>1, <2>2
<1> QED
  BY <1>5, <1>10

\* TimelineComplete: a page at rest that heard what was published since its history was read
\* shows all of it, and of every step and tool call what was told last, whatever was
\* published, read and heard twice, and in whatever order the two fetches and the feed came.
THEOREM TimelineIsComplete ==
    ASSUME FeedAssumption, ToolsStart
    PROVE  FeedSpec => []TimelineComplete
<1>1. FeedInit => FeedInv /\ OrderInv /\ ReachInv
  BY FeedStart, ReachStart, NothingYet DEF FeedInit, OrderInv
<1>2. FeedInv /\ OrderInv /\ ReachInv /\ [FeedNext]_feedVars => (FeedInv /\ OrderInv /\ ReachInv)'
  BY FeedStep, OrderStep, ReachStep
<1>3. FeedInv /\ OrderInv /\ ReachInv => TimelineComplete
  <2> SUFFICES ASSUME FeedInv, OrderInv, ReachInv, AtRest, Len(live) < MaxEvents,
                      \A e \in unheard : e <= shown["history"].at
               PROVE  LET events == allEvents(live)
                          lastOf(e) == \A d \in (e + 1)..published :
                              script[d].type # script[e].type \/ script[d].of # script[e].of IN
                      /\ Range(events) = 1..published
                      /\ \A e \in 1..published : script[e].type \in {"step", "tool"} /\ lastOf(e) =>
                            script[e] \in Range(reduceRunTimeline(events))
    BY DEF TimelineComplete
  <2> DEFINE h == shown["history"].data
             events == allEvents(live)
  <2>1. /\ h \in Nat /\ h = shown["history"].at /\ h <= published /\ published \in Nat
        /\ published <= Len(script) /\ live \in Seq(Nat) /\ Increasing(live)
        /\ script \in Seq(Told) /\ script \in Scripts /\ MaxEvents \in Nat
        /\ \A e \in Range(live) : e \in Nat /\ e > 0 /\ e <= published
        /\ wire = <<>> /\ fetch["history"].pc = "idle"
    <3>1. \A e \in Range(live) : e \in Nat
      BY DEF OrderInv, Range
    <3> QED
      BY <3>1 DEF FeedInv, FeedTyped, ReachInv, OrderInv, FeedAssumption, AtRest, Fetches
  <2>2. events \in Seq(Nat) /\ Increasing(events) /\ Range(events) = 1..h \cup Range(live)
    BY <2>1, Merged
  <2> HIDE DEF events
  <2>3. Range(events) = 1..published
    <3>1. ASSUME NEW e \in 1..published PROVE e \in 1..h \cup Range(live)
      <4>1. Reached(e)
        BY DEF ReachInv
      <4>2. e \in Range(live) \/ e <= h
        BY <2>1, <4>1, NothingYet DEF Reached
      <4> QED BY <2>1, <4>2
    <3>2. \A e \in 1..h \cup Range(live) : e \in 1..published
      BY <2>1
    <3> QED BY <2>2, <3>1, <3>2
  <2>4. 1..published \subseteq DOMAIN script
    BY <2>1
  <2>5. ASSUME NEW e \in 1..published, script[e].type = "tool", script[e].status # "running"
        PROVE  \E d \in 1..published : d < e /\ alike(script[d], script[e])
                                       /\ script[d].status = "running"
    <3>1. PICK d \in 1..(e - 1) : alike(script[d], script[e]) /\ script[d].status = "running"
      BY <2>1, <2>4, <2>5 DEF ToolsStart
    <3>2. d \in 1..published /\ d < e
      BY <2>1
    <3> QED BY <3>1, <3>2
  <2>6. \A e \in 1..published :
           /\ isEntry(script[e])
           /\ \A d \in 1..published : d > e => ~alike(script[d], script[e])
           => script[e] \in Range(reduceRunTimeline(events))
    BY <2>1, <2>2, <2>3, <2>4, <2>5, Timeline
  <2>7. ASSUME NEW e \in 1..published, script[e].type \in {"step", "tool"},
               \A d \in (e + 1)..published : script[d].type # script[e].type \/ script[d].of # script[e].of
        PROVE  script[e] \in Range(reduceRunTimeline(events))
    <3>1. \A d \in 1..published : d > e => d \in (e + 1)..published
      BY <2>1
    <3>2. isEntry(script[e]) /\ \A d \in 1..published : d > e => ~alike(script[d], script[e])
      BY <2>7, <3>1 DEF isEntry, alike
    <3> QED BY <2>6, <3>2
  <2> QED BY <2>3, <2>7 DEF events
<1> QED
  BY <1>1, <1>2, <1>3, PTL DEF FeedSpec

--------------------------------------------------------------------------------
(***************************************************************************)
(* The stream of a model, for every message of it and any number of failed *)
(* requests.                                                               *)
(***************************************************************************)

\* A piece of a block is named by its place in it.
PiecesAssumption ==
    \A p \in Protocols : \A m \in Messages[p] : \A i \in DOMAIN m :
        /\ m[i].pieces \in Seq(STRING)
        /\ \A k, l \in DOMAIN m[i].pieces : m[i].pieces[k] = m[i].pieces[l] => k = l
        /\ \A k \in DOMAIN m[i].pieces : m[i].pieces[k] # "started"

Progress == [state : {"no", "open", "stopped"}, pieces : Nat]
Named == STRING \cup {"started"}
Delta == [block : Index, piece : Named]

\* What has been told has been sent.
IsSent(d, of) ==
    \/ d.piece = "started" /\ of[d.block].state # "no"
    \/ \E k \in 1..of[d.block].pieces : d.piece = message[d.block].pieces[k]

ToldInv ==
    /\ protocol \in Protocols /\ message \in Messages[protocol]
    /\ told \in Seq(Delta)
    /\ sent \in [Index -> Progress]
    /\ \A i \in Index : sent[i].pieces <= Len(message[i].pieces)
    /\ phase \in {"request", "pause"} => told = <<>>
    /\ phase = "stream" => \A n \in DOMAIN told : IsSent(told[n], sent)
    /\ ToldOnce

\* A delta that was not told yet may be told.
LEMMA TellOnce ==
    ASSUME ToldInv, NEW d \in Delta,
           \A n \in DOMAIN told : told[n] # d, told' = Append(told, d), UNCHANGED message
    PROVE  /\ told' \in Seq(Delta) /\ ToldOnce'
           /\ \A n \in DOMAIN told' : told'[n] = d \/ (n \in DOMAIN told /\ told'[n] = told[n])
<1>1. /\ told \in Seq(Delta)
      /\ DOMAIN told = 1..Len(told) /\ Len(told) \in Nat
  BY DEF ToldInv
<1>2. /\ told' \in Seq(Delta) /\ DOMAIN told' = 1..(Len(told) + 1)
      /\ told'[Len(told) + 1] = d /\ \A n \in DOMAIN told : told'[n] = told[n]
  BY <1>1
<1>3. \A n \in DOMAIN told' : n = Len(told) + 1 \/ n \in DOMAIN told
  BY <1>1, <1>2
<1>4. \A m, n \in DOMAIN told : m # n => told[m] # told[n]
  BY DEF ToldInv, ToldOnce
<1> QED
  BY <1>2, <1>3, <1>4 DEF ToldOnce

\* Outside of the stream nothing is told.
LEMMA NotTold ==
    ASSUME ToldInv, UNCHANGED <<protocol, message, told, sent>>, phase' # "stream",
           phase' \in {"request", "pause"} => phase \in {"request", "pause"}
    PROVE  ToldInv'
  BY DEF ToldInv, Index, ToldOnce, Delta

\* A block of the stream moves on, and tells at most that it did.
LEMMA BlockTells ==
    ASSUME PiecesAssumption, ToldInv, phase = "stream", UNCHANGED <<protocol, message>>,
           phase' \in {"stream", "aborted"},
           NEW i \in Index, NEW now \in Progress, sent' = [sent EXCEPT ![i] = now],
           sent[i].pieces <= now.pieces, now.pieces <= Len(message[i].pieces),
           sent[i].state # "no" => now.state # "no",
           NEW d, NEW piece \in Named, d = [block |-> i, piece |-> piece],
           told' = told \/ told' = Append(told, d),
           \/ told' = told
           \/ piece = "started" /\ now.state # "no" /\ sent[i].state = "no"
           \/ now.pieces = sent[i].pieces + 1 /\ piece = message[i].pieces[now.pieces]
    PROVE  ToldInv'
<1> DEFINE pieces == message[i].pieces
<1>1. /\ pieces \in Seq(STRING) /\ sent[i].pieces \in Nat /\ now.pieces \in Nat
      /\ \A k, l \in DOMAIN pieces : pieces[k] = pieces[l] => k = l
      /\ \A k \in DOMAIN pieces : pieces[k] # "started"
      /\ sent \in [Index -> Progress]
      /\ DOMAIN pieces = 1..Len(pieces) /\ Len(pieces) \in Nat
  <2>1. protocol \in Protocols /\ message \in Messages[protocol] /\ i \in DOMAIN message
    BY DEF ToldInv, Index
  <2>2. /\ pieces \in Seq(STRING)
        /\ \A k, l \in DOMAIN pieces : pieces[k] = pieces[l] => k = l
        /\ \A k \in DOMAIN pieces : pieces[k] # "started"
    BY <2>1 DEF PiecesAssumption
  <2>3. sent \in [Index -> Progress]
    BY DEF ToldInv
  <2>4. sent[i].pieces \in Nat /\ now.pieces \in Nat
    BY <2>3 DEF Progress
  <2>5. DOMAIN pieces = 1..Len(pieces) /\ Len(pieces) \in Nat
    BY <2>2
  <2> QED
    BY <2>2, <2>3, <2>4, <2>5
<1>2. /\ told \in Seq(Delta) /\ \A n \in DOMAIN told : told[n] \in Delta
      /\ \A n \in DOMAIN told : IsSent(told[n], sent)
  BY DEF ToldInv
<1>3. /\ sent' \in [Index -> Progress]
      /\ sent'[i] = now /\ \A j \in Index \ {i} : sent'[j] = sent[j]
  BY <1>1
<1>4. \A j \in Index : sent'[j].pieces <= Len(message[j].pieces)
  BY <1>3 DEF ToldInv
<1>5. ASSUME NEW e \in Delta, IsSent(e, sent) PROVE IsSent(e, sent')
  <2>1. e.block \in Index
    BY DEF Delta
  <2>2. CASE e.block = i
    <3>1. \A k \in 1..sent[i].pieces : k \in 1..now.pieces
      BY <1>1
    <3> QED
      BY <1>3, <1>5, <2>2, <3>1 DEF IsSent
  <2>3. CASE e.block # i
    BY <1>3, <1>5, <2>1, <2>3 DEF IsSent
  <2> QED
    BY <2>2, <2>3
<1>6. d \in Delta /\ d.block = i /\ d.piece = piece
  BY DEF Delta
<1>7. \A e : IsSent(e, sent)' <=> IsSent(e, sent')
  BY DEF IsSent
<1>8. CASE told' = told
  <2>1. \A n \in DOMAIN told : IsSent(told[n], sent')
    BY <1>2, <1>5
  <2> QED
    BY <1>3, <1>4, <1>8, <2>1 DEF ToldInv, Index, ToldOnce, Delta, IsSent
<1>9. CASE told' # told
  <2>1. told' = Append(told, d)
    BY <1>9
  <2>2. ASSUME piece = "started", now.state # "no", sent[i].state = "no"
        PROVE  ~IsSent(d, sent) /\ IsSent(d, sent')
    <3>1. \A k \in 1..sent[i].pieces : k \in DOMAIN pieces /\ pieces[k] # "started"
      <4>1. \A k \in 1..sent[i].pieces : k \in 1..Len(pieces)
        BY <1>1
      <4> HIDE DEF pieces
      <4> QED BY <1>1, <4>1
    <3>2. ~IsSent(d, sent)
      BY <1>6, <2>2, <3>1 DEF IsSent
    <3>3. IsSent(d, sent')
      BY <1>3, <1>6, <2>2 DEF IsSent
    <3> QED
      BY <3>2, <3>3
  <2>3. ASSUME now.pieces = sent[i].pieces + 1, piece = pieces[now.pieces]
        PROVE  ~IsSent(d, sent) /\ IsSent(d, sent')
    <3>1. now.pieces \in DOMAIN pieces /\ piece # "started"
      BY <1>1, <2>3
    <3>2. \A k \in 1..sent[i].pieces : k \in DOMAIN pieces /\ k # now.pieces
      BY <1>1, <2>3
    <3>3. ~IsSent(d, sent)
      BY <1>1, <1>6, <2>3, <3>1, <3>2 DEF IsSent
    <3>4. IsSent(d, sent')
      <4>1. now.pieces \in 1..now.pieces
        BY <1>1, <2>3
      <4>2. \E k \in 1..sent'[d.block].pieces : d.piece = message[d.block].pieces[k]
        BY <1>1, <1>3, <1>6, <2>3, <4>1
      <4> QED BY <4>2 DEF IsSent
    <3> QED
      BY <3>3, <3>4
  <2>4. ~IsSent(d, sent) /\ IsSent(d, sent')
    BY <1>9, <2>2, <2>3
  <2>5. \A n \in DOMAIN told : told[n] # d
    BY <1>2, <2>4
  <2>6. /\ told' \in Seq(Delta) /\ ToldOnce'
        /\ \A n \in DOMAIN told' : told'[n] = d \/ (n \in DOMAIN told /\ told'[n] = told[n])
    BY <1>6, <2>1, <2>5, TellOnce
  <2>7. \A n \in DOMAIN told' : IsSent(told'[n], sent')
    BY <1>2, <1>5, <2>4, <2>6
  <2> QED
    BY <1>3, <1>4, <2>6, <2>7 DEF ToldInv, Index, Delta, IsSent
<1> QED
  BY <1>8, <1>9

LEMMA ToldNext == ASSUME PiecesAssumption, ToldInv, [ModelNext]_modelVars PROVE ToldInv'
<1>1. CASE UNCHANGED modelVars
  BY <1>1 DEF ToldInv, modelVars, Index, ToldOnce, Delta, IsSent
<1>2. CASE RequestFails \/ Retry
  <2>1. /\ phase \in {"request", "pause"} /\ phase' # "stream"
        /\ UNCHANGED <<protocol, message, told, sent>>
    BY <1>2 DEF RequestFails, Retry, fails
  <2> QED
    BY <2>1, NotTold
<1>3. CASE Connected
  <2>1. /\ phase = "request" /\ told = <<>> /\ phase' \notin {"request", "pause"}
        /\ sent' = [i \in Index |-> [state |-> "no", pieces |-> 0]]
        /\ UNCHANGED <<protocol, message, told>>
    BY <1>3 DEF Connected, unsent, ToldInv
  <2>2. sent' \in [Index -> Progress]
    BY <2>1 DEF Progress
  <2>3. \A i \in Index : message[i].pieces \in Seq(STRING)
    BY DEF ToldInv, PiecesAssumption, Index
  <2>4. \A i \in Index : sent'[i].pieces <= Len(message[i].pieces)
    BY <2>1, <2>3
  <2> QED
    BY <2>1, <2>2, <2>4 DEF ToldInv, Index, ToldOnce, Delta
<1>4. CASE MessageStop \/ StreamEnds \/ StreamBreaks
  <2>1. phase' \notin {"stream", "request", "pause"} /\ UNCHANGED <<protocol, message, told, sent>>
    BY <1>4 DEF MessageStop, StreamEnds, StreamBreaks, responds, fails
  <2> QED
    BY <2>1, NotTold
<1>5. CASE Abort
  BY <1>5 DEF Abort, ToldInv, Index, ToldOnce, Delta, IsSent
<1>6. ASSUME NEW i \in Index, BlockStart(i) \/ BlockDelta(i) \/ BlockStop(i)
      PROVE  ToldInv'
  <2>1. /\ phase = "stream" /\ UNCHANGED <<protocol, message>>
        /\ phase' \in {"stream", "aborted"}
    BY <1>6 DEF BlockStart, BlockDelta, BlockStop, handles
  <2>2. /\ sent[i] \in Progress /\ sent[i].pieces \in Nat /\ sent[i].pieces <= Len(message[i].pieces)
        /\ message[i].pieces \in Seq(STRING)
    BY DEF ToldInv, PiecesAssumption, Index, Progress
  <2>3. CASE BlockStart(i)
    <3>1. PICK now : now = [sent[i] EXCEPT !.state = "open"]
      OBVIOUS
    <3>2. /\ sent[i].state = "no" /\ sent' = [sent EXCEPT ![i] = now]
          /\ told' = told \/ told' = Append(told, [block |-> i, piece |-> "started"])
      BY <2>3, <3>1 DEF BlockStart, mayOpen, handles
    <3>3. now \in Progress /\ now.pieces = sent[i].pieces /\ now.state = "open"
      BY <2>2, <3>1 DEF Progress
    <3>4. sent[i].pieces <= now.pieces /\ now.pieces <= Len(message[i].pieces) /\ now.state # "no"
      BY <2>2, <3>3
    <3>5. PICK piece \in Named : piece = "started"
      BY DEF Named
    <3>6. PICK d : d = [block |-> i, piece |-> piece]
      OBVIOUS
    <3>7. told' = told \/ (told' = Append(told, d) /\ piece = "started" /\ sent[i].state = "no")
      BY <3>2, <3>5, <3>6
    <3> QED
      BY <2>1, <3>2, <3>3, <3>4, <3>6, <3>7, BlockTells
  <2>4. CASE BlockDelta(i)
    <3>1. PICK now : now = [sent[i] EXCEPT !.pieces = @ + 1]
      OBVIOUS
    <3>2. PICK piece : piece = message[i].pieces[sent[i].pieces + 1]
      OBVIOUS
    <3>3. /\ sent[i].state = "open" /\ sent' = [sent EXCEPT ![i] = now]
          /\ sent[i].pieces < Len(message[i].pieces)
          /\ told' = told \/ told' = Append(told, [block |-> i, piece |-> piece])
      BY <2>4, <3>1, <3>2 DEF BlockDelta, handles
    <3>4. /\ now \in Progress /\ now.pieces = sent[i].pieces + 1 /\ now.state = "open"
          /\ piece \in Named
      BY <2>2, <3>1, <3>2, <3>3 DEF Progress, Named
    <3>5. sent[i].pieces <= now.pieces /\ now.pieces <= Len(message[i].pieces) /\ now.state # "no"
          /\ piece = message[i].pieces[now.pieces]
      BY <2>2, <3>2, <3>3, <3>4
    <3>6. PICK d : d = [block |-> i, piece |-> piece]
      OBVIOUS
    <3> QED
      BY <2>1, <3>3, <3>4, <3>5, <3>6, BlockTells
  <2>5. CASE BlockStop(i)
    <3>1. PICK now : now = [sent[i] EXCEPT !.state = "stopped"]
      OBVIOUS
    <3>2. sent' = [sent EXCEPT ![i] = now] /\ told' = told
      BY <2>5, <3>1 DEF BlockStop, handles
    <3>3. now \in Progress /\ now.pieces = sent[i].pieces /\ now.state = "stopped"
      BY <2>2, <3>1 DEF Progress
    <3>4. sent[i].pieces <= now.pieces /\ now.pieces <= Len(message[i].pieces) /\ now.state # "no"
      BY <2>2, <3>3
    <3>5. PICK piece \in Named : piece = "started"
      BY DEF Named
    <3>6. PICK d : d = [block |-> i, piece |-> piece]
      OBVIOUS
    <3>7. told' = told \/ (told' = Append(told, d) /\ piece = "started" /\ sent[i].state = "no")
      BY <3>2, <3>5, <3>6
    <3> QED
      BY <2>1, <3>2, <3>3, <3>4, <3>6, <3>7, BlockTells
  <2> QED
    BY <1>6, <2>3, <2>4, <2>5
<1> QED
  BY <1>1, <1>2, <1>3, <1>4, <1>5, <1>6 DEF ModelNext

\* ToldOnce: no delta of an invocation is told twice, whenever its requests fail, are
\* tried again or are cut off.
THEOREM DeltasAreToldOnce == ASSUME PiecesAssumption PROVE ModelSpec => []ToldOnce
<1>1. ModelInit => ToldInv
  <2> SUFFICES ASSUME ModelInit PROVE ToldInv
    OBVIOUS
  <2>1. /\ protocol \in Protocols /\ message \in Messages[protocol] /\ told = <<>> /\ phase = "request"
        /\ sent = [i \in Index |-> [state |-> "no", pieces |-> 0]]
    BY DEF ModelInit, unsent
  <2>2. \A i \in Index : message[i].pieces \in Seq(STRING)
    BY <2>1 DEF PiecesAssumption, Index
  <2> QED
    BY <2>1, <2>2 DEF ToldInv, ToldOnce, Progress
<1>2. ToldInv /\ [ModelNext]_modelVars => ToldInv'
  BY ToldNext
<1>3. ToldInv => ToldOnce
  BY DEF ToldInv
<1> QED
  BY <1>1, <1>2, <1>3, PTL DEF ModelSpec

\* AbortIsNoFailure: an invocation during which the session is aborted does not end as
\* failed, wherever it stands: before the request, in a pause, within an event.
THEOREM AbortsAreNoFailures == ModelSpec => []AbortIsNoFailure
<1>1. ModelInit => AbortIsNoFailure
  BY DEF ModelInit, AbortIsNoFailure
<1>2. AbortIsNoFailure /\ [ModelNext]_modelVars => AbortIsNoFailure'
  BY DEF AbortIsNoFailure, ModelNext, modelVars, RequestFails, Retry, Connected, BlockStart, BlockDelta,
         BlockStop, handles, MessageStop, StreamEnds, StreamBreaks, responds, fails, Abort, ended
<1> QED
  BY <1>1, <1>2, PTL DEF ModelSpec
================================================================================
