----------------------------- MODULE WorkTracker -----------------------------
(***************************************************************************)
(* The adapters of external trackers: GitHub issues and projects, Jira     *)
(* (Cloud and Data Center) and Linear.  A call of an adapter is a series   *)
(* of HTTP requests about one issue; a step is one request.  Between two   *)
(* requests other orchestrators and people change the issue, and any       *)
(* request may fail, before or after the tracker has applied it.           *)
(***************************************************************************)
EXTENDS Naturals, Sequences, SequencesExt, FiniteSetsExt

CONSTANTS
    Claimants,      \* orchestrator instances
    Adapters,       \* a subset of {"github", "projects", "jira", "linear"}
    StateLabels,    \* the workflow states GitHub models as labels, in order
    Page,           \* how many comments a GitHub or projects query returns
    MaxComments,    \* bound on the comments of the issue
    MaxCalls        \* bound on the calls made

VARIABLES
    adapter,    \* which tracker the issue lives in
    issue,      \* what the tracker stores
    item,       \* per claimant, the labels of the issue as it was discovered
    call,       \* per claimant, the call in progress
    last,       \* the last two calls that were answered, the latest first
    begun       \* how many calls were begun

vars == <<adapter, issue, item, call, last, begun>>

States == {"open", "closed"} \cup Range(StateLabels)
People == "people"
NoMarker == [kind |-> "text", who |-> People]
Idle == [op |-> "none", at |-> "idle", seen |-> {}, target |-> "open", alone |-> TRUE]

--------------------------------------------------------------------------------
(* What the adapters read *)

\* The state an issue is reported in: of the labels present the first configured.
resolveIssueState(i) ==
    LET present == {k \in DOMAIN StateLabels : StateLabels[k] \in i.labels} IN
    IF adapter # "github" \/ i.state = "closed" \/ present = {} THEN i.state
    ELSE StateLabels[Min(present)]

isMarker(c) == c.kind # "text"

\* The comments a query returns: the oldest ones of an issue on GitHub, the last
\* ones of a project item, the last one on Linear.
fetchComments(comments) ==
    LET n == Len(comments) IN
    CASE adapter = "github"   -> SubSeq(comments, 1, IF n < Page THEN n ELSE Page)
      [] adapter = "projects" -> SubSeq(comments, IF n < Page THEN 1 ELSE n - Page + 1, n)
      [] adapter = "linear"   -> SubSeq(comments, IF n = 0 THEN 1 ELSE n, n)
      [] OTHER                -> <<>>

findLatestClaimMarker(comments) ==
    LET markers == {k \in DOMAIN comments : isMarker(comments[k])}
    IN  IF markers = {} THEN NoMarker ELSE comments[Max(markers)]

\* A claim that finds the issue claimed is a repetition of the claimant's own one
\* when the latest marker says so. Linear writes no marker on release.
heldBy(c) ==
    findLatestClaimMarker(fetchComments(issue.comments)) = [kind |-> "claim", who |-> c]

--------------------------------------------------------------------------------
(* Requests *)

idle(c) == call[c].op = "none"

\* The next request of a call; the labels it has read travel with it.
goto(c, where) == call' = [call EXCEPT ![c].at = where]

\* The promise of a call is settled.
answer(c, outcome) ==
    /\ last' = <<[who |-> c, op |-> call[c].op, outcome |-> outcome,
                  alone |-> call[c].alone], last[1]>>
    /\ call' = [call EXCEPT ![c] = Idle]

setLabels(labels) == issue' = [issue EXCEPT !.labels = labels]
setState(s) == issue' = [issue EXCEPT !.state = s]
addComment(kind, who) ==
    /\ Len(issue.comments) < MaxComments
    /\ issue' = [issue EXCEPT !.comments = Append(@, [kind |-> kind, who |-> who])]

\* A request fails: the call rejects. The tracker may have applied it (`applied`)
\* when only the answer is lost.
mapNetworkError(c, applied) ==
    /\ \/ UNCHANGED issue
       \/ applied
    /\ answer(c, "error")

\* Transitions are only disturbed by each other, other calls by every one.
disturbs(by, op) ==
    by # "none" /\ op # "none" /\ (op = "transition" => by = "transition")

\* A call is alone while no other one that disturbs it overlaps with it.
Begin(c, op, target) ==
    /\ idle(c) /\ begun < MaxCalls
    /\ begun' = begun + 1
    /\ LET quiet == \A d \in Claimants : ~disturbs(call[d].op, op) IN
       call' = [d \in Claimants |->
                  IF d # c THEN [call[d] EXCEPT !.alone = @ /\ ~disturbs(op, call[d].op)]
                  ELSE [op |-> op, at |-> "first", target |-> target, alone |-> quiet,
                        seen |-> IF op = "claim" THEN item[c] ELSE {}]]
    /\ UNCHANGED <<adapter, issue, item, last>>

--------------------------------------------------------------------------------
(* GitHub issues *)

GitHubClaim(c) ==
    \/ /\ call[c].at = "first"
       /\ goto(c, IF "claim" \in issue.labels THEN "comments" ELSE "label")
       /\ UNCHANGED <<issue, last>>
    \/ /\ call[c].at = "comments"
       /\ answer(c, IF heldBy(c) THEN "claimed" ELSE "already-claimed")
       /\ UNCHANGED issue
    \/ /\ call[c].at = "label"
       /\ \/ setLabels(issue.labels \cup {"claim"}) /\ goto(c, "marker") /\ UNCHANGED last
          \/ mapNetworkError(c, setLabels(issue.labels \cup {"claim"}))
    \/ /\ call[c].at = "marker"
       /\ \/ addComment("claim", c) /\ answer(c, "claimed")
          \/ mapNetworkError(c, addComment("claim", c))

\* Removing a label that is already absent is no error.
GitHubRelease(c) ==
    \/ /\ call[c].at = "first"
       /\ \/ setLabels(issue.labels \ {"claim"}) /\ goto(c, "marker") /\ UNCHANGED last
          \/ mapNetworkError(c, setLabels(issue.labels \ {"claim"}))
    \/ /\ call[c].at = "marker"
       /\ \/ addComment("release", c) /\ answer(c, "done")
          \/ mapNetworkError(c, addComment("release", c))

\* Mutant: the target label is set at once, the others are left in place.
GitHubTransition_Additive(c) ==
    LET native == call[c].target \in {"open", "closed"} IN
    /\ call[c].at = "first"
    /\ \/ /\ IF native THEN setState(call[c].target)
             ELSE setLabels(issue.labels \cup {call[c].target})
          /\ answer(c, "done")
       \/ mapNetworkError(c, UNCHANGED issue)

\* A native state is one request; a state modelled as a label is read, cleared of
\* the other state labels it was read with, one by one, and then set.
GitHubTransition(c) ==
    LET others == (Range(StateLabels) \ {call[c].target}) \cap call[c].seen
        native == call[c].target \in {"open", "closed"}
    IN
    \/ /\ call[c].at = "first" /\ native
       /\ \/ setState(call[c].target) /\ answer(c, "done")
          \/ mapNetworkError(c, setState(call[c].target))
    \/ /\ call[c].at = "first" /\ ~native
       /\ call' = [call EXCEPT ![c].at = "labels", ![c].seen = issue.labels]
       /\ UNCHANGED <<issue, last>>
    \/ /\ call[c].at = "labels"
       /\ \E l \in others :
            \/ /\ setLabels(issue.labels \ {l})
               /\ call' = [call EXCEPT ![c].seen = @ \ {l}]
               /\ UNCHANGED last
            \/ mapNetworkError(c, setLabels(issue.labels \ {l}))
    \/ /\ call[c].at = "labels" /\ others = {}
       /\ \/ /\ setLabels(IF call[c].target \in call[c].seen THEN issue.labels
                          ELSE issue.labels \cup {call[c].target})
             /\ answer(c, "done")
          \/ mapNetworkError(c, setLabels(issue.labels \cup {call[c].target}))

--------------------------------------------------------------------------------
(* GitHub projects: the marker alone is the claim *)

ProjectsClaim(c) ==
    \/ /\ call[c].at = "first"
       /\ LET marker == findLatestClaimMarker(fetchComments(issue.comments)) IN
          IF marker.kind = "claim"
            THEN answer(c, IF marker.who = c THEN "claimed" ELSE "already-claimed")
            ELSE goto(c, "marker") /\ UNCHANGED last
       /\ UNCHANGED issue
    \/ /\ call[c].at = "marker"
       /\ \/ addComment("claim", c) /\ answer(c, "claimed")
          \/ mapNetworkError(c, addComment("claim", c))

ProjectsRelease(c) ==
    \/ addComment("release", c) /\ answer(c, "done")
    \/ mapNetworkError(c, addComment("release", c))

ProjectsTransition(c) ==
    \/ setState(call[c].target) /\ answer(c, "done")
    \/ mapNetworkError(c, setState(call[c].target))

--------------------------------------------------------------------------------
(* Jira: whether the issue is claimed is decided by the item as it was discovered *)

Discover(c) ==
    /\ adapter = "jira" /\ idle(c) /\ item[c] # issue.labels
    /\ item' = [item EXCEPT ![c] = issue.labels]
    /\ UNCHANGED <<adapter, issue, call, last, begun>>

JiraClaim(c) ==
    \/ /\ call[c].at = "first" /\ "claim" \in call[c].seen
       /\ answer(c, "already-claimed")
       /\ UNCHANGED issue
    \/ /\ call[c].at = "first" /\ "claim" \notin call[c].seen
       /\ \/ setLabels(issue.labels \cup {"claim"}) /\ goto(c, "comment") /\ UNCHANGED last
          \/ mapNetworkError(c, setLabels(issue.labels \cup {"claim"}))
    \/ /\ call[c].at = "comment"
       /\ \/ addComment("text", c) /\ answer(c, "claimed")
          \/ mapNetworkError(c, addComment("text", c))

JiraRelease(c) ==
    \/ setLabels(issue.labels \ {"claim"}) /\ answer(c, "done")
    \/ mapNetworkError(c, setLabels(issue.labels \ {"claim"}))

\* The transitions on offer depend on the state the issue is in; one that is not
\* on offer is an error.
JiraTransition(c) ==
    \/ /\ call[c].at = "first"
       /\ \/ goto(c, "post") /\ UNCHANGED last
          \/ answer(c, "error")
       /\ UNCHANGED issue
    \/ /\ call[c].at = "post"
       /\ \/ setState(call[c].target) /\ answer(c, "done")
          \/ mapNetworkError(c, setState(call[c].target))

--------------------------------------------------------------------------------
(* Linear: labels are replaced as a whole, by the set that was read plus or minus one *)

LinearClaim(c) ==
    \/ /\ call[c].at = "first"
       /\ IF "claim" \in issue.labels
            THEN answer(c, IF heldBy(c) THEN "claimed" ELSE "already-claimed")
            ELSE /\ call' = [call EXCEPT ![c].at = "label", ![c].seen = issue.labels]
                 /\ UNCHANGED last
       /\ UNCHANGED issue
    \/ /\ call[c].at = "label"
       /\ \/ setLabels(call[c].seen \cup {"claim"}) /\ goto(c, "marker") /\ UNCHANGED last
          \/ mapNetworkError(c, setLabels(call[c].seen \cup {"claim"}))
    \/ /\ call[c].at = "marker"
       /\ \/ addComment("claim", c) /\ answer(c, "claimed")
          \/ mapNetworkError(c, addComment("claim", c))

LinearRelease(c) ==
    \/ /\ call[c].at = "first"
       /\ IF "claim" \in issue.labels
            THEN /\ call' = [call EXCEPT ![c].at = "label", ![c].seen = issue.labels]
                 /\ UNCHANGED last
            ELSE answer(c, "done")
       /\ UNCHANGED issue
    \/ /\ call[c].at = "label"
       /\ \/ setLabels(call[c].seen \ {"claim"}) /\ answer(c, "done")
          \/ mapNetworkError(c, setLabels(call[c].seen \ {"claim"}))

LinearTransition(c) ==
    \/ setState(call[c].target) /\ answer(c, "done")
    \/ mapNetworkError(c, setState(call[c].target))

--------------------------------------------------------------------------------
(* The calls, the people and the specification *)

\* The next request of a call. A read fails as any request does.
Request(c) ==
    /\ ~idle(c)
    /\ \/ /\ adapter = "github"
          /\ \/ call[c].op = "claim" /\ GitHubClaim(c)
             \/ call[c].op = "release" /\ GitHubRelease(c)
             \/ call[c].op = "transition" /\ GitHubTransition(c)
       \/ /\ adapter = "projects"
          /\ \/ call[c].op = "claim" /\ ProjectsClaim(c)
             \/ call[c].op = "release" /\ ProjectsRelease(c)
             \/ call[c].op = "transition" /\ ProjectsTransition(c)
       \/ /\ adapter = "jira"
          /\ \/ call[c].op = "claim" /\ JiraClaim(c)
             \/ call[c].op = "release" /\ JiraRelease(c)
             \/ call[c].op = "transition" /\ JiraTransition(c)
       \/ /\ adapter = "linear"
          /\ \/ call[c].op = "claim" /\ LinearClaim(c)
             \/ call[c].op = "release" /\ LinearRelease(c)
             \/ call[c].op = "transition" /\ LinearTransition(c)
       \/ UNCHANGED issue /\ answer(c, "error")
    /\ UNCHANGED <<adapter, item, begun>>

\* People label, comment, close and reopen the issue; they leave the labels of
\* the workflow states alone.
PeopleAct ==
    /\ \/ setLabels(issue.labels \cup {"user"})
       \/ addComment("text", People)
       \/ \E s \in {"open", "closed"} : setState(s)
    /\ UNCHANGED <<adapter, item, call, last, begun>>

Init ==
    /\ adapter \in Adapters
    /\ issue \in [labels : {{}} \cup {{l} : l \in Range(StateLabels)}, state : {"open"},
                  comments : {<<>>}]
    /\ item = [c \in Claimants |-> issue.labels]
    /\ call = [c \in Claimants |-> Idle]
    /\ last = <<[who |-> People, op |-> "none", outcome |-> "done", alone |-> TRUE],
                [who |-> People, op |-> "none", outcome |-> "done", alone |-> TRUE]>>
    /\ begun = 0

Next ==
    \/ \E c \in Claimants :
         \/ Discover(c)
         \/ \E op \in {"claim", "release"} : Begin(c, op, "open")
         \/ \E target \in States : Begin(c, "transition", target)
         \/ Request(c)
    \/ PeopleAct

Spec == Init /\ [][Next]_vars

--------------------------------------------------------------------------------
(* Properties *)

\* A claim repeated right after it was granted, with no other call overlapping
\* either, is granted again whatever people write in between, as long as the
\* comments fit a page: the marker names the claimant (extending.md, the
\* retry-safe marker). Linear reads the last comment only and Jira the stale item.
ClaimRetryHeld ==
    adapter \in {"github", "projects"} /\ Len(issue.comments) <= Page
        => ~(/\ last[1].who = last[2].who /\ last[1].alone /\ last[2].alone
             /\ last[1].op = "claim" /\ last[1].outcome = "already-claimed"
             /\ last[2].op = "claim" /\ last[2].outcome = "claimed")

\* A transition that is reported done, and that no other transition overlapped with,
\* leaves the issue in the state asked for: of the mutually exclusive state
\* labels only the target's is left, whatever claims, releases and people do to the
\* labels and the comments in between. (Moving an issue to "open" leaves the state
\* labels in place, and a state label does not reopen a closed issue.)
TransitionReached ==
    [][\A c \in Claimants :
         (/\ call[c].op = "transition" /\ call[c].alone /\ call[c].target # "open"
          /\ idle(c)' /\ last'[1].outcome = "done" /\ last' # last)
         => \/ resolveIssueState(issue)' = call[c].target
            \/ call[c].target # "closed" /\ issue'.state = "closed"]_vars

\* A label people put on the issue is lost only to Linear's replacement of the whole
\* set, and only when it was put on between the read and the write of a claim or of a
\* release: what the read has seen is written back.
ForeignLabelsKept ==
    []["user" \in issue.labels /\ "user" \notin issue'.labels
        => /\ adapter = "linear"
           /\ \E c \in Claimants :
                /\ call[c].op \in {"claim", "release"} /\ call[c].at = "label"
                /\ "user" \notin call[c].seen /\ call'[c] # call[c]]_vars
==============================================================================
