---------------------------- MODULE ManagedSection ----------------------------
(* The managed section of a work item's description, where runs without a       *)
(* workspace keep their checkpoint (checkpoints/src/work-item-section-strategy) *)
(* and workflows their documents (work.update_section of                        *)
(* orchestrator/src/actions.ts).  A call reads the description, and writes the  *)
(* whole of it back or comments; people and other runs edit it at any time, and *)
(* any request may fail, before or after the tracker has applied it.            *)
EXTENDS Naturals, Sequences, SequencesExt, FiniteSets

CONSTANTS
    Writers,   \* runs of the item
    Documents, \* what a workflow may write, each a sequence of pieces
    Texts,     \* what people write
    MaxUpdates, MaxEdits \* bounds on calls and on edits by people

VARIABLES
    body,     \* the description, a sequence of pieces: texts and delimiters
    update,   \* per run, the call in progress
    reported, \* per run, how its last call ended
    kept,     \* the texts of people that no edit of theirs has put inside the delimiters
    latest,   \* what was written last, when nobody has edited the description since
    flagged,  \* a comment flags the description for a human
    updates, edits

sectionVars == <<body, update, reported, kept, latest, flagged, updates, edits>>

BeginDelimiter == "<begin>"
EndDelimiter == "<end>"
Delimiters == {BeginDelimiter, EndDelimiter}
Status == <<"status">>
NoUpdate == [at |-> "idle", base |-> <<>>, content |-> <<>>]

--------------------------------------------------------------------------------
(* The section                                                                  *)

at(b, marker) == {i \in DOMAIN b : b[i] = marker}
indexOf(b, marker) == CHOOSE i \in at(b, marker) : \A j \in at(b, marker) : i <= j

\* Both delimiters are missing, or there is one of each in their order.
blank(b) == at(b, BeginDelimiter) \cup at(b, EndDelimiter) = {}
paired(b) ==
    /\ at(b, BeginDelimiter) # {} /\ at(b, EndDelimiter) # {}
    /\ indexOf(b, BeginDelimiter) < indexOf(b, EndDelimiter)
duplicated(b) == Cardinality(at(b, BeginDelimiter)) > 1 \/ Cardinality(at(b, EndDelimiter)) > 1
applies(b) == blank(b) \/ (paired(b) /\ ~duplicated(b))

upsertManagedSection(b, content) ==
    LET section == <<BeginDelimiter>> \o content \o <<EndDelimiter>>
    IN  CASE blank(b) -> b \o section
          [] ~blank(b) /\ applies(b) ->
                SubSeq(b, 1, indexOf(b, BeginDelimiter) - 1) \o section
                \o SubSeq(b, indexOf(b, EndDelimiter) + 1, Len(b))
          [] OTHER -> b

readManagedSection(b) ==
    IF paired(b) THEN SubSeq(b, indexOf(b, BeginDelimiter) + 1, indexOf(b, EndDelimiter) - 1)
    ELSE <<>>

\* What people have outside of the delimiters; all they have where these are damaged.
outside(b) ==
    {t \in Range(b) \cap Texts :
        paired(b) /\ ~duplicated(b) =>
            \E i \in DOMAIN b :
                /\ b[i] = t
                /\ i < indexOf(b, BeginDelimiter) \/ i > indexOf(b, EndDelimiter)}

--------------------------------------------------------------------------------
(* The calls                                                                    *)

SectionInit ==
    /\ body \in {<<>>} \cup {<<t>> : t \in Texts}
    /\ update = [r \in Writers |-> NoUpdate] /\ reported = [r \in Writers |-> "none"]
    /\ kept = outside(body) /\ latest = <<>> /\ flagged = FALSE
    /\ updates = 0 /\ edits = 0

\* A run is about to be suspended, or a node writes a document.
Start(r) ==
    /\ update[r].at = "idle" /\ updates < MaxUpdates
    /\ \E content \in {Status} \cup Documents :
          update' = [update EXCEPT ![r] = [NoUpdate EXCEPT !.at = "read", !.content = content]]
    /\ updates' = updates + 1
    /\ UNCHANGED <<body, reported, kept, latest, flagged, edits>>

getDescription(r) ==
    /\ update[r].at = "read"
    /\ update' = [update EXCEPT ![r].base = body,
                                ![r].at = IF applies(body) THEN "write" ELSE "comment"]
    /\ UNCHANGED <<body, reported, kept, latest, flagged, updates, edits>>

returns(r, how) ==
    /\ update' = [update EXCEPT ![r] = NoUpdate]
    /\ reported' = [reported EXCEPT ![r] = how]

\* The whole description is replaced: what people did to it since the read is undone.
stores(r) ==
    /\ body' = upsertManagedSection(update[r].base, update[r].content)
    /\ kept' = kept \cap outside(update[r].base)
    /\ latest' = update[r].content

updateDescription(r) ==
    /\ update[r].at = "write"
    /\ stores(r) /\ returns(r, "applied")
    /\ UNCHANGED <<flagged, updates, edits>>

comment(r) ==
    /\ update[r].at = "comment"
    /\ flagged' = TRUE /\ returns(r, "refused")
    /\ UNCHANGED <<body, kept, latest, updates, edits>>

RequestFails(r) ==
    /\ update[r].at # "idle" /\ returns(r, "failed")
    /\ \/ UNCHANGED <<body, kept, latest, flagged>>
       \/ update[r].at = "write" /\ stores(r) /\ UNCHANGED flagged
       \/ update[r].at = "comment" /\ flagged' = TRUE /\ UNCHANGED <<body, kept, latest>>
    /\ UNCHANGED <<updates, edits>>

\* People add a text or a copy of a delimiter, anywhere, or delete a piece.
PeopleEdit ==
    /\ edits < MaxEdits /\ edits' = edits + 1
    /\ \/ \E i \in 1..(Len(body) + 1), piece \in (Texts \ Range(body)) \cup Delimiters :
            body' = InsertAt(body, i, piece)
       \/ \E i \in DOMAIN body : body' = RemoveAt(body, i)
    /\ kept' = outside(body') /\ latest' = <<>>
    /\ UNCHANGED <<update, reported, flagged, updates>>

SectionNext ==
    \/ \E r \in Writers :
          Start(r) \/ getDescription(r) \/ updateDescription(r) \/ comment(r) \/ RequestFails(r)
    \/ PeopleEdit

SectionSpec == SectionInit /\ [][SectionNext]_sectionVars

--------------------------------------------------------------------------------
(* Properties                                                                   *)

\* "Preserving every character of human content outside the delimiters"
\* (core/src/checkpoints.ts), tampered or not: a text people have outside of the section
\* is in the description until they delete it, or until a call that had read the
\* description before them writes it back.
HumanTextKept == kept \subseteq Range(body)

\* What was written last is what is read back, until someone edits the description;
\* a document that quotes a delimiter is cut short there.
WrittenIsRead ==
    latest # <<>> /\ Delimiters \cap Range(latest) = {} => readManagedSection(body) = latest

\* "A body whose delimiters were tampered with is never overwritten: the checkpoint
\* records the refusal and a comment on the item flags it for a human"
\* (work-item-section-strategy.ts); and only people, or a document that quotes a
\* delimiter, tamper with them.
RefusalFlagged ==
    /\ (\E r \in Writers : reported[r] = "refused") => flagged
    /\ ~applies(body) => edits > 0 \/ \E d \in Documents : Delimiters \cap Range(d) # {}
================================================================================
