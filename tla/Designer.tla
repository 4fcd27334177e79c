-------------------------------- MODULE Designer --------------------------------
(***************************************************************************)
(* The workflow designer of the desktop application (GraphEditor.tsx,      *)
(* DesignerDetail.tsx, useApiQuery.ts): windows on one definition, in each *)
(* a canvas and a YAML text over one document, and the calls of Save,      *)
(* which outlive the editor they were started from.                        *)
(***************************************************************************)
EXTENDS Definitions, FiniteSets

CONSTANTS
    Pages,      \* of the definition: a window each
    Redacted,   \* of a document: what the control plane shows of it
    Presses     \* the saves there may be

VARIABLES
    query,      \* of a window: the call that fetches the definition, and its reply
    editor,     \* of a window: what it shows, and is given by its user
    calls       \* of a press: the window, what was on the canvas, how far it has come

designerVars == <<query, editor, calls>>

Unparsed == "unparsed"
NoTimer == "none"

closed == [open |-> FALSE, doc |-> Unparsed, text |-> Unparsed, timer |-> NoTimer,
           wrong |-> FALSE, saving |-> FALSE, issues |-> FALSE]
opened(d) == [closed EXCEPT !.open = TRUE, !.doc = d, !.text = d]
texts == Documents[Root] \cup {Unparsed}

DesignerInit ==
    /\ query = [w \in Pages |-> [pc |-> "asked", version |-> 0]]
    /\ editor = [w \in Pages |-> closed]
    /\ calls = [p \in Presses |-> [pc |-> "free", by |-> CHOOSE w \in Pages : TRUE,
                                   doc |-> Unparsed, here |-> FALSE]]

onlyQuery == UNCHANGED <<versions, lifecycle, resolution, saves, turns, calls>>
onlyEditor == UNCHANGED <<versions, lifecycle, resolution, saves, turns, query, calls>>

--------------------------------------------------------------------------------
(* The definition on the screen                                                 *)

\* The daemon answers with the latest version.
ServeDefinition(w) ==
    /\ query[w].pc = "asked"
    /\ query' = [query EXCEPT ![w] = [pc |-> "answered", version |-> latest(Root)]]
    /\ onlyQuery /\ UNCHANGED editor

\* What is shown is redacted; the editor is a new one.
Show(w) ==
    /\ query[w].pc = "answered"
    /\ query' = [query EXCEPT ![w].pc = "idle"]
    /\ editor' = [editor EXCEPT ![w] = opened(Redacted[versions[Root][query[w].version]])]
    /\ onlyQuery

QueryFails(w) ==
    /\ query[w].pc \in {"asked", "answered"}
    /\ query' = [query EXCEPT ![w].pc = "failed"]
    /\ onlyQuery /\ UNCHANGED editor

\* A fetch shows the spinner in the place of the editor, and abandons the last fetch.
fetches(w) ==
    /\ query' = [query EXCEPT ![w] = [pc |-> "asked", version |-> 0]]
    /\ editor' = [editor EXCEPT ![w] = closed]

\* The connection was lost and found again.
Reconnect(w) ==
    /\ fetches(w)
    /\ calls' = [p \in Presses |-> IF calls[p].by = w THEN [calls[p] EXCEPT !.here = FALSE]
                                   ELSE calls[p]]
    /\ UNCHANGED definitionVars

--------------------------------------------------------------------------------
(* Edits                                                                        *)

\* From the canvas: a field of a node or a transition is replaced. A text typed in the
\* 0.3 seconds before would still be parsed, and take the place of this document: nobody
\* is as quick as that.
changeDocument(w, d) ==
    /\ editor[w].open /\ d # editor[w].doc /\ editor[w].timer = NoTimer
    /\ editor' = [editor EXCEPT ![w].doc = d, ![w].text = d, ![w].wrong = FALSE]
    /\ onlyEditor

changeYaml(w, text) ==
    /\ editor[w].open /\ text # editor[w].text
    /\ editor' = [editor EXCEPT ![w].text = text, ![w].timer = text]
    /\ onlyEditor

Parse(w) ==
    /\ editor[w].timer # NoTimer
    /\ editor' = [editor EXCEPT
         ![w].timer = NoTimer,
         ![w].wrong = editor[w].timer = Unparsed,
         ![w].doc = IF editor[w].timer = Unparsed THEN @ ELSE editor[w].timer]
    /\ onlyEditor

--------------------------------------------------------------------------------
(* Save                                                                         *)

\* The document of the press is the one the calls are about.
Press(w, p) ==
    /\ editor[w].open /\ ~editor[w].saving /\ ~editor[w].wrong
    /\ calls[p].pc = "free" /\ \A q \in Presses : q < p => calls[q].pc # "free"
    /\ editor' = [editor EXCEPT ![w].saving = TRUE, ![w].issues = FALSE]
    /\ calls' = [calls EXCEPT ![p] = [pc |-> "validate", by |-> w, doc |-> editor[w].doc, here |-> TRUE]]
    /\ UNCHANGED <<definitionVars, query>>

\* What a call's end does to the editor it was made from, if that is still there.
ends(p, issues) ==
    editor' = IF ~calls[p].here THEN editor
              ELSE [editor EXCEPT ![calls[p].by].saving = FALSE, ![calls[p].by].issues = issues]

\* What was on the canvas when the save was pressed.
putOf(p) == calls[p].doc

\* The daemon finds nothing wrong with the document, or the editor says what it found.
Validated(p) ==
    /\ calls[p].pc = "validate"
    /\ IF calls[p].doc \in Valid
       THEN calls' = [calls EXCEPT ![p].pc = "put"] /\ UNCHANGED editor
       ELSE calls' = [calls EXCEPT ![p].pc = "over"] /\ ends(p, TRUE)
    /\ UNCHANGED <<definitionVars, query>>

Put(p) ==
    /\ calls[p].pc = "put"
    /\ store(Root, putOf(p))
    /\ calls' = [calls EXCEPT ![p].pc = "stored", ![p].doc = putOf(p)]
    /\ UNCHANGED <<lifecycle, resolution, saves, turns, query, editor>>

\* A save that succeeded fetches the definition again, which ends its editor.
Saved(p) ==
    /\ calls[p].pc = "stored"
    /\ calls' = [q \in Presses |->
         IF q = p THEN [calls[p] EXCEPT !.pc = "over"]
         ELSE IF calls[q].by = calls[p].by THEN [calls[q] EXCEPT !.here = FALSE] ELSE calls[q]]
    /\ fetches(calls[p].by)
    /\ UNCHANGED definitionVars

\* A call that fails, before it was served or after, is reported as an issue.
CallFails(p) ==
    /\ calls[p].pc \in {"validate", "put", "stored"}
    /\ calls' = [calls EXCEPT ![p].pc = "over"]
    /\ ends(p, TRUE)
    /\ UNCHANGED <<definitionVars, query>>

DesignerNext ==
    \/ \E n \in Names : \E d \in Documents[n] : Save(n, d) /\ UNCHANGED designerVars
    \/ \E w \in Pages :
         \/ ServeDefinition(w) \/ Show(w) \/ QueryFails(w) \/ Reconnect(w)
         \/ \E d \in Documents[Root] : changeDocument(w, d)
         \/ \E text \in texts : changeYaml(w, text)
         \/ Parse(w)
         \/ \E p \in Presses : Press(w, p)
    \/ \E p \in Presses : Validated(p) \/ Put(p) \/ Saved(p) \/ CallFails(p)

DesignerSpec ==
    /\ \E contents \in Shelves : contents[Root] # <<>> /\ DefinitionsInit(contents)
    /\ DesignerInit
    /\ [][DesignerNext]_<<definitionVars, designerVars>>

--------------------------------------------------------------------------------
(* Properties                                                                   *)

\* Whatever is edited, reloaded or lost while a save is under way, what it stores is
\* what the daemon has validated, and what it reports wrong is not stored by it
\* ("Saving validates through the daemon's shared validateGraph", GraphEditor.tsx).
SavedWasValidated ==
    \A p \in Presses : calls[p].pc \in {"put", "stored"} => calls[p].doc \in Valid

\* An editor waits for at most one save, and one that waits has one under way.
OneSaveAtATime ==
    \A w \in Pages :
        LET here == {p \in Presses : calls[p].by = w /\ calls[p].here
                                     /\ calls[p].pc \notin {"free", "over"}} IN
        /\ Cardinality(here) <= 1
        /\ editor[w].saving <=> here # {}

\* Once the text is parsed and well-formed, the canvas and the text show one document
\* ("two projections of the same document", GraphEditor.tsx).
ProjectionsAgree ==
    \A w \in Pages : editor[w].open /\ editor[w].timer = NoTimer /\ ~editor[w].wrong =>
        editor[w].text = editor[w].doc
================================================================================
