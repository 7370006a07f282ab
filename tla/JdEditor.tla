------------------------------ MODULE JdEditor ------------------------------
(***************************************************************************)
(* The JD on the chat canvas: the document with its inclusivity check,    *)
(* inline fixes and edits (components/Chat/cards/FinalJDCard), the part   *)
(* of ChatContext that streams into it, and what save-draft and the       *)
(* stream write to the session's row.  Of the modal that turns the JD     *)
(* into a position (PositionSetup) there is here what the document sees:  *)
(* that it is up, that a submission finalizes the chat and leaves it, and *)
(* that the position it makes, or a reviewer, locks and unlocks the chat. *)
(*                                                                         *)
(* A text is a number, 0 for none; an edit, a fix or a rewrite makes the  *)
(* next one.                                                              *)
(***************************************************************************)
EXTENDS Naturals, FiniteSets

CONSTANTS
    MaxText,     \* bound: texts ever made
    MaxFix,      \* bound: suggestions of one check that match the text
    MaxDraft     \* bound: save-draft calls in flight

ASSUME EditorAssumption ==
    MaxText \in Nat \ {0} /\ MaxFix \in Nat \ {0} /\ MaxDraft \in Nat \ {0}

VARIABLES
    row,       \* the session's row: JD, check result, stage, and the position's lock
    editor,    \* FinalJDCard and the part of ChatContext it shows
    stream,    \* the turn the page reads
    orphan,    \* a turn it stopped reading, which the server may still finish
    drafts,    \* save-draft calls on their way
    modal,     \* PositionSetupModal is up
    made       \* the last text made

editorVars == <<row, editor, stream, orphan, drafts, modal, made>>

Text == 0 .. MaxText
DraftStage == {"final_jd", "bias_check", "complete"}
Issues == {"unknown", "clean", "some"}

EditorTypeOK ==
    /\ row \in [final : Text, issues : Issues, stage : DraftStage, locked : BOOLEAN]
    /\ editor \in [on : BOOLEAN, final : Text, edited : Text, prev : Text, editing : BOOLEAN,
                   busy : BOOLEAN, done : BOOLEAN, fixes : 0 .. MaxFix, open : 0 .. MaxFix,
                   unsaved : BOOLEAN, stage : DraftStage, readOnly : BOOLEAN]
    /\ stream \in [kind : {"none", "check", "rewrite", "finalize"},
                   at : {"sent", "shown", "over"}, text : Text, n : 0 .. MaxFix]
    /\ orphan \in {0} \cup (1 .. MaxText)
    /\ drafts \subseteq [text : Text, bias : BOOLEAN, by : {"button", "effect", "nobody"},
                       ok : {"sent", "yes", "no"}]
    /\ modal \in BOOLEAN
    /\ made \in Text

NoStream == [kind |-> "none", at |-> "over", text |-> 0, n |-> 0]

\* What a load shows: the JD of the row, with the result of its last check.
Loaded(n) ==
    [on |-> row.final # 0, final |-> row.final, edited |-> row.final, prev |-> row.final,
     editing |-> FALSE, busy |-> FALSE,
     done |-> row.issues = "clean" \/ (row.issues = "some" /\ n = 0),
     fixes |-> IF row.issues = "some" THEN n ELSE 0,
     open |-> IF row.issues = "some" THEN n ELSE 0,
     unsaved |-> row.stage # "final_jd", stage |-> row.stage, readOnly |-> row.locked]

\* A JD was drafted; the state it was drafted in starts with an empty list of
\* issues (agents/state.py).
EditorInit ==
    /\ row = [final |-> 1, issues |-> "clean", stage |-> "final_jd", locked |-> FALSE]
    /\ editor = [on |-> TRUE, final |-> 1, edited |-> 1, prev |-> 1, editing |-> FALSE,
                 busy |-> FALSE, done |-> FALSE, fixes |-> 0, open |-> 0, unsaved |-> TRUE,
                 stage |-> "final_jd", readOnly |-> FALSE]
    /\ stream = NoStream /\ orphan = 0 /\ drafts = {}
    /\ modal = FALSE
    /\ made = 1

-----------------------------------------------------------------------------
\* The effects that run after a commit.

\* The text shown follows ChatContext's unless it is being edited.
FollowLive(old, new) ==
    IF ~new.editing /\ (new.final # old.final \/ old.editing)
    THEN [new EXCEPT !.edited = new.final] ELSE new

\* A changed final JD resets the check, unless there was none just before.
ResetCheck(old, new) ==
    IF new.final = old.final THEN new
    ELSE [new EXCEPT !.prev = new.final,
                     !.done = @ /\ ~(new.final # 0 /\ new.prev # 0),
                     !.fixes = IF new.final # 0 /\ new.prev # 0 THEN 0 ELSE @,
                     !.open = IF new.final # 0 /\ new.prev # 0 THEN 0 ELSE @]

Committed(new) == ResetCheck(editor, FollowLive(editor, new))
Commits(new) == editor' = Committed(new)

Sent(t, bias, by) == [text |-> t, bias |-> bias, by |-> by, ok |-> "sent"]

\* Every suggestion is resolved: the check is done and the text saved.
Resolve(new) ==
    IF new.open = 0
    THEN /\ editor' = [new EXCEPT !.done = TRUE, !.busy = FALSE]
         /\ drafts' = drafts \cup {Sent(new.edited, TRUE, "effect")}
    ELSE editor' = new /\ UNCHANGED drafts

-----------------------------------------------------------------------------
\* The document goes from the page, with its modal and all it showed; what was asked
\* goes on, unheard.
Gone == [on |-> FALSE, final |-> 0, edited |-> 0, prev |-> 0, editing |-> FALSE, busy |-> FALSE,
         done |-> FALSE, fixes |-> 0, open |-> 0, unsaved |-> TRUE, stage |-> "final_jd",
         readOnly |-> FALSE]

Unmounts ==
    /\ editor' = Gone
    /\ drafts' = {[d EXCEPT !.by = "nobody"] : d \in {e \in drafts : e.ok = "sent"}}
    /\ modal' = FALSE

\* A turn changes what is shown while the document is.
Shows(new) == editor' = IF editor.on THEN new ELSE editor

-----------------------------------------------------------------------------
\* The document.

Idle == editor.on /\ ~modal
Editable == editor.stage # "complete" /\ ~editor.readOnly
JdStreaming == stream.kind = "rewrite"
Streaming == stream.kind # "none"
CanDraft == Cardinality(drafts) < MaxDraft
BugWidgets == Idle /\ ~editor.editing /\ CanDraft
Widgets == Idle /\ ~editor.editing /\ editor.open > 0 /\ CanDraft

\* The footer with the check, Save draft and Finalize.
Footer == Idle /\ ~JdStreaming /\ Editable

AcceptFix ==
    /\ Widgets /\ made < MaxText
    /\ made' = made + 1
    /\ Resolve([editor EXCEPT !.edited = made + 1, !.open = @ - 1, !.unsaved = TRUE])
    /\ UNCHANGED <<row, stream, orphan, modal>>

RejectFix ==
    /\ Widgets
    /\ Resolve([editor EXCEPT !.open = @ - 1, !.unsaved = TRUE])
    /\ UNCHANGED <<row, stream, orphan, modal, made>>

AcceptAll ==
    /\ Widgets /\ editor.open > 1 /\ made < MaxText
    /\ made' = made + 1
    /\ Resolve([editor EXCEPT !.edited = made + 1, !.open = 0, !.unsaved = TRUE])
    /\ UNCHANGED <<row, stream, orphan, modal>>

SaveDraft ==
    /\ Footer /\ ~editor.busy /\ editor.unsaved /\ CanDraft
    /\ drafts' = drafts \cup {Sent(editor.edited, FALSE, "button")}
    /\ UNCHANGED <<row, editor, stream, orphan, modal, made>>

StartEdit ==
    /\ Idle /\ Editable /\ ~editor.editing /\ ~editor.busy
    /\ Commits([editor EXCEPT !.editing = TRUE])
    /\ UNCHANGED <<row, stream, orphan, drafts, modal, made>>

\* Saving an edit clears the check and tells the server, whatever it answers.
SaveEdit ==
    /\ Idle /\ Editable /\ editor.editing /\ CanDraft /\ made < MaxText
    /\ made' = made + 1
    /\ Commits([editor EXCEPT !.edited = made + 1, !.final = made + 1, !.editing = FALSE,
                              !.done = FALSE, !.fixes = 0, !.open = 0])
    /\ drafts' = drafts \cup {Sent(made + 1, FALSE, "effect")}
    /\ UNCHANGED <<row, stream, orphan, modal>>

CancelEdit ==
    /\ Idle /\ Editable /\ editor.editing
    /\ Commits([editor EXCEPT !.editing = FALSE])
    /\ UNCHANGED <<row, stream, orphan, drafts, modal, made>>

\* save-draft on the server: refused while the position is locked.
DraftServed(d) ==
    /\ d \in drafts /\ d.ok = "sent"
    /\ IF row.locked
       THEN UNCHANGED row
       ELSE row' = [row EXCEPT !.final = d.text, !.issues = IF d.bias THEN "clean" ELSE "unknown",
                               !.stage = IF @ = "bias_check" THEN "final_jd" ELSE @]
    /\ drafts' = (drafts \ {d}) \cup {[d EXCEPT !.ok = IF row.locked THEN "no" ELSE "yes"]}
    /\ UNCHANGED <<editor, stream, orphan, modal, made>>

\* Only the button looks at the status of the answer; a document that is gone hears none.
DraftAnswered(d) ==
    /\ d \in drafts /\ d.ok # "sent"
    /\ drafts' = drafts \ {d}
    /\ editor' = IF d.by = "effect" \/ (d.by = "button" /\ d.ok = "yes")
                 THEN [editor EXCEPT !.unsaved = FALSE] ELSE editor
    /\ UNCHANGED <<row, stream, orphan, modal, made>>

\* A network error is logged.
DraftLost(d) ==
    /\ d \in drafts
    /\ drafts' = drafts \ {d}
    /\ UNCHANGED <<row, editor, stream, orphan, modal, made>>

-----------------------------------------------------------------------------
\* Turns of the stream.

\* sendMessage aborts the turn in flight.
Turns(kind, text) ==
    /\ stream' = [kind |-> kind, at |-> "sent", text |-> text, n |-> 0]
    /\ orphan' = IF stream.kind \in {"check", "rewrite"} /\ stream.at # "over"
                 THEN stream.text ELSE orphan

CheckBias ==
    /\ Footer /\ ~editor.busy /\ ~editor.done /\ editor.open = 0
    /\ Turns("check", editor.edited)
    /\ editor' = [editor EXCEPT !.busy = TRUE]
    /\ UNCHANGED <<row, drafts, modal, made>>

\* The composer on a JD: the text is cleared while the agent rewrites it.
Rewrite ==
    /\ Idle /\ Editable /\ ~Streaming /\ editor.final # 0 /\ made < MaxText
    /\ made' = made + 1
    /\ Turns("rewrite", made + 1)
    /\ Commits([editor EXCEPT !.final = 0])
    /\ UNCHANGED <<row, drafts, modal>>

\* The endpoint answers 409 while the position is locked; the page shows an error.
\* Without a JD and a stream the document is not rendered.
StreamBreaks ==
    /\ Streaming
    /\ \/ stream.at = "sent" /\ row.locked /\ orphan' = orphan
       \/ orphan' = IF stream.kind \in {"check", "rewrite"} /\ stream.at # "over"
                    THEN stream.text ELSE orphan
    /\ stream' = NoStream
    /\ IF editor.final = 0 THEN Unmounts ELSE UNCHANGED <<editor, drafts, modal>>
    /\ UNCHANGED <<row, made>>

\* The card of the check, before anything is persisted.
BiasCard(n) ==
    /\ stream.kind = "check" /\ stream.at = "sent" /\ ~row.locked
    /\ stream' = [stream EXCEPT !.at = "shown", !.n = n]
    /\ Shows([editor EXCEPT !.fixes = n, !.open = n, !.busy = FALSE, !.done = n = 0,
                            !.stage = "bias_check"])
    /\ UNCHANGED <<row, orphan, drafts, modal, made>>

\* The rewritten JD, before anything is persisted.
Rewritten ==
    /\ stream.kind = "rewrite" /\ stream.at = "sent" /\ ~row.locked
    /\ stream' = [stream EXCEPT !.at = "shown"]
    /\ Shows(Committed([editor EXCEPT !.final = stream.text, !.stage = "final_jd"]))
    /\ UNCHANGED <<row, orphan, drafts, modal, made>>

\* The state read at the start of the turn overwrites the row.
TurnPersists ==
    /\ stream.kind \in {"check", "rewrite"} /\ stream.at = "shown"
    /\ row' = IF stream.kind = "check"
              THEN [row EXCEPT !.final = stream.text, !.stage = "bias_check",
                               !.issues = IF stream.n = 0 THEN "clean" ELSE "some"]
              ELSE [row EXCEPT !.final = stream.text, !.stage = "final_jd"]
    /\ stream' = [stream EXCEPT !.at = "over"]
    /\ UNCHANGED <<editor, orphan, drafts, modal, made>>

Finalized ==
    /\ stream.kind = "finalize" /\ stream.at = "sent" /\ ~row.locked
    /\ stream' = [stream EXCEPT !.at = "over"]
    /\ row' = [row EXCEPT !.stage = "complete", !.issues = "unknown"]
    /\ Shows([editor EXCEPT !.stage = "complete"])
    /\ UNCHANGED <<orphan, drafts, modal, made>>

\* done: the composer is free, and the read-only flag is refreshed from the row.
TurnEnds ==
    /\ Streaming /\ stream.at = "over"
    /\ stream' = NoStream
    /\ Shows([editor EXCEPT !.readOnly = row.locked])
    /\ UNCHANGED <<row, orphan, drafts, modal, made>>

\* The server finishes a turn nobody reads, or notices and cancels it.
OrphanEnds ==
    /\ orphan # 0 /\ orphan' = 0
    /\ row' \in {row, [row EXCEPT !.final = orphan]}
    /\ UNCHANGED <<editor, stream, drafts, modal, made>>

-----------------------------------------------------------------------------
\* Finalize, the modal, and leaving the document.

OpenModal ==
    /\ Footer /\ ~editor.busy /\ editor.done
    /\ modal' = TRUE
    /\ UNCHANGED <<row, editor, stream, orphan, drafts, made>>

CloseModal ==
    /\ modal /\ modal' = FALSE
    /\ UNCHANGED <<row, editor, stream, orphan, drafts, made>>

\* An accepted submission finalizes the chat, wherever its modal is.
SubmissionTaken ==
    /\ Turns("finalize", 0)
    /\ UNCHANGED <<row, editor, drafts, modal, made>>

\* A position is linked, submitted or decided.
PositionMoves ==
    /\ row' = [row EXCEPT !.locked = ~@]
    /\ UNCHANGED <<editor, stream, orphan, drafts, modal, made>>

\* The recruiter, or the timer of a saved position, goes to another page or session;
\* ChatContext goes on reading its turn.
LeaveChat ==
    /\ editor.on /\ Unmounts
    /\ UNCHANGED <<row, stream, orphan, made>>

\* The tab is closed or loaded afresh: nobody reads the turn.
CloseTab ==
    /\ Unmounts
    /\ stream' = NoStream
    /\ orphan' = IF stream.kind \in {"check", "rewrite"} /\ stream.at # "over"
                 THEN stream.text ELSE orphan
    /\ UNCHANGED <<row, made>>

\* The session is loaded again.
LoadSession(n) ==
    /\ ~editor.on
    /\ editor' = Loaded(n)
    /\ UNCHANGED <<row, stream, orphan, drafts, modal, made>>

Document == AcceptFix \/ RejectFix \/ AcceptAll \/ SaveDraft \/ StartEdit \/ SaveEdit \/ CancelEdit
Drafts == \E d \in drafts : DraftServed(d) \/ DraftAnswered(d) \/ DraftLost(d)
Turning == \/ CheckBias \/ Rewrite \/ StreamBreaks \/ Rewritten \/ TurnPersists \/ Finalized
           \/ TurnEnds \/ OrphanEnds \/ \E n \in 0 .. MaxFix : BiasCard(n)
Leaving == \/ OpenModal \/ CloseModal \/ SubmissionTaken \/ PositionMoves \/ LeaveChat
           \/ CloseTab \/ \E n \in 0 .. MaxFix : LoadSession(n)

EditorNext == Document \/ Drafts \/ Turning \/ Leaving

EditorSpec == EditorInit /\ [][EditorNext]_editorVars
=============================================================================
