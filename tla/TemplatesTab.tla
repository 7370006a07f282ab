----------------------------- MODULE TemplatesTab -----------------------------
(***************************************************************************)
(* The message templates of the settings page (frontend/src/components/    *)
(* Settings/tabs/MessageTemplatesTab.jsx): the list, the form of a new     *)
(* template, the editor, and the draft and the analysis they ask the model *)
(* for.  A text is known by the template it was written for, 0 for the     *)
(* form; the editor that a late answer finds may be another, or none.      *)
(***************************************************************************)
EXTENDS Naturals, FiniteSets

CONSTANTS
    MaxTpl,      \* bound: the templates 1..MaxTpl, of which 1 is a default one
    MaxTplCalls  \* bound: the calls that are on their way at a time

ASSUME TemplatesAssumption == MaxTpl \in Nat \ {0} /\ MaxTplCalls \in Nat

Tpl == 1..MaxTpl
TplOrForm == 0..MaxTpl
NoTpl == MaxTpl + 1

VARIABLES
    trows,   \* [Tpl -> "unused", "live" or "deleted"]
    ttexts,  \* [Tpl -> what the template's text was written for]
    ttab,    \* the tab: what it lists, the editor, the form and the dialog
    tcalls   \* the calls on their way: done 1 is written, 2 is read, 3 was asked by a tab that is gone

tplVars == <<trows, ttexts, ttab, tcalls>>

TemplatesTypeOK ==
    /\ trows \in [Tpl -> {"unused", "live", "deleted"}] /\ ttexts \in [Tpl -> TplOrForm]
    /\ ttab \in [open : BOOLEAN, list : SUBSET Tpl, editing : Tpl \cup {NoTpl}, text : TplOrForm,
                 form : BOOLEAN, menu : BOOLEAN, analysis : TplOrForm \cup {NoTpl}, delete : Tpl \cup {NoTpl}]
    /\ tcalls \subseteq [op : {"list", "add", "save", "delete", "copy", "draft", "analyze"}, of : TplOrForm,
                         text : TplOrForm, done : 0..3, rows : SUBSET Tpl]

TplTabClosed == [open |-> FALSE, list |-> {}, editing |-> NoTpl, text |-> 0, form |-> FALSE, menu |-> FALSE,
                 analysis |-> NoTpl, delete |-> NoTpl]
TCall(op, of, text) == [op |-> op, of |-> of, text |-> text, done |-> 0, rows |-> {}]
ListTpls == TCall("list", 0, 0)

TemplatesInit ==
    /\ trows = [t \in Tpl |-> IF t < MaxTpl THEN "live" ELSE "unused"]
    /\ ttexts = [t \in Tpl |-> t] /\ ttab = TplTabClosed /\ tcalls = {}

TAsks(c) == Cardinality(tcalls \cup {c}) <= MaxTplCalls /\ tcalls' = tcalls \cup {c}
TStep(c, d) == tcalls' = (tcalls \ {c}) \cup {d}
TplWrites == {"add", "copy", "save", "delete"}
TAsking(op) == \E c \in tcalls : c.op = op /\ c.done # 3
Live == {t \in Tpl : trows[t] = "live"}
NewTpl == {t \in Tpl : trows[t] = "unused" /\ \A k \in 1..t - 1 : trows[k] # "unused"}

-----------------------------------------------------------------------------
OpenTemplates ==
    /\ ~ttab.open /\ TAsks(ListTpls)
    /\ ttab' = [TplTabClosed EXCEPT !.open = TRUE]
    /\ UNCHANGED <<trows, ttexts>>
\* What is on its way is still served; its answer finds no tab.
LeaveTemplates ==
    /\ ttab.open
    /\ ttab' = TplTabClosed
    /\ tcalls' = {[c EXCEPT !.done = 3] : c \in {d \in tcalls : d.op \in TplWrites /\ d.done \in {0, 3}}}
    /\ UNCHANGED <<trows, ttexts>>

\* The editor hides the form, and both hide the list.
EditorUp == ttab.editing # NoTpl
ListUp == ttab.open /\ ~EditorUp /\ ~ttab.form /\ ttab.delete = NoTpl

NewTemplate ==
    /\ ListUp
    /\ ttab' = [ttab EXCEPT !.form = TRUE, !.menu = FALSE, !.analysis = NoTpl]
    /\ UNCHANGED <<trows, ttexts, tcalls>>
Editing(t, text) == [ttab EXCEPT !.editing = t, !.text = text, !.menu = FALSE, !.analysis = NoTpl]
EditTemplate(t) ==
    /\ ListUp /\ t \in ttab.list
    /\ ttab' = Editing(t, ttexts[t])
    /\ UNCHANGED <<trows, ttexts, tcalls>>
CloseEditor ==
    /\ EditorUp \/ ttab.form
    /\ ttab' = IF EditorUp THEN [ttab EXCEPT !.editing = NoTpl, !.text = 0] ELSE [ttab EXCEPT !.form = FALSE]
    /\ UNCHANGED <<trows, ttexts, tcalls>>

\* Typing, and the variables that are put in at the cursor.
TypeText ==
    /\ EditorUp
    /\ ttab' = [ttab EXCEPT !.text = ttab.editing]
    /\ UNCHANGED <<trows, ttexts, tcalls>>

SaveTemplate ==
    /\ EditorUp \/ ttab.form
    /\ TAsks(IF EditorUp THEN TCall("save", ttab.editing, ttab.text) ELSE TCall("add", 0, 0))
    /\ UNCHANGED <<trows, ttexts, ttab>>
CopyTemplate(t) ==
    /\ ListUp /\ t \in ttab.list /\ TAsks(TCall("copy", t, ttexts[t]))
    /\ UNCHANGED <<trows, ttexts, ttab>>

\* The dialog is given no way to be cancelled: ConfirmModal takes onClose.  It
\* is locked until its call has answered.
AskDeleteTemplate(t) ==
    /\ ListUp /\ t \in ttab.list \ {1}
    /\ ttab' = [ttab EXCEPT !.delete = t]
    /\ UNCHANGED <<trows, ttexts, tcalls>>
ConfirmDeleteTemplate ==
    /\ ttab.delete # NoTpl /\ ~TAsking("delete") /\ TAsks(TCall("delete", ttab.delete, 0))
    /\ UNCHANGED <<trows, ttexts, ttab>>

DraftMenu ==
    /\ EditorUp \/ ttab.form
    /\ ttab.menu \/ ~TAsking("draft")
    /\ ttab' = [ttab EXCEPT !.menu = ~@]
    /\ UNCHANGED <<trows, ttexts, tcalls>>
Edited == IF EditorUp THEN ttab.editing ELSE 0
AutoDraft ==
    /\ (EditorUp \/ ttab.form) /\ ttab.menu /\ ~TAsking("draft")
    /\ TAsks(TCall("draft", Edited, Edited))
    /\ UNCHANGED <<trows, ttexts, ttab>>
AnalyzeTone ==
    /\ (EditorUp \/ ttab.form) /\ ~TAsking("analyze")
    /\ TAsks(TCall("analyze", Edited, Edited))
    /\ UNCHANGED <<trows, ttexts, ttab>>

-----------------------------------------------------------------------------
\* The server.

TplListServed(c) ==
    /\ c \in tcalls /\ <<c.op, c.done>> \in {<<"list", 0>>, <<"copy", 1>>}
    /\ TStep(c, [c EXCEPT !.done = 2, !.rows = Live])
    /\ UNCHANGED <<trows, ttexts, ttab>>

\* A new row's text is its own from then on; an edit leaves the category as it was.
TplWritten(c) ==
    /\ c \in tcalls /\ c.done \in {0, 3} /\ c.op \in TplWrites
    /\ \E t \in IF c.op \in {"add", "copy"} THEN NewTpl ELSE {c.of} :
         /\ trows' = CASE c.op \in {"add", "copy"} -> [trows EXCEPT ![t] = "live"]
                       [] c.op = "delete" -> [trows EXCEPT ![t] = "deleted"]
                       [] OTHER -> trows
         /\ ttexts' = IF c.op = "save" /\ trows[t] = "live" THEN [ttexts EXCEPT ![t] = c.text] ELSE ttexts
         /\ tcalls' = (tcalls \ {c}) \cup
               IF c.done = 3 THEN {} ELSE {[c EXCEPT !.done = 1, !.of = IF c.op = "copy" THEN t ELSE @]}
    /\ UNCHANGED ttab

-----------------------------------------------------------------------------
\* The answers.

TplListArrives(c) ==
    /\ c \in tcalls /\ c.op = "list" /\ c.done = 2
    /\ tcalls' = tcalls \ {c} /\ ttab' = [ttab EXCEPT !.list = c.rows]
    /\ UNCHANGED <<trows, ttexts>>

\* Each closes what is open by then: the editor, the form or the dialog.
TplWriteArrives(c) ==
    /\ c \in tcalls /\ c.done = 1 /\ c.op \in {"add", "save", "delete"}
    /\ TStep(c, ListTpls)
    /\ ttab' = CASE c.op = "add" -> [ttab EXCEPT !.form = FALSE]
                 [] c.op = "save" -> [ttab EXCEPT !.editing = NoTpl, !.text = 0]
                 [] OTHER -> [ttab EXCEPT !.delete = NoTpl]
    /\ UNCHANGED <<trows, ttexts>>

\* The copy is edited, whatever was being edited when it came.
CopyArrives(c) ==
    /\ c \in tcalls /\ c.op = "copy" /\ c.done = 2
    /\ tcalls' = tcalls \ {c}
    /\ ttab' = [Editing(c.of, c.of) EXCEPT !.list = c.rows]
    /\ UNCHANGED <<trows, ttexts>>

\* The draft is put into the editor as it was when the draft was asked for: one
\* that was closed meanwhile is open again, another one is replaced.
BugDraftInto(c) ==
    IF EditorUp THEN [ttab EXCEPT !.text = c.text, !.menu = FALSE, !.analysis = NoTpl]
                ELSE [ttab EXCEPT !.menu = FALSE, !.analysis = NoTpl]
DraftInto(c) ==
    IF c.of # 0 THEN Editing(c.of, c.text)
                ELSE [ttab EXCEPT !.menu = FALSE, !.analysis = NoTpl]
DraftArrives(c) ==
    /\ c \in tcalls /\ c.op = "draft"
    /\ tcalls' = tcalls \ {c} /\ ttab' = DraftInto(c)
    /\ UNCHANGED <<trows, ttexts>>
\* The analysis is shown under whatever text is edited by then.
AnalysisArrives(c) ==
    /\ c \in tcalls /\ c.op = "analyze"
    /\ tcalls' = tcalls \ {c} /\ ttab' = [ttab EXCEPT !.analysis = c.of]
    /\ UNCHANGED <<trows, ttexts>>

\* A failed delete closes its dialog, the others leave everything as it is.
TplFails(c) ==
    /\ c \in tcalls
    /\ tcalls' = tcalls \ {c}
    /\ ttab' = IF c.op = "delete" /\ c.done # 3 THEN [ttab EXCEPT !.delete = NoTpl] ELSE ttab
    /\ UNCHANGED <<trows, ttexts>>

-----------------------------------------------------------------------------
TemplatesNext ==
    \/ OpenTemplates \/ LeaveTemplates \/ NewTemplate \/ CloseEditor \/ TypeText \/ SaveTemplate
    \/ ConfirmDeleteTemplate \/ DraftMenu \/ AutoDraft \/ AnalyzeTone
    \/ \E t \in Tpl : EditTemplate(t) \/ CopyTemplate(t) \/ AskDeleteTemplate(t)
    \/ \E c \in tcalls :
         \/ TplListServed(c) \/ TplWritten(c) \/ TplListArrives(c) \/ TplWriteArrives(c)
         \/ CopyArrives(c) \/ DraftArrives(c) \/ AnalysisArrives(c) \/ TplFails(c)

TemplatesSpec == TemplatesInit /\ [][TemplatesNext]_tplVars

-----------------------------------------------------------------------------
\* What is in the editor of a template, on its way to it or stored in it was
\* written for it, whichever editor was up when a draft came.  About
\* handleAutoDraft, which sets the editor from the one it closed over.
TextUnderItsOwn ==
    /\ EditorUp => ttab.text = ttab.editing
    /\ \A c \in tcalls : c.op = "save" => c.text = c.of
    /\ \A t \in Tpl : ttexts[t] = t
=============================================================================
