----------------------------- MODULE QuestionsTab -----------------------------
(***************************************************************************)
(* The screening questions of the settings page (frontend/src/components/  *)
(* Settings/tabs/ScreeningQuestionsTab.jsx) and the rows they are kept in  *)
(* (backend/db/repositories/screening_questions.py): the list filtered by  *)
(* department, dragged into another order, and the form to add and edit.   *)
(*                                                                         *)
(* A drop is shown at once and saved row by row; every other write reads   *)
(* the list again.  Nothing waits for what is already on its way.          *)
(***************************************************************************)
EXTENDS Naturals, Sequences, SequencesExt, FiniteSets

CONSTANTS
    MaxQuestion,  \* bound: the ids 1..MaxQuestion
    QDeptOf,      \* [Question -> its department, or "org" for the organisation's default]
    MaxQCalls     \* bound: the calls that are on their way at a time

ASSUME QuestionAssumption == MaxQuestion \in Nat \ {0} /\ DOMAIN QDeptOf = 1..MaxQuestion /\ MaxQCalls \in Nat

Question == 1..MaxQuestion
QOwner == Range(QDeptOf) \cup {"org"}

VARIABLES
    qrows,   \* [Question -> its row: sort 0 while there is none]
    qtab,    \* the tab
    qcalls   \* calls on their way; two that are the same count as one

qVars == <<qrows, qtab, qcalls>>

QuestionsTypeOK ==
    /\ qrows \in [Question -> [active : BOOLEAN, sort : 0..MaxQuestion + 1]]
    /\ qtab.at \in {"away", "loading", "list"} /\ Range(qtab.list) \subseteq Question /\ IsInjective(qtab.list)
    /\ qtab.filter \in QOwner /\ qtab.drag \in 0..MaxQuestion /\ qtab.open \in BOOLEAN
    /\ qtab.form \in 0..MaxQuestion /\ qtab.delete \in 0..MaxQuestion
    /\ \A c \in qcalls : c.op \in {"list", "reorder", "save", "delete"} /\ c.of \in 0..MaxQuestion /\ c.here \in BOOLEAN

\* The filter "org" is "All Departments"; form 0 is a new question.
TabAway == [at |-> "away", list |-> <<>>, filter |-> "org", drag |-> 0, open |-> FALSE, form |-> 0, delete |-> 0]
NoQuestion == [active |-> FALSE, sort |-> 0]

QuestionsInit ==
    /\ qrows = [q \in Question |-> IF q = MaxQuestion THEN NoQuestion
                                   ELSE [active |-> TRUE, sort |-> q]]
    /\ qtab = TabAway /\ qcalls = {}

QCall(op, of, order) == [op |-> op, of |-> of, order |-> order, done |-> 0, here |-> TRUE]
ListCall == QCall("list", 0, <<>>)
QSends(c) == Cardinality(qcalls \cup {c}) <= MaxQCalls /\ qcalls' = qcalls \cup {c}
Becomes(c, d) == qcalls' = (qcalls \ {c}) \cup {d}

-----------------------------------------------------------------------------
\* The list.

OpenQuestions ==
    /\ qtab.at = "away" /\ QSends(ListCall)
    /\ qtab' = [TabAway EXCEPT !.at = "loading"]
    /\ UNCHANGED qrows

\* The writes that are on their way go on; nobody hears of their answers.
LeaveQuestions ==
    /\ qtab.at # "away"
    /\ qtab' = TabAway
    /\ qcalls' = {[c EXCEPT !.here = FALSE] : c \in {d \in qcalls : d.op # "list"}}
    /\ UNCHANGED qrows

\* By sort_order; what ties is ordered as the query does, defaults first.  No two
\* rows tie in all three, so there is one such list.
SortedBefore(a, b) ==
    LET SortKey(q) == <<qrows[q].sort, IF QDeptOf[q] = "org" THEN 0 ELSE 1, q>>
    IN  \E k \in 1..3 : SortKey(a)[k] < SortKey(b)[k] /\ \A j \in 1..k - 1 : SortKey(a)[j] = SortKey(b)[j]
ActiveRows == {q \in Question : qrows[q].active}
SortedLists ==
    {list \in [1..Cardinality(ActiveRows) -> ActiveRows] :
       \A i, j \in DOMAIN list : i < j => SortedBefore(list[i], list[j])}
ListServed(c) ==
    /\ c \in qcalls /\ c.op = "list" /\ c.done = 0
    /\ \E list \in SortedLists : Becomes(c, [c EXCEPT !.done = 1, !.order = list])
    /\ UNCHANGED <<qrows, qtab>>

\* Whatever order the list had meanwhile, by a drop or a later list, is replaced.
QuestionsArrive(c) ==
    /\ c \in qcalls /\ c.op = "list" /\ qcalls' = qcalls \ {c}
    /\ \/ c.done = 1 /\ qtab' = [qtab EXCEPT !.at = "list", !.list = c.order]
       \/ qtab' = [qtab EXCEPT !.at = "list"]
    /\ UNCHANGED qrows

OnList == qtab.at = "list"
\* The rows that are shown, by their places in the whole list.
ShownPlaces(list) == {i \in DOMAIN list : qtab.filter = "org" \/ QDeptOf[list[i]] = qtab.filter}
PlaceAmong(I, i) == Cardinality({j \in I : j <= i})
Filtered(list) ==
    [k \in 1..Cardinality(ShownPlaces(list)) |-> list[CHOOSE i \in ShownPlaces(list) : PlaceAmong(ShownPlaces(list), i) = k]]

FilterByDept(d) ==
    /\ OnList /\ qtab.list # <<>>
    /\ qtab' = [qtab EXCEPT !.filter = d]
    /\ UNCHANGED <<qrows, qcalls>>

-----------------------------------------------------------------------------
\* Drag and drop: the index that was picked up is read in the list of the drop.

DragStart(i) ==
    /\ OnList /\ ~qtab.open /\ qtab.delete = 0 /\ i \in DOMAIN Filtered(qtab.list)
    /\ qtab' = [qtab EXCEPT !.drag = i]
    /\ UNCHANGED <<qrows, qcalls>>
DragEnd ==
    /\ qtab.drag # 0
    /\ qtab' = [qtab EXCEPT !.drag = 0]
    /\ UNCHANGED <<qrows, qcalls>>

\* The row is taken out of the whole list and put beside the row it is dropped on.
BugAfterDrop(list, from, to) ==
    LET item == Filtered(list)[from]
        target == Filtered(list)[to]
        rest == RemoveAt(list, CHOOSE i \in DOMAIN list : list[i] = item)
    IN  InsertAt(rest, CHOOSE i \in DOMAIN rest : rest[i] = target, item)
AfterDrop(list, from, to) ==
    LET item == Filtered(list)[from]
        target == Filtered(list)[to]
        rest == RemoveAt(list, CHOOSE i \in DOMAIN list : list[i] = item)
        at == CHOOSE i \in DOMAIN rest : rest[i] = target
    IN  InsertAt(rest, IF from < to THEN at + 1 ELSE at, item)

DropOn(to) ==
    /\ OnList /\ qtab.drag # 0 /\ to \in DOMAIN Filtered(qtab.list)
    /\ IF qtab.drag = to \/ qtab.drag \notin DOMAIN Filtered(qtab.list)
         THEN qtab' = [qtab EXCEPT !.drag = 0] /\ UNCHANGED qcalls
         ELSE LET list == AfterDrop(qtab.list, qtab.drag, to)
              IN  /\ qtab' = [qtab EXCEPT !.drag = 0, !.list = list]
                  /\ QSends(QCall("reorder", 0, list))
    /\ UNCHANGED qrows

\* Row by row, each on its own: two reorders, or a list, may fall in between.
ReorderRow(c) ==
    /\ c \in qcalls /\ c.op = "reorder" /\ c.done < Len(c.order)
    /\ qrows' = [qrows EXCEPT ![c.order[c.done + 1]].sort = c.done + 1]
    /\ Becomes(c, [c EXCEPT !.done = @ + 1])
    /\ UNCHANGED qtab
ReorderAnswered(c, ok) ==
    /\ c \in qcalls /\ c.op = "reorder" /\ c.done \in (IF ok THEN {} ELSE {0}) \cup {Len(c.order)}
    /\ qcalls' = (qcalls \ {c}) \cup IF ~ok /\ c.here THEN {ListCall} ELSE {}
    /\ UNCHANGED <<qrows, qtab>>

-----------------------------------------------------------------------------
\* The form and the dialog.

\* The button of the empty list opens the form as it was last left.
AddQuestion ==
    /\ OnList /\ ~qtab.open /\ qtab.drag = 0 /\ qtab.delete = 0
    /\ \/ qtab' = [qtab EXCEPT !.open = TRUE, !.form = 0]
       \/ qtab.list = <<>> /\ qtab' = [qtab EXCEPT !.open = TRUE]
    /\ UNCHANGED <<qrows, qcalls>>
EditQuestion(i) ==
    /\ OnList /\ ~qtab.open /\ qtab.drag = 0 /\ qtab.delete = 0 /\ i \in DOMAIN Filtered(qtab.list)
    /\ qtab' = [qtab EXCEPT !.open = TRUE, !.form = Filtered(qtab.list)[i]]
    /\ UNCHANGED <<qrows, qcalls>>
CloseQuestion ==
    /\ qtab.open
    /\ qtab' = [qtab EXCEPT !.open = FALSE]
    /\ UNCHANGED <<qrows, qcalls>>

\* A new row goes behind as many rows as the list shows.
SaveQuestion ==
    /\ qtab.open
    /\ QSends(QCall("save", qtab.form, IF qtab.form = 0 THEN <<Len(qtab.list) + 1>> ELSE <<>>))
    /\ UNCHANGED <<qrows, qtab>>

\* What an edit writes is left out: the row of a question that was deleted
\* takes it too, and stays deleted.
QuestionSaved(c) ==
    /\ c \in qcalls /\ c.op = "save" /\ c.done = 0
    /\ IF c.of = 0
         THEN \E q \in {n \in Question : qrows[n].sort = 0 /\ \A k \in 1..n - 1 : qrows[k].sort # 0} :
                qrows' = [qrows EXCEPT ![q] = [active |-> TRUE, sort |-> c.order[1]]]
         ELSE UNCHANGED qrows
    /\ Becomes(c, [c EXCEPT !.done = 1])
    /\ UNCHANGED qtab

\* An answer resets and closes the form, whichever question it is on by then.
SaveArrives(c, ok) ==
    /\ c \in qcalls /\ c.op = "save" /\ (ok => c.done = 1)
    /\ IF ok /\ c.here
         THEN /\ qtab' = [qtab EXCEPT !.form = 0, !.open = FALSE]
              /\ Becomes(c, ListCall)
         ELSE qcalls' = qcalls \ {c} /\ UNCHANGED qtab
    /\ UNCHANGED qrows

AskDelete(i) ==
    /\ OnList /\ ~qtab.open /\ qtab.drag = 0 /\ qtab.delete = 0 /\ i \in DOMAIN Filtered(qtab.list)
    /\ qtab' = [qtab EXCEPT !.delete = Filtered(qtab.list)[i]]
    /\ UNCHANGED <<qrows, qcalls>>
\* ConfirmModal is locked until its call has answered, and closes then either way.
Deleting == \E c \in qcalls : c.op = "delete" /\ c.here
CloseDelete ==
    /\ qtab.delete # 0 /\ ~Deleting
    /\ qtab' = [qtab EXCEPT !.delete = 0]
    /\ UNCHANGED <<qrows, qcalls>>
ConfirmDelete ==
    /\ qtab.delete # 0 /\ ~Deleting /\ QSends(QCall("delete", qtab.delete, <<>>))
    /\ UNCHANGED <<qrows, qtab>>
DeleteArrives(c, ok) ==
    /\ c \in qcalls /\ c.op = "delete"
    /\ \/ qrows' = [qrows EXCEPT ![c.of].active = FALSE]
       \/ ~ok /\ UNCHANGED qrows
    /\ qtab' = IF c.here THEN [qtab EXCEPT !.delete = 0] ELSE qtab
    /\ qcalls' = (qcalls \ {c}) \cup IF ok /\ c.here THEN {ListCall} ELSE {}

-----------------------------------------------------------------------------
QuestionsNext ==
    \/ OpenQuestions \/ LeaveQuestions \/ DragEnd
    \/ AddQuestion \/ CloseQuestion \/ CloseDelete \/ ConfirmDelete
    \/ SaveQuestion \/ \E d \in QOwner : FilterByDept(d)
    \/ \E i \in Question : DragStart(i) \/ DropOn(i) \/ EditQuestion(i) \/ AskDelete(i)
    \/ \E c \in qcalls :
         \/ ListServed(c) \/ QuestionsArrive(c) \/ ReorderRow(c) \/ QuestionSaved(c)
         \/ \E ok \in BOOLEAN : ReorderAnswered(c, ok) \/ SaveArrives(c, ok) \/ DeleteArrives(c, ok)

QuestionsSpec == QuestionsInit /\ [][QuestionsNext]_qVars

-----------------------------------------------------------------------------
\* Dropped on the to-th row of the list that is shown, filtered or not, a question
\* becomes the to-th and the other rows, shown or hidden, keep their order.
\* About handleDrop, which maps the shown indices back to the whole list.
Above(list, a, b) == \E i, j \in DOMAIN list : i < j /\ list[i] = a /\ list[j] = b
DropLands ==
    \A from, to \in DOMAIN Filtered(qtab.list) :
      LET list == AfterDrop(qtab.list, from, to)
          item == Filtered(qtab.list)[from]
      IN  from # to =>
            /\ Filtered(list)[to] = item
            /\ IsInjective(list) /\ Range(list) = Range(qtab.list)
            /\ \A a, b \in Range(list) \ {item} : Above(list, a, b) <=> Above(qtab.list, a, b)
=============================================================================
