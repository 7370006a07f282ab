---------------------------- MODULE CompetitorsTab ----------------------------
(***************************************************************************)
(* The competitors of one department on an org head's settings page        *)
(* (frontend/src/components/Settings/tabs/CompetitorsTab.jsx).  A          *)
(* department has at most three: the form counts the rows it shows and the *)
(* server the rows it stores, before it inserts.  Nothing keeps the save   *)
(* button from being pressed twice.                                        *)
(***************************************************************************)
EXTENDS Naturals, FiniteSets

CONSTANTS
    MaxComp,       \* bound: rows ever made, two of them before the page is opened
    MaxCompCalls,  \* bound: the calls that are on their way at a time
    CompLimit      \* 3: the competitors of a department

ASSUME CompAssumption == MaxComp \in Nat /\ MaxComp >= 2 /\ MaxCompCalls \in Nat /\ CompLimit \in Nat

CompId == 1..MaxComp

VARIABLES
    comps,      \* the department's rows
    compMade,   \* ids given out
    compTab,    \* the tab: its rows, form and dialog
    compCalls   \* the calls on their way, each with whether the tab that made it is still there

compVars == <<comps, compMade, compTab, compCalls>>

CompTypeOK ==
    /\ comps \subseteq CompId /\ compMade \in 2..MaxComp
    /\ compTab \in [at : {"away", "loading", "list"}, rows : SUBSET CompId, expanded : BOOLEAN, open : BOOLEAN,
                    editing : 0..MaxComp, dept : BOOLEAN, refused : BOOLEAN, remove : 0..MaxComp]
    /\ compCalls \subseteq [op : {"list", "create", "edit", "delete"}, id : 0..MaxComp,
                            step : {"sent", "counted", "done"}, ok : BOOLEAN, here : BOOLEAN, rows : SUBSET CompId]

CompClosed == [at |-> "away", rows |-> {}, expanded |-> FALSE, open |-> FALSE, editing |-> 0,
               dept |-> FALSE, refused |-> FALSE, remove |-> 0]
CompCall(op, id) == [op |-> op, id |-> id, step |-> "sent", ok |-> FALSE, here |-> TRUE, rows |-> {}]
CompAsks(c) == Cardinality(compCalls \cup {c}) <= MaxCompCalls /\ compCalls' = compCalls \cup {c}

CompInit == comps = 1..2 /\ compMade = 2 /\ compTab = CompClosed /\ compCalls = {}

-----------------------------------------------------------------------------
OpenComps ==
    /\ compTab.at = "away" /\ CompAsks(CompCall("list", 0))
    /\ compTab' = [CompClosed EXCEPT !.at = "loading"]
    /\ UNCHANGED <<comps, compMade>>
LeaveComps ==
    /\ compTab.at # "away"
    /\ compTab' = CompClosed
    /\ compCalls' = {[c EXCEPT !.here = FALSE] : c \in {d \in compCalls : d.op # "list" /\ d.step # "done"}}
    /\ UNCHANGED <<comps, compMade>>

CompsUp == compTab.at = "list" /\ ~compTab.open /\ compTab.remove = 0
ToggleDept ==
    /\ CompsUp
    /\ compTab' = [compTab EXCEPT !.expanded = ~@]
    /\ UNCHANGED <<comps, compMade, compCalls>>
OpenAddComp ==
    /\ CompsUp
    /\ compTab' = [compTab EXCEPT !.open = TRUE, !.editing = 0, !.dept = FALSE, !.refused = FALSE]
    /\ UNCHANGED <<comps, compMade, compCalls>>
OpenEditComp(i) ==
    /\ CompsUp /\ compTab.expanded /\ i \in compTab.rows
    /\ compTab' = [compTab EXCEPT !.open = TRUE, !.editing = i, !.dept = TRUE, !.refused = FALSE]
    /\ UNCHANGED <<comps, compMade, compCalls>>
\* The department can be chosen for a new row only.
PickCompDept ==
    /\ compTab.open /\ compTab.editing = 0 /\ ~compTab.dept
    /\ compTab' = [compTab EXCEPT !.dept = TRUE]
    /\ UNCHANGED <<comps, compMade, compCalls>>
CloseCompForm ==
    /\ compTab.open
    /\ compTab' = [compTab EXCEPT !.open = FALSE]
    /\ UNCHANGED <<comps, compMade, compCalls>>

\* The form refuses on the rows it shows; a new row's id is the next one, whether or not the server makes it.
FormAllows == compTab.dept /\ Cardinality(compTab.rows \ {compTab.editing}) < CompLimit
SaveComp ==
    /\ compTab.open
    /\ compTab' = [compTab EXCEPT !.refused = ~FormAllows]
    /\ IF ~FormAllows THEN UNCHANGED <<compMade, compCalls>>
       ELSE IF compTab.editing # 0 THEN CompAsks(CompCall("edit", compTab.editing)) /\ UNCHANGED compMade
       ELSE compMade < MaxComp /\ compMade' = compMade + 1 /\ CompAsks(CompCall("create", compMade'))
    /\ UNCHANGED comps

\* The dialog has no way to be cancelled.
AskDeleteComp(i) ==
    /\ CompsUp /\ compTab.expanded /\ i \in compTab.rows
    /\ compTab' = [compTab EXCEPT !.remove = i]
    /\ UNCHANGED <<comps, compMade, compCalls>>
ConfirmDeleteComp ==
    /\ compTab.remove # 0 /\ ~\E c \in compCalls : c.op = "delete" /\ c.here
    /\ CompAsks(CompCall("delete", compTab.remove))
    /\ UNCHANGED <<comps, compMade, compTab>>

-----------------------------------------------------------------------------
CompAnswer(c, ok) == [c EXCEPT !.step = "done", !.ok = ok, !.rows = IF c.op = "list" THEN comps ELSE @]
CompReply(c, ok) == compCalls' = (compCalls \ {c}) \cup IF c.here THEN {CompAnswer(c, ok)} ELSE {}
\* The rows are counted before the new one is inserted, with nothing locked between.
CountComps(c) ==
    /\ c \in compCalls /\ c.op = "create" /\ c.step = "sent"
    /\ IF Cardinality(comps) >= CompLimit THEN CompReply(c, FALSE)
       ELSE compCalls' = (compCalls \ {c}) \cup {[c EXCEPT !.step = "counted"]}
    /\ UNCHANGED <<comps, compMade, compTab>>
InsertComp(c) ==
    /\ c \in compCalls /\ c.step = "counted"
    /\ comps' = comps \cup {c.id} /\ CompReply(c, TRUE)
    /\ UNCHANGED <<compMade, compTab>>
CompServed(c) ==
    /\ c \in compCalls /\ c.op \in {"list", "edit", "delete"} /\ c.step = "sent"
    /\ comps' = IF c.op = "delete" THEN comps \ {c.id} ELSE comps
    /\ CompReply(c, c.op = "list" \/ c.id \in comps)
    /\ UNCHANGED <<compMade, compTab>>

\* A save that went through empties and closes the form, whatever is in it by now.
CompSaved(c) ==
    /\ c \in compCalls /\ c.op \in {"create", "edit"} /\ c.step = "done"
    /\ compTab' = IF c.ok THEN [compTab EXCEPT !.open = FALSE, !.editing = 0, !.dept = FALSE]
                          ELSE [compTab EXCEPT !.refused = TRUE]
    /\ compCalls' = (compCalls \ {c}) \cup IF c.ok THEN {CompCall("list", 0)} ELSE {}
    /\ UNCHANGED <<comps, compMade>>
CompDeleted(c) ==
    /\ c \in compCalls /\ c.op = "delete" /\ c.step = "done"
    /\ compTab' = [compTab EXCEPT !.remove = 0]
    /\ compCalls' = (compCalls \ {c}) \cup IF c.ok THEN {CompCall("list", 0)} ELSE {}
    /\ UNCHANGED <<comps, compMade>>
CompListArrives(c) ==
    /\ c \in compCalls /\ c.op = "list" /\ c.step = "done"
    /\ compCalls' = compCalls \ {c}
    /\ compTab' = [compTab EXCEPT !.at = "list", !.rows = c.rows]
    /\ UNCHANGED <<comps, compMade>>
CompFails(c) ==
    /\ c \in compCalls /\ c.here
    /\ compCalls' = compCalls \ {c}
    /\ compTab' = CASE c.op = "list" -> [compTab EXCEPT !.at = "list"]
                    [] c.op = "delete" -> [compTab EXCEPT !.remove = 0]
                    [] OTHER -> [compTab EXCEPT !.refused = TRUE]
    /\ UNCHANGED <<comps, compMade>>

-----------------------------------------------------------------------------
CompNext ==
    \/ OpenComps \/ LeaveComps \/ ToggleDept \/ OpenAddComp \/ PickCompDept
    \/ CloseCompForm \/ SaveComp \/ ConfirmDeleteComp
    \/ \E i \in CompId : OpenEditComp(i) \/ AskDeleteComp(i)
    \/ \E c \in compCalls :
         \/ CountComps(c) \/ InsertComp(c) \/ CompServed(c) \/ CompSaved(c)
         \/ CompDeleted(c) \/ CompListArrives(c) \/ CompFails(c)

CompSpec == CompInit /\ [][CompNext]_compVars
=============================================================================
