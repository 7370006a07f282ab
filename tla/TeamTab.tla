------------------------------- MODULE TeamTab -------------------------------
(***************************************************************************)
(* The team directory of an org head's settings page (frontend/src/        *)
(* components/Settings/tabs/TeamTab.jsx): members are invited, given       *)
(* another role and deactivated.  One form serves the invitations and the  *)
(* edits; a save that went through empties it 800 ms before it closes.     *)
(***************************************************************************)
EXTENDS Naturals, FiniteSets

CONSTANTS
    Member,       \* accounts there are, or may be once invited
    MemberRole,   \* roles the form offers
    FormRole,     \* "hr": the role of an empty form
    MaxTeamCalls  \* bound: the calls that are on their way at a time

ASSUME TeamAssumption == FormRole \in MemberRole /\ "none" \notin Member /\ MaxTeamCalls \in Nat

VARIABLES
    accounts,  \* [Member -> its role, "none" before the invitation, and whether it is active]
    teamTab,   \* the tab: its rows, form, dialog and the timers that close the form
    teamCalls  \* the calls on their way, each with whether the tab that made it is still there

teamVars == <<accounts, teamTab, teamCalls>>

Account == [role : MemberRole \cup {"none"}, active : BOOLEAN]
TeamTypeOK ==
    /\ accounts \in [Member -> Account]
    /\ teamTab \in [at : {"away", "loading", "list"}, rows : [Member -> Account], open : BOOLEAN,
                    editing : Member \cup {"none"}, filled : BOOLEAN, role : MemberRole,
                    adding : BOOLEAN, toggle : Member \cup {"none"}, timer : BOOLEAN, filter : {"all", "nobody"}]
    /\ teamCalls \subseteq [op : {"list", "invite", "edit", "toggle"}, of : Member \cup {"none"},
                            role : MemberRole, active : BOOLEAN, ok : BOOLEAN, done : BOOLEAN,
                            here : BOOLEAN, rows : [Member -> Account]]

NoAccounts == [m \in Member |-> [role |-> "none", active |-> FALSE]]
TeamClosed == [at |-> "away", rows |-> NoAccounts, open |-> FALSE, editing |-> "none", filled |-> FALSE,
               role |-> FormRole, adding |-> FALSE, toggle |-> "none", timer |-> FALSE, filter |-> "all"]
\* "active": the new state of a toggled account, and of an invitation whether
\* its form was filled in.
TeamCall(op, of, role, active) == [op |-> op, of |-> of, role |-> role, active |-> active, ok |-> FALSE,
                                   done |-> FALSE, here |-> TRUE, rows |-> NoAccounts]
ListTeam == TeamCall("list", "none", FormRole, FALSE)
TeamAsks(c) == Cardinality(teamCalls \cup {c}) <= MaxTeamCalls /\ teamCalls' = teamCalls \cup {c}

\* One member, whom the form could demote, and the rest still to be invited.
TeamInit ==
    /\ \E m \in Member, r \in MemberRole \ {FormRole} :
         accounts = [NoAccounts EXCEPT ![m] = [role |-> r, active |-> TRUE]]
    /\ teamTab = TeamClosed /\ teamCalls = {}

-----------------------------------------------------------------------------
OpenTeam ==
    /\ teamTab.at = "away" /\ TeamAsks(ListTeam)
    /\ teamTab' = [TeamClosed EXCEPT !.at = "loading"]
    /\ UNCHANGED accounts
LeaveTeam ==
    /\ teamTab.at # "away"
    /\ teamTab' = TeamClosed
    /\ teamCalls' = {[c EXCEPT !.here = FALSE] : c \in {d \in teamCalls : d.op # "list" /\ ~d.done}}
    /\ UNCHANGED accounts

\* The rows, filtered by what is typed and chosen above them.  A filter that
\* leaves nobody takes the place of the filters as well: it cannot be undone.
FilterTeam ==
    /\ teamTab.at = "list" /\ ~teamTab.open /\ teamTab.toggle = "none" /\ teamTab.filter = "all"
    /\ \E m \in Member : teamTab.rows[m].role # "none"
    /\ teamTab' = [teamTab EXCEPT !.filter = "nobody"]
    /\ UNCHANGED <<accounts, teamCalls>>
RowUp(m) ==
    /\ teamTab.at = "list" /\ ~teamTab.open /\ teamTab.toggle = "none"
    /\ teamTab.rows[m].role # "none" /\ teamTab.filter = "all"
OpenInvite ==
    /\ teamTab.at = "list" /\ ~teamTab.open /\ teamTab.toggle = "none"
    /\ teamTab' = [teamTab EXCEPT !.open = TRUE, !.editing = "none", !.filled = FALSE, !.role = FormRole]
    /\ UNCHANGED <<accounts, teamCalls>>
OpenEdit(m) ==
    /\ RowUp(m)
    /\ teamTab' = [teamTab EXCEPT !.open = TRUE, !.editing = m, !.filled = TRUE, !.role = teamTab.rows[m].role]
    /\ UNCHANGED <<accounts, teamCalls>>
CloseTeamForm ==
    /\ teamTab.open
    /\ teamTab' = [teamTab EXCEPT !.open = FALSE]
    /\ UNCHANGED <<accounts, teamCalls>>

\* Name and address can be typed for an invitation only.
FillMember ==
    /\ teamTab.open /\ teamTab.editing = "none"
    /\ teamTab' = [teamTab EXCEPT !.filled = TRUE]
    /\ UNCHANGED <<accounts, teamCalls>>
PickMemberRole(r) ==
    /\ teamTab.open
    /\ teamTab' = [teamTab EXCEPT !.role = r]
    /\ UNCHANGED <<accounts, teamCalls>>

\* An edit sends the role of the form, which may be the emptied one.
SaveMember(m) ==
    /\ teamTab.open /\ ~teamTab.adding
    /\ IF teamTab.editing = "none" THEN accounts[m].role = "none" ELSE m = teamTab.editing
    /\ TeamAsks(TeamCall(IF teamTab.editing = "none" THEN "invite" ELSE "edit", m, teamTab.role, teamTab.filled))
    /\ teamTab' = [teamTab EXCEPT !.adding = TRUE]
    /\ UNCHANGED accounts

AskToggle(m) ==
    /\ RowUp(m)
    /\ teamTab' = [teamTab EXCEPT !.toggle = m]
    /\ UNCHANGED <<accounts, teamCalls>>
Toggling == \E c \in teamCalls : c.op = "toggle" /\ c.here
CloseToggle ==
    /\ teamTab.toggle # "none" /\ ~Toggling
    /\ teamTab' = [teamTab EXCEPT !.toggle = "none"]
    /\ UNCHANGED <<accounts, teamCalls>>
\* The opposite of what the row showed, not of what is stored.
ConfirmToggle ==
    /\ teamTab.toggle # "none" /\ ~Toggling
    /\ TeamAsks(TeamCall("toggle", teamTab.toggle, FormRole, ~teamTab.rows[teamTab.toggle].active))
    /\ UNCHANGED <<accounts, teamTab>>

-----------------------------------------------------------------------------
\* The server refuses an invitation without name and address or for an account
\* there is; it leaves out what an edit has null.
TeamServed(c) ==
    /\ c \in teamCalls /\ ~c.done
    /\ LET ok == c.op = "invite" => c.active /\ accounts[c.of].role = "none"
           served == [c EXCEPT !.done = TRUE, !.ok = ok, !.rows = IF c.op = "list" THEN accounts ELSE @]
       IN  /\ accounts' = CASE c.op = "invite" /\ ok -> [accounts EXCEPT ![c.of] = [role |-> c.role, active |-> TRUE]]
                            [] c.op = "edit" -> [accounts EXCEPT ![c.of].role = c.role]
                            [] c.op = "toggle" -> [accounts EXCEPT ![c.of].active = c.active]
                            [] OTHER -> accounts
           /\ teamCalls' = (teamCalls \ {c}) \cup IF c.here THEN {served} ELSE {}
    /\ UNCHANGED teamTab

\* Saved: the form is emptied, whatever is in it by now, but its member stays;
\* the timer closes it, whatever it was opened for since.
MemberSaved(c) ==
    /\ c \in teamCalls /\ c.op \in {"invite", "edit"} /\ c.done
    /\ teamTab' = IF c.ok THEN [teamTab EXCEPT !.filled = FALSE, !.role = FormRole, !.adding = FALSE, !.timer = TRUE]
                          ELSE [teamTab EXCEPT !.adding = FALSE]
    /\ teamCalls' = (teamCalls \ {c}) \cup IF c.ok THEN {ListTeam} ELSE {}
    /\ UNCHANGED accounts
FormTimer ==
    /\ teamTab.timer
    /\ teamTab' = [teamTab EXCEPT !.timer = FALSE, !.open = FALSE]
    /\ UNCHANGED <<accounts, teamCalls>>
ToggleAnswered(c) ==
    /\ c \in teamCalls /\ c.op = "toggle" /\ c.done
    /\ teamTab' = [teamTab EXCEPT !.toggle = "none"]
    /\ teamCalls' = (teamCalls \ {c}) \cup {ListTeam}
    /\ UNCHANGED accounts
TeamListArrives(c) ==
    /\ c \in teamCalls /\ c.op = "list" /\ c.done
    /\ teamCalls' = teamCalls \ {c}
    /\ teamTab' = [teamTab EXCEPT !.at = "list", !.rows = c.rows]
    /\ UNCHANGED accounts
\* Lost, or refused: the directory stays as it was; the dialog closes all the same.
TeamFails(c) ==
    /\ c \in teamCalls /\ c.here
    /\ teamCalls' = teamCalls \ {c}
    /\ teamTab' = CASE c.op = "list" -> [teamTab EXCEPT !.at = "list"]
                    [] c.op = "toggle" -> [teamTab EXCEPT !.toggle = "none"]
                    [] OTHER -> [teamTab EXCEPT !.adding = FALSE]
    /\ UNCHANGED accounts

-----------------------------------------------------------------------------
TeamNext ==
    \/ OpenTeam \/ LeaveTeam \/ FilterTeam \/ OpenInvite \/ CloseTeamForm \/ FillMember
    \/ CloseToggle \/ ConfirmToggle \/ FormTimer
    \/ \E m \in Member : OpenEdit(m) \/ SaveMember(m) \/ AskToggle(m)
    \/ \E r \in MemberRole : PickMemberRole(r)
    \/ \E c \in teamCalls :
         \/ TeamServed(c) \/ MemberSaved(c) \/ ToggleAnswered(c)
         \/ TeamListArrives(c) \/ TeamFails(c)

TeamSpec == TeamInit /\ [][TeamNext]_teamVars
=============================================================================
