----------------------------- MODULE SettingsRail -----------------------------
(***************************************************************************)
(* The settings page (frontend/src/components/Settings/SettingsPage.jsx):  *)
(* which section a member of staff is shown, by the rail and by the        *)
(* address, and the section of the approval rules (tabs/                   *)
(* ApprovalRulesTab.jsx), whose switches move before the server answers    *)
(* and move back when it refuses.                                          *)
(***************************************************************************)
EXTENDS Naturals, FiniteSets

CONSTANTS
    SetRole,       \* the roles that open the page
    SetDept,       \* the departments
    FirstDept,     \* the one that comes first, which is also a department admin's own
    MaxRuleCalls   \* bound: the calls that are on their way at a time

ASSUME SettingsAssumption ==
    /\ SetRole \subseteq {"org_head", "dept_admin", "hr", "team_lead"}
    /\ FirstDept \in SetDept /\ "none" \notin SetDept /\ MaxRuleCalls \in Nat

\* A section of each kind there is.
Section == {"profile", "ats-rules", "sourcing", "team", "departments", "approval", "appearance", "providers"}
AdminOnly == {"ats-rules", "sourcing", "team"}
OrgHeadOnly == {"departments"}
PlatformOnly == {"providers"}
HrReads == {"ats-rules", "sourcing"}

VARIABLES
    setRole,    \* the role of who is signed in
    setPage,    \* the page: the section of its address and the one it shows, "none" when away
    storedRules,     \* the rules the server has: of the departments, of the organisation, of the team lead
    ruleTab,    \* the section of the approval rules
    ruleCalls   \* the calls on their way, each with whether the tab that made it is still there

setVars == <<setRole, setPage, storedRules, ruleTab, ruleCalls>>

Rules == [hr : [SetDept -> BOOLEAN], allow : BOOLEAN, jd : BOOLEAN]
SettingsTypeOK ==
    /\ setRole \in SetRole /\ storedRules \in Rules
    /\ setPage \in [url : Section \cup {"none"}, shown : Section \cup {"none"}]
    /\ ruleTab \in [at : {"away", "loading", "form"}, depts : [SetDept -> BOOLEAN], sel : SetDept \cup {"none"},
                    hr : BOOLEAN, allow : BOOLEAN, jd : BOOLEAN]
    /\ ruleCalls \subseteq [op : {"load", "dept", "allow", "jd"}, dept : SetDept \cup {"none"},
                            value : BOOLEAN, prev : BOOLEAN, done : BOOLEAN, here : BOOLEAN, rules : Rules]

IsAdmin == setRole \in {"org_head", "dept_admin"}
\* What the address may name, and what the rail lets be clicked.
Allowed(s) ==
    /\ s \notin PlatformOnly
    /\ s \in OrgHeadOnly => setRole = "org_head"
    /\ s \in AdminOnly => IsAdmin
ReadOnly(s) == s \in HrReads /\ s \in AdminOnly /\ ~IsAdmin /\ setRole = "hr"
Locked(s) ==
    \/ s \in PlatformOnly
    \/ s \in OrgHeadOnly /\ setRole # "org_head"
    \/ s \in AdminOnly /\ ~IsAdmin /\ ~ReadOnly(s)
    \/ s = "approval" /\ setRole = "hr"

OffRules == [hr |-> [d \in SetDept |-> FALSE], allow |-> TRUE, jd |-> FALSE]
\* The switch of a team lead starts from the profile that came with the sign-in.
RulesAway == [at |-> "away", depts |-> OffRules.hr, sel |-> "none", hr |-> FALSE, allow |-> TRUE, jd |-> FALSE]
RuleCall(op, dept, value, prev) ==
    [op |-> op, dept |-> dept, value |-> value, prev |-> prev, done |-> FALSE, here |-> TRUE, rules |-> OffRules]
Unseen == {[c EXCEPT !.here = FALSE] : c \in {d \in ruleCalls : d.op # "load" /\ ~d.done}}
RuleAsks(calls, c) == Cardinality(calls \cup {c}) <= MaxRuleCalls /\ ruleCalls' = calls \cup {c}

SettingsInit ==
    /\ setRole \in SetRole /\ setPage = [url |-> "none", shown |-> "none"]
    /\ storedRules = OffRules /\ ruleTab = RulesAway /\ ruleCalls = {}

-----------------------------------------------------------------------------
\* The section shown from now on; the rules are loaded whenever theirs is opened anew.
Show(url, s) ==
    /\ setPage' = [url |-> url, shown |-> s]
    /\ IF s = "approval" THEN ruleTab' = [RulesAway EXCEPT !.at = "loading"] /\ RuleAsks(Unseen, RuleCall("load", "none", FALSE, FALSE))
                         ELSE ruleTab' = RulesAway /\ ruleCalls' = Unseen
    /\ UNCHANGED <<setRole, storedRules>>
OpenSettings(url) == setPage.shown = "none" /\ Show(url, IF Allowed(url) THEN url ELSE "profile")
\* A reload opens the page by the address it has by then.
ReloadSettings == setPage.shown # "none" /\ Show(setPage.url, IF Allowed(setPage.url) THEN setPage.url ELSE "profile")
PickSection(s) == setPage.shown \notin {"none", s} /\ ~Locked(s) /\ Show(s, s)
LeaveSettings ==
    /\ setPage.shown # "none"
    /\ setPage' = [url |-> "none", shown |-> "none"]
    /\ ruleTab' = RulesAway /\ ruleCalls' = Unseen
    /\ UNCHANGED <<setRole, storedRules>>
\* A link to another section while the page is open changes the address alone.
FollowLink(url) ==
    /\ setPage.shown # "none" /\ url # setPage.url
    /\ setPage' = [setPage EXCEPT !.url = url]
    /\ UNCHANGED <<setRole, storedRules, ruleTab, ruleCalls>>

-----------------------------------------------------------------------------
RulesServed(c) ==
    /\ c \in ruleCalls /\ ~c.done
    /\ storedRules' = CASE c.op = "dept" -> [storedRules EXCEPT !.hr[c.dept] = c.value]
                   [] c.op = "allow" -> [storedRules EXCEPT !.allow = c.value]
                   [] c.op = "jd" -> [storedRules EXCEPT !.jd = c.value]
                   [] OTHER -> storedRules
    /\ ruleCalls' = (ruleCalls \ {c}) \cup IF c.here THEN {[c EXCEPT !.done = TRUE, !.rules = IF c.op = "load" THEN storedRules ELSE @]} ELSE {}
    /\ UNCHANGED <<setRole, setPage, ruleTab>>

\* An admin gets the departments, an org head and a team lead the policy of the
\* organisation, in this order: what failed, and what comes after it, stays as it was.
LoadArrive(c, depts, org) ==
    /\ c \in ruleCalls /\ c.op = "load" /\ c.done /\ (org => depts)
    /\ ruleCalls' = ruleCalls \ {c}
    /\ LET listed == IF IsAdmin /\ depts
                     THEN [ruleTab EXCEPT !.depts = c.rules.hr, !.sel = FirstDept, !.hr = c.rules.hr[FirstDept]] ELSE ruleTab
           policy == IF setRole \in {"org_head", "team_lead"} /\ org
                     THEN [listed EXCEPT !.allow = c.rules.allow,
                                         !.jd = @ /\ (setRole = "team_lead" => c.rules.allow)] ELSE listed
       IN  ruleTab' = [policy EXCEPT !.at = "form"]
    /\ UNCHANGED <<setRole, setPage, storedRules>>

\* The chosen department's rule is taken from the list, not from the server.
PickRuleDept(d) ==
    /\ ruleTab.at = "form" /\ setRole = "org_head" /\ ruleTab.sel # d
    /\ ruleTab' = [ruleTab EXCEPT !.sel = d, !.hr = ruleTab.depts[d]]
    /\ UNCHANGED <<setRole, setPage, storedRules, ruleCalls>>
ToggleHire ==
    /\ ruleTab.at = "form" /\ IsAdmin /\ ruleTab.sel # "none"
    /\ RuleAsks(ruleCalls, RuleCall("dept", ruleTab.sel, ~ruleTab.hr, ruleTab.hr))
    /\ ruleTab' = [ruleTab EXCEPT !.hr = ~@]
    /\ UNCHANGED <<setRole, setPage, storedRules>>
TogglePolicy ==
    /\ ruleTab.at = "form" /\ setRole = "org_head"
    /\ RuleAsks(ruleCalls, RuleCall("allow", "none", ~ruleTab.allow, ruleTab.allow))
    /\ ruleTab' = [ruleTab EXCEPT !.allow = ~@]
    /\ UNCHANGED <<setRole, setPage, storedRules>>
ToggleJd ==
    /\ ruleTab.at = "form" /\ setRole = "team_lead" /\ ruleTab.allow
    /\ RuleAsks(ruleCalls, RuleCall("jd", "none", ~ruleTab.jd, ruleTab.jd))
    /\ ruleTab' = [ruleTab EXCEPT !.jd = ~@]
    /\ UNCHANGED <<setRole, setPage, storedRules>>
RuleSaved(c) ==
    /\ c \in ruleCalls /\ c.op # "load" /\ c.done
    /\ ruleCalls' = ruleCalls \ {c}
    /\ ruleTab' = IF c.op = "dept" THEN [ruleTab EXCEPT !.depts[c.dept] = c.value] ELSE ruleTab
    /\ UNCHANGED <<setRole, setPage, storedRules>>
\* The switch goes back to what it was before the click, whichever department is chosen by now.
RuleFails(c) ==
    /\ c \in ruleCalls /\ c.here
    /\ ruleCalls' = ruleCalls \ {c}
    /\ ruleTab' = CASE c.op = "load" -> [ruleTab EXCEPT !.at = "form"]
                    [] c.op = "dept" -> [ruleTab EXCEPT !.hr = c.prev]
                    [] c.op = "allow" -> [ruleTab EXCEPT !.allow = c.prev]
                    [] OTHER -> [ruleTab EXCEPT !.jd = c.prev]
    /\ UNCHANGED <<setRole, setPage, storedRules>>

-----------------------------------------------------------------------------
SettingsNext ==
    \/ ReloadSettings \/ LeaveSettings \/ ToggleHire \/ TogglePolicy \/ ToggleJd
    \/ \E s \in Section : OpenSettings(s) \/ PickSection(s) \/ FollowLink(s)
    \/ \E d \in SetDept : PickRuleDept(d)
    \/ \E c \in ruleCalls :
         \/ RulesServed(c) \/ RuleSaved(c) \/ RuleFails(c)
         \/ \E depts, org \in BOOLEAN : LoadArrive(c, depts, org)

SettingsSpec == SettingsInit /\ [][SettingsNext]_setVars
=============================================================================
