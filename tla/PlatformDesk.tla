----------------------------- MODULE PlatformDesk -----------------------------
(***************************************************************************)
(* The platform administrator's page (frontend/src/components/Platform/    *)
(* PlatformPage.jsx): the figures of every organisation, a table whose     *)
(* rows fetch their details when they are opened, and the form of the      *)
(* platform's API keys (Settings/tabs/ProvidersTab.jsx), which go to the   *)
(* server as they were typed and come back masked.                         *)
(***************************************************************************)
EXTENDS Naturals, FiniteSets

CONSTANTS
    Org,           \* the organisations of the table
    MaxKey,        \* bound: keys typed into the form
    MaxPlatCalls   \* bound: the calls that are on their way at a time

ASSUME PlatAssumption == "none" \notin Org /\ MaxKey \in Nat \ {0} /\ MaxPlatCalls \in Nat

PlatTab == {"overview", "orgs", "activity", "providers"}

VARIABLES
    plat,        \* the page: its tab, whether it loads and has its rows, and the table of the orgs tab
    keyForm,     \* the form of the keys: what is typed, 0 for nothing, and whether a save is on its way
    typedKeys,   \* keys typed so far
    storedKey,   \* the key the server works with
    keySends,    \* [key -> the saves that carried it]
    platCalls    \* the calls on their way, each with whether what made it is still shown

platVars == <<plat, keyForm, typedKeys, storedKey, keySends, platCalls>>

PlatTypeOK ==
    /\ plat \in [at : {"away", "in"}, tab : PlatTab, loading : BOOLEAN, rows : BOOLEAN,
                 open : Org \cup {"none"}, cached : SUBSET Org, spins : Org \cup {"none"}]
    /\ keyForm \in [at : {"away", "loading", "form", "error"}, key : 0..MaxKey, saving : BOOLEAN]
    /\ typedKeys \in 0..MaxKey /\ storedKey \in 0..MaxKey /\ keySends \in [1..MaxKey -> Nat]
    /\ platCalls \subseteq [op : {"load", "detail", "providers", "save"}, org : Org \cup {"none"},
                            key : 0..MaxKey, done : BOOLEAN, here : BOOLEAN]

PlatAway == [at |-> "away", tab |-> "overview", loading |-> TRUE, rows |-> FALSE,
             open |-> "none", cached |-> {}, spins |-> "none"]
NoTable(page) == [page EXCEPT !.open = "none", !.cached = {}, !.spins = "none"]
FormAway == [at |-> "away", key |-> 0, saving |-> FALSE]
PlatCall(op, org, key) == [op |-> op, org |-> org, key |-> key, done |-> FALSE, here |-> TRUE]
PlatAsks(calls, c) == Cardinality(calls \cup {c}) <= MaxPlatCalls /\ platCalls' = calls \cup {c}
LoadAll == PlatCall("load", "none", 0)

PlatInit ==
    /\ plat = PlatAway /\ keyForm = FormAway /\ typedKeys = 0 /\ storedKey = 0
    /\ keySends = [k \in 1..MaxKey |-> 0] /\ platCalls = {}

-----------------------------------------------------------------------------
\* What is left of the calls when the table, or the form, goes away: a save that
\* was sent is still served.
WithoutTable(calls) == {c \in calls : c.op # "detail"}
WithoutForm(calls) == {c \in calls : c.op \in {"load", "detail"}}
                      \cup {[c EXCEPT !.here = FALSE] : c \in {d \in calls : d.op = "save" /\ ~d.done}}

EnterPlatform ==
    /\ plat.at = "away" /\ PlatAsks(platCalls, LoadAll)
    /\ plat' = [PlatAway EXCEPT !.at = "in"]
    /\ UNCHANGED <<keyForm, typedKeys, storedKey, keySends>>
SignOutOfPlatform ==
    /\ plat.at = "in"
    /\ plat' = PlatAway /\ keyForm' = FormAway
    /\ platCalls' = {c \in WithoutForm(platCalls) : c.op = "save"}
    /\ UNCHANGED <<typedKeys, storedKey, keySends>>
\* The rows of the orgs tab give way to a line of text while they are loaded anew.
RefreshPlatform ==
    /\ plat.at = "in" /\ ~plat.loading
    /\ PlatAsks(IF plat.tab = "orgs" THEN WithoutTable(platCalls) ELSE platCalls, LoadAll)
    /\ plat' = [(IF plat.tab = "orgs" THEN NoTable(plat) ELSE plat) EXCEPT !.loading = TRUE]
    /\ UNCHANGED <<keyForm, typedKeys, storedKey, keySends>>
PickPlatTab(t) ==
    /\ plat.at = "in" /\ t # plat.tab
    /\ plat' = [NoTable(plat) EXCEPT !.tab = t]
    /\ LET left == WithoutTable(IF plat.tab = "providers" THEN WithoutForm(platCalls) ELSE platCalls)
       IN  IF t = "providers" THEN PlatAsks(left, PlatCall("providers", "none", 0)) ELSE platCalls' = left
    /\ keyForm' = IF t = "providers" THEN [FormAway EXCEPT !.at = "loading"] ELSE FormAway
    /\ UNCHANGED <<typedKeys, storedKey, keySends>>

\* A row that is opened fetches its details, unless they were fetched before; a
\* second call for the same row is told from the first by its number.
DetailCall(o) == PlatCall("detail", o, IF PlatCall("detail", o, 0) \in platCalls THEN 1 ELSE 0)
OrgsUp == plat.at = "in" /\ plat.tab = "orgs" /\ ~plat.loading /\ plat.rows
OpenOrg(o) ==
    /\ OrgsUp /\ plat.open # o
    /\ IF o \in plat.cached THEN plat' = [plat EXCEPT !.open = o] /\ UNCHANGED platCalls
       ELSE plat' = [plat EXCEPT !.open = o, !.spins = o] /\ PlatAsks(platCalls, DetailCall(o))
    /\ UNCHANGED <<keyForm, typedKeys, storedKey, keySends>>
CloseOrg ==
    /\ OrgsUp /\ plat.open # "none"
    /\ plat' = [plat EXCEPT !.open = "none"]
    /\ UNCHANGED <<keyForm, typedKeys, storedKey, keySends, platCalls>>
\* The answer of any row ends the waiting of the row that waits.
OrgArrives(c, ok) ==
    /\ c \in platCalls /\ c.op = "detail"
    /\ plat' = [plat EXCEPT !.cached = IF ok THEN @ \cup {c.org} ELSE @, !.spins = "none"]
    /\ platCalls' = platCalls \ {c}
    /\ UNCHANGED <<keyForm, typedKeys, storedKey, keySends>>
PlatformArrives(c, ok) ==
    /\ c \in platCalls /\ c.op = "load"
    /\ plat' = [plat EXCEPT !.loading = FALSE, !.rows = @ \/ ok]
    /\ platCalls' = platCalls \ {c}
    /\ UNCHANGED <<keyForm, typedKeys, storedKey, keySends>>
\* What the row of an organisation shows under it.
Details(o) ==
    CASE plat.open # o -> "closed"
      [] plat.open = o /\ plat.spins = o -> "loading"
      [] plat.open = o /\ plat.spins # o /\ o \in plat.cached -> "panel"
      [] OTHER -> "failed"

-----------------------------------------------------------------------------
TypeKey ==
    /\ keyForm.at = "form" /\ typedKeys < MaxKey
    /\ typedKeys' = typedKeys + 1 /\ keyForm' = [keyForm EXCEPT !.key = typedKeys']
    /\ UNCHANGED <<plat, storedKey, keySends, platCalls>>
SaveProviders ==
    /\ keyForm.at = "form" /\ ~keyForm.saving
    /\ PlatAsks(platCalls, PlatCall("save", "none", keyForm.key))
    /\ keyForm' = [keyForm EXCEPT !.saving = TRUE]
    /\ keySends' = [k \in 1..MaxKey |-> keySends[k] + (IF k = keyForm.key THEN 1 ELSE 0)]
    /\ UNCHANGED <<plat, typedKeys, storedKey>>
\* A key left blank keeps the one there is.
ProvidersStored(c) ==
    /\ c \in platCalls /\ c.op = "save" /\ ~c.done
    /\ storedKey' = IF c.key = 0 THEN storedKey ELSE c.key
    /\ platCalls' = (platCalls \ {c}) \cup IF c.here THEN {[c EXCEPT !.done = TRUE]} ELSE {}
    /\ UNCHANGED <<plat, keyForm, typedKeys, keySends>>

\* The mutant of FormSaved: the keys stay in the form.
BugFormSaved == [keyForm EXCEPT !.saving = FALSE]
\* After a save the form holds no key: neither the saved one nor one typed since.
FormSaved == [keyForm EXCEPT !.saving = FALSE, !.key = 0]
ProvidersSaved(c) ==
    /\ c \in platCalls /\ c.op = "save" /\ c.done
    /\ keyForm' = FormSaved
    /\ platCalls' = platCalls \ {c}
    /\ UNCHANGED <<plat, typedKeys, storedKey, keySends>>
ProvidersArrive(c) ==
    /\ c \in platCalls /\ c.op = "providers"
    /\ keyForm' = [keyForm EXCEPT !.at = "form", !.key = 0]
    /\ platCalls' = platCalls \ {c}
    /\ UNCHANGED <<plat, typedKeys, storedKey, keySends>>
\* An error takes the place of the form until the tab is opened again.
ProvidersFail(c) ==
    /\ c \in platCalls /\ c.op \in {"providers", "save"} /\ c.here
    /\ keyForm' = [keyForm EXCEPT !.at = "error", !.saving = FALSE]
    /\ platCalls' = platCalls \ {c}
    /\ UNCHANGED <<plat, typedKeys, storedKey, keySends>>

-----------------------------------------------------------------------------
PlatNext ==
    \/ EnterPlatform \/ SignOutOfPlatform \/ RefreshPlatform \/ CloseOrg \/ TypeKey \/ SaveProviders
    \/ \E t \in PlatTab : PickPlatTab(t)
    \/ \E o \in Org : OpenOrg(o)
    \/ \E c \in platCalls :
         \/ \E ok \in BOOLEAN : OrgArrives(c, ok) \/ PlatformArrives(c, ok)
         \/ ProvidersStored(c) \/ ProvidersSaved(c) \/ ProvidersArrive(c) \/ ProvidersFail(c)

PlatSpec == PlatInit /\ [][PlatNext]_platVars

\* A typed key goes to the server in one save at most, whatever is typed and
\* saved again while the save is on its way (ProvidersTab.jsx, handleSave).
KeysSentOnce == \A k \in 1..MaxKey : keySends[k] <= 1
=============================================================================
