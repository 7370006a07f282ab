---------------------------- MODULE MCDeskPages ----------------------------
(***************************************************************************)
(* The pages of the recruiters' and reviewers' desk and of the settings,   *)
(* on small sets.                                                          *)
(* No two of these modules share state: each is a scene, and a behaviour   *)
(* stays in the one it starts in, where the others keep an initial state.  *)
(* The states of a run are the sum of the scenes' states, not a product.   *)
(***************************************************************************)
EXTENDS ChatSessions, JdEditor, PositionSetup, JdReviewTab, HireDesk, StaffSession, QuestionsTab,
        TemplatesTab, TeamTab, CompetitorsTab, PlatformDesk, SettingsRail, TLC

CONSTANTS
    Scenes,  \* the modules a run explores
    filer, head, hr,  \* the tabs of HireDesk
    adm, ann          \* the accounts of StaffSession

VARIABLE scene

MCDeskRole   == [t \in Tab |-> IF t = filer THEN "dept_admin" ELSE IF t = head THEN "org_head" ELSE "hr"]
MCPersonRole == [p \in Person |-> IF p = adm THEN "org_head" ELSE "hr"]
MCQDeptOf    == [q \in 1 .. MaxQuestion |-> IF q = 1 THEN "org" ELSE "d1"]

MCInit ==
    /\ scene \in Scenes
    /\ ChatInit /\ EditorInit /\ SetupInit /\ JdReviewInit /\ DeskInit /\ SessionInit /\
       QuestionsInit /\ TemplatesInit /\ TeamInit /\ CompInit /\ PlatInit /\
       SettingsInit
    \* One initial state of the modules that have several, while another is on the scene.
    /\ scene # "ChatSessions" => session = [s \in Session |-> IF s \in Past THEN CHOOSE r \in PastRow : TRUE ELSE NewRow]
    /\ scene # "TeamTab" => accounts[CHOOSE m \in Member : TRUE].active
    /\ scene # "SettingsRail" => setRole = CHOOSE r \in SetRole : TRUE

MCNext ==
    /\ UNCHANGED scene
    /\ IF scene = "ChatSessions" THEN ChatNext ELSE UNCHANGED chatVars
    /\ IF scene = "JdEditor" THEN EditorNext ELSE UNCHANGED editorVars
    /\ IF scene = "PositionSetup" THEN SetupNext ELSE UNCHANGED setupVars
    /\ IF scene = "JdReviewTab" THEN JdReviewNext ELSE UNCHANGED jdVars
    /\ IF scene = "HireDesk" THEN DeskNext ELSE UNCHANGED deskVars
    /\ IF scene = "StaffSession" THEN SessionNext ELSE UNCHANGED sessionVars
    /\ IF scene = "QuestionsTab" THEN QuestionsNext ELSE UNCHANGED qVars
    /\ IF scene = "TemplatesTab" THEN TemplatesNext ELSE UNCHANGED tplVars
    /\ IF scene = "TeamTab" THEN TeamNext ELSE UNCHANGED teamVars
    /\ IF scene = "CompetitorsTab" THEN CompNext ELSE UNCHANGED compVars
    /\ IF scene = "PlatformDesk" THEN PlatNext ELSE UNCHANGED platVars
    /\ IF scene = "SettingsRail" THEN SettingsNext ELSE UNCHANGED setVars

MCVars == <<scene, chatVars, editorVars, setupVars, jdVars, deskVars, sessionVars, qVars, tplVars,
            teamVars, compVars, platVars, setVars>>
MCSpec == MCInit /\ [][MCNext]_MCVars

\* Every variable of the module on the scene keeps its type; the others do not move.
DeskPagesTypeOK ==
    /\ scene = "ChatSessions" => ChatTypeOK
    /\ scene = "JdEditor" => EditorTypeOK
    /\ scene = "PositionSetup" => SetupTypeOK
    /\ scene = "JdReviewTab" => JdReviewTypeOK
    /\ scene = "HireDesk" => DeskTypeOK
    /\ scene = "StaffSession" => SessionTypeOK
    /\ scene = "QuestionsTab" => QuestionsTypeOK
    /\ scene = "TemplatesTab" => TemplatesTypeOK
    /\ scene = "TeamTab" => TeamTypeOK
    /\ scene = "CompetitorsTab" => CompTypeOK
    /\ scene = "PlatformDesk" => PlatTypeOK
    /\ scene = "SettingsRail" => SettingsTypeOK
=============================================================================
