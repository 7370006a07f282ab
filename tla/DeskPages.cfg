\* The pages of the desk and of the settings, each by itself.  A module stops at its
\* bound on what is ever made: navigations and turns, texts, questions, templates, keys.
CONSTANTS
    Scenes = {"ChatSessions", "JdEditor", "PositionSetup", "JdReviewTab", "HireDesk", "StaffSession", "QuestionsTab", "TemplatesTab", "TeamTab", "CompetitorsTab", "PlatformDesk", "SettingsRail"}
    \* ChatSessions
    Session = {s1, s2}
    Past = {}
    Key = {k1, k2}
    Turn = {t1, t2}
    NoSession = NoSession
    NoKey = NoKey
    NoTurn = NoTurn
    StrictMode = TRUE
    \* JdEditor
    MaxText = 2
    MaxFix = 2
    MaxDraft = 1
    \* PositionSetup
    MaxSave = 2
    \* JdReviewTab
    Reviewer = {"head"}
    StatusHead = {"head"}
    MaxJdText = 2
    MaxJdCalls = 1
    \* HireDesk
    filer = filer
    head = head
    hr = hr
    Tab = {filer, hr}
    DeskRole <- MCDeskRole
    Filer = filer
    ListFilter = {"queue", "all"}
    NoTab = NoTab
    \* StaffSession
    adm = adm
    ann = ann
    Person = {adm}
    PersonRole <- MCPersonRole
    MaxCalls = 2
    NoPerson = NoPerson
    \* QuestionsTab
    MaxQuestion = 3
    QDeptOf <- MCQDeptOf
    MaxQCalls = 1
    \* TemplatesTab
    MaxTpl = 2
    MaxTplCalls = 2
    \* TeamTab
    Member = {"m1"}
    MemberRole = {"hr", "team_lead"}
    FormRole = "hr"
    MaxTeamCalls = 2
    \* CompetitorsTab
    MaxComp = 3
    MaxCompCalls = 2
    CompLimit = 3
    \* PlatformDesk
    Org = {"o1", "o2"}
    MaxKey = 2
    MaxPlatCalls = 3
    \* SettingsRail
    SetRole = {"org_head", "hr", "team_lead"}
    SetDept = {"d1", "d2"}
    FirstDept = "d1"
    MaxRuleCalls = 2
SPECIFICATION MCSpec
CHECK_DEADLOCK FALSE
INVARIANTS DeskPagesTypeOK PickupMintsOnce OneStreamIsRead OnePositionPerSession ListShowsFilter DropLands TextUnderItsOwn KeysSentOnce
PROPERTIES SignedOutStaysOut
