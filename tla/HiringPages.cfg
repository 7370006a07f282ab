\* The pages of candidates, panelists and of those who follow candidates, each by itself.
\* A module stops at its bound on what is ever made (tokens, questions) and after an erasure.
CONSTANTS
    Scenes = {"ApplyTabs", "ApplyCalls", "Erasure", "Careers", "CandidatePortal", "PanelRace", "PanelNotes", "RoundTabs", "RoundForm", "TalentPool", "CandidatePage", "PipelineBoard"}
    \* ApplyChat
    tabA = tabA
    ApplyTab = {tabA, tabB}
    Profile <- MCProfile
    Questions = 1
    MaxApplyCalls = 2
    TextKey = TRUE
    \* Erasure
    Cand = {c}
    ETok = {e1, e2}
    Visitor = {v1, v2}
    ErDesk = {d1}
    NoTok = NoTok
    NoRow = NoRow
    \* Careers
    Opening = {p}
    Fit = {all, eng}
    AllRoles = all
    CareerTab = {g1, g2}
    MaxCareerCalls = 1
    NoOpening = NoOpening
    \* CandidatePortal
    PortalTab = {q1, q2}
    \* PanelFeedback
    pa = pa
    ta = ta
    tb = tb
    Panelist = {ta, tb}
    PanelTab = {pa, pb}
    PanelOwner <- MCPanelOwner
    \* InterviewRounds
    IvTab = {i1, i2}
    SchedulesIn = {i1}
    \* TalentPool
    PoolToken = TRUE
    PoolPosition = {p1}
    MaxPoolLoads = 1
    NoPosition = NoPosition
    \* CandidatePage
    CandId = {y1, y2}
    MoveStages <- MCMoveStages
    EndStages = {"selected"}
    NoCandId = NoCandId
    \* PipelineBoard
    BoardRank <- MCBoardRank
    BoardStages <- MCBoardStages
    AutoOrder <- MCAutoOrder
    MaxMoves = 2
    MaxReads = 1
SPECIFICATION MCSpec
CHECK_DEADLOCK FALSE
INVARIANTS HiringPagesTypeOK ResumeBehindChat DoneIsVerified DoneIsStored AllInAnnounced SuccessIsIn NoEarlyDebrief RepeatMovesOnce
