----------------------------- MODULE PipelineBoard -----------------------------
(***************************************************************************)
(* The page of one position (frontend/src/components/Positions/            *)
(* PositionDetailPage.jsx): the pipeline tab, with its ranked rows, menus  *)
(* and keys (PipelineStackView, CandidateRankedRow, useKeyboardShortcuts), *)
(* and the filtered list of the candidates tab (tabs/CandidatesTab).       *)
(*                                                                         *)
(* A row shows the stage of the last list that came; a key moves what the *)
(* row shows, and nothing is locked while the move is on its way.          *)
(***************************************************************************)
EXTENDS Naturals, Sequences, SequencesExt, FiniteSets

CONSTANTS
    BoardRank,    \* the candidates, best score first
    BoardStages,  \* VISIBLE_STAGES, in their order
    AutoOrder,    \* the order in which loadSummary looks for a stage to show
    MaxMoves,     \* bound: the moves that are on their way at a time
    MaxReads      \* bound: the lists that are on their way at a time

ASSUME BoardAssumption ==
    /\ BoardRank \in Seq(Range(BoardRank)) /\ IsInjective(BoardRank)
    /\ BoardStages \in Seq(STRING) /\ BoardStages # <<>> /\ IsInjective(BoardStages)
    /\ "none" \notin Range(BoardStages)
    /\ Range(AutoOrder) = Range(BoardStages) /\ MaxMoves \in Nat /\ MaxReads \in Nat

BoardCand == Range(BoardRank)
BoardStage == Range(BoardStages)
StatusFilter == BoardStage \cup {"none"}
Rows == [BoardCand -> StatusFilter \cup {"magic_link_sent"}]

VARIABLES
    appStage,  \* [BoardCand -> its status in the position, or "none"]
    mailed,    \* the candidates whose magic_link_sent_at is set
    board,     \* the page and its pipeline tab
    rowsTab,   \* the candidates tab
    moves,     \* the moves on their way, each with whether a key or "Move" made it for
               \* the list still shown, and whether the tab that made it is still there
    boardReads      \* the lists asked for, with what the server read for them

boardVars == <<appStage, mailed, board, rowsTab, moves, boardReads>>

BoardTypeOK ==
    /\ appStage \in Rows /\ mailed \subseteq BoardCand
    /\ board \in [at : {"away", "loading", "error", "pipeline", "candidates", "other"}, stage : BoardStage,
                  kanban : Rows, loading : BOOLEAN, focus : {1} \cup 1..Len(BoardRank), view : {"stack", "kanban"},
                  summing : BOOLEAN]
    /\ rowsTab \in [filter : StatusFilter, of : StatusFilter, loading : BOOLEAN]
    /\ moves \subseteq [cand : BoardCand, to : BoardStage, fresh : BOOLEAN, here : BOOLEAN]
    /\ boardReads \subseteq [of : {"pipeline"} \cup StatusFilter, served : BOOLEAN, rows : Rows]

NoRows == [c \in BoardCand |-> "none"]
BoardClosed == [at |-> "away", stage |-> BoardStages[1], kanban |-> NoRows, loading |-> FALSE, focus |-> 1,
                view |-> "stack", summing |-> FALSE]
NoRowsTab == [filter |-> "none", of |-> "none", loading |-> FALSE]   \* the filter "none" is "all"
Ask(of) == [of |-> of, served |-> FALSE, rows |-> NoRows]
CanAsk == Cardinality(boardReads) < MaxReads

BoardInit ==
    /\ appStage \in {[c \in BoardCand |-> s] : s \in {"none", BoardStages[1]}}
    /\ mailed = {} /\ board = BoardClosed /\ rowsTab = NoRowsTab /\ moves = {} /\ boardReads = {}

-----------------------------------------------------------------------------
\* The page.

OpenPosition ==
    /\ board.at = "away"
    /\ board' = [BoardClosed EXCEPT !.at = "loading", !.summing = TRUE]
    /\ UNCHANGED <<appStage, mailed, rowsTab, moves, boardReads>>

\* The tab of the address is mounted once the position is there.
PositionArrives ==
    /\ board.at = "loading"
    /\ \/ board' = [board EXCEPT !.at = "pipeline", !.loading = TRUE] /\ boardReads' = boardReads \cup {Ask("pipeline")}
       \/ board' = [board EXCEPT !.at = "error"] /\ UNCHANGED boardReads
    /\ UNCHANGED <<appStage, mailed, rowsTab, moves>>

LeavePosition ==
    /\ board.at # "away"
    /\ board' = BoardClosed /\ rowsTab' = NoRowsTab /\ boardReads' = {}
    /\ moves' = {[m EXCEPT !.fresh = FALSE, !.here = FALSE] : m \in moves}
    /\ UNCHANGED <<appStage, mailed>>

\* Tabs are mounted anew; what the old one asked for no longer arrives.
Unmounted(tab) ==
    /\ board' = [board EXCEPT !.at = tab, !.kanban = NoRows, !.loading = (tab = "pipeline"), !.focus = 1,
                              !.view = "stack"]
    /\ rowsTab' = [NoRowsTab EXCEPT !.loading = (tab = "candidates")]
    /\ boardReads' = CASE tab = "pipeline" -> {Ask("pipeline")}
                  [] tab = "candidates" -> {Ask("none")}
                  [] OTHER -> {}
    /\ moves' = {[m EXCEPT !.fresh = FALSE, !.here = FALSE] : m \in moves}

SwitchTab(tab) ==
    /\ board.at \in {"pipeline", "candidates", "other"} \ {tab}
    /\ Unmounted(tab)
    /\ UNCHANGED <<appStage, mailed>>

\* The stage that is shown, with its first row in focus.
Showing(s) ==
    [board EXCEPT !.stage = s, !.focus = IF s = board.stage THEN @ ELSE 1]

PickStage(s) ==
    /\ board.at \in {"pipeline", "candidates", "other"}
    /\ board' = Showing(s)
    /\ UNCHANGED <<appStage, mailed, rowsTab, moves, boardReads>>

\* The search that the hero's button asks for runs later, elsewhere.
Sourced(c) ==
    /\ appStage[c] = "none"
    /\ appStage' = [appStage EXCEPT ![c] = BoardStages[1]]
    /\ UNCHANGED <<mailed, board, rowsTab, moves, boardReads>>

-----------------------------------------------------------------------------
\* The ranked rows of the stage that is shown.

\* The rows, by the ranks of their candidates.
Listed == {i \in DOMAIN BoardRank : board.kanban[BoardRank[i]] = board.stage}
StackShown == board.at = "pipeline" /\ ~board.loading /\ \E c \in BoardCand : board.kanban[c] \in BoardStage
StackOn == StackShown /\ board.view = "stack"

ToggleView ==
    /\ StackShown
    /\ board' = [board EXCEPT !.view = IF @ = "stack" THEN "kanban" ELSE "stack"]
    /\ UNCHANGED <<appStage, mailed, rowsTab, moves, boardReads>>

\* The keys work where the tab has rows, also under the help that covers them.
KeysOn == board.at = "pipeline" /\ ~board.loading /\ board.view = "stack" /\ Listed # {}
Focused(i) == i \in Listed /\ Cardinality({j \in Listed : j <= i}) = board.focus

KeyArrow(d) ==
    /\ KeysOn
    /\ board' = [board EXCEPT !.focus = IF d = "up" THEN (IF @ > 1 THEN @ - 1 ELSE 1)
                                        ELSE IF @ < Cardinality(Listed) THEN @ + 1 ELSE Cardinality(Listed)]
    /\ UNCHANGED <<appStage, mailed, rowsTab, moves, boardReads>>

\* The stage after the one the row is shown in.
StageIndex(s) == CHOOSE i \in DOMAIN BoardStages : BoardStages[i] = s
NextFrom(s) == IF s \in BoardStage /\ StageIndex(s) < Len(BoardStages) THEN BoardStages[StageIndex(s) + 1] ELSE "none"
BugNextStage(c) == NextFrom(appStage[c])
NextStage(c) == NextFrom(board.kanban[c])

HandleMove(c, to, next) ==
    /\ to # "none" /\ Cardinality(moves) < MaxMoves
    /\ moves' = moves \cup {[cand |-> c, to |-> to, fresh |-> next, here |-> TRUE]}
    /\ UNCHANGED <<appStage, mailed, rowsTab, boardReads>>

\* M moves the row in focus to the next stage, selected or rejected like any other.
KeyMove ==
    /\ KeysOn
    /\ \E i \in Listed : Focused(i) /\ HandleMove(BoardRank[i], NextStage(BoardRank[i]), TRUE)
    /\ UNCHANGED board
ButtonMove(c) ==
    /\ StackOn /\ board.kanban[c] = board.stage
    /\ HandleMove(c, NextStage(c), TRUE)
    /\ UNCHANGED board

\* The row's menu offers every other stage.
MenuMove(c, s) ==
    /\ StackOn /\ board.kanban[c] = board.stage /\ s # board.stage
    /\ HandleMove(c, s, FALSE)
    /\ UNCHANGED board

\* Its answer reads the list again.
EmptyStageSearch ==
    /\ StackOn /\ Listed = {} /\ CanAsk
    /\ boardReads' = boardReads \cup {Ask("pipeline")}
    /\ UNCHANGED <<appStage, mailed, board, rowsTab, moves>>

-----------------------------------------------------------------------------
\* The server, and its answers.

\* update_status asks for no earlier stage: the row's may be old.
MoveServed(m, ok) ==
    /\ m \in moves /\ (ok => CanAsk)
    /\ moves' = moves \ {m}
    /\ \/ appStage' = [appStage EXCEPT ![m.cand] = m.to]
       \/ ~ok /\ UNCHANGED appStage
    /\ boardReads' = IF ok /\ m.here THEN boardReads \cup {Ask("pipeline")} ELSE boardReads
    /\ UNCHANGED <<mailed, board, rowsTab>>

ReadServed(r) ==
    /\ r \in boardReads /\ ~r.served
    /\ boardReads' = (boardReads \ {r}) \cup {[r EXCEPT !.served = TRUE, !.rows = IF r.of = "pipeline" THEN appStage ELSE @]}
    /\ UNCHANGED <<appStage, mailed, board, rowsTab, moves>>

\* The first of AutoOrder that has a candidate is shown, whatever the user chose meanwhile.
HasRows(i) == \E c \in BoardCand : appStage[c] = AutoOrder[i]
AutoStage(s) ==
    \/ \E i \in DOMAIN AutoOrder : s = AutoOrder[i] /\ HasRows(i) /\ \A j \in 1..i - 1 : ~HasRows(j)
    \/ s = board.stage /\ \A i \in DOMAIN AutoOrder : ~HasRows(i)

SummaryArrives(ok) ==
    /\ board.summing
    /\ \/ ok /\ \E s \in BoardStage : AutoStage(s) /\ board' = [Showing(s) EXCEPT !.summing = FALSE]
       \/ ~ok /\ board' = [board EXCEPT !.summing = FALSE]
    /\ UNCHANGED <<appStage, mailed, rowsTab, moves, boardReads>>

\* The list that comes last is shown, not the one that was asked for last.
PipelineArrives(r) ==
    /\ r \in boardReads /\ r.of = "pipeline" /\ r.served
    /\ boardReads' = boardReads \ {r}
    /\ board' = [board EXCEPT !.kanban = r.rows, !.loading = FALSE]
    /\ moves' = {[m EXCEPT !.fresh = FALSE] : m \in moves}
    /\ UNCHANGED <<appStage, mailed, rowsTab>>

ReadLost(r) ==
    /\ r \in boardReads
    /\ boardReads' = boardReads \ {r}
    /\ board' = IF r.of = "pipeline" THEN [board EXCEPT !.loading = FALSE] ELSE board
    /\ rowsTab' = IF r.of \in StatusFilter THEN [rowsTab EXCEPT !.loading = FALSE] ELSE rowsTab
    /\ UNCHANGED <<appStage, mailed, moves>>

-----------------------------------------------------------------------------
\* The candidates tab: a call per filter, none of them cancelled.

ChooseStatus(f) ==
    /\ board.at = "candidates" /\ rowsTab.filter # f /\ CanAsk
    /\ rowsTab' = [rowsTab EXCEPT !.filter = f, !.loading = TRUE]
    /\ boardReads' = boardReads \cup {Ask(f)}
    /\ UNCHANGED <<appStage, mailed, board, moves>>

CandidatesArrive(r) ==
    /\ r \in boardReads /\ r.of \in StatusFilter /\ r.served /\ board.at = "candidates"
    /\ boardReads' = boardReads \ {r}
    /\ rowsTab' = [rowsTab EXCEPT !.of = r.of, !.loading = FALSE]
    /\ UNCHANGED <<appStage, mailed, board, moves>>

\* The button of a row that is shown as sourced; the batch it asks for is
\* queued, and the list is read again.
SendOutreach ==
    /\ board.at = "candidates" /\ ~rowsTab.loading /\ rowsTab.of \in {"none", BoardStages[1]} /\ CanAsk
    /\ rowsTab' = [rowsTab EXCEPT !.loading = TRUE]
    /\ boardReads' = boardReads \cup {Ask(rowsTab.filter)}
    /\ UNCHANGED <<appStage, mailed, board, moves>>

\* The batch, asked for here or after the scoring, mails each candidate once.
OutreachSent(c) ==
    /\ appStage[c] = BoardStages[1] /\ c \notin mailed
    /\ mailed' = mailed \cup {c}
    /\ appStage' = [appStage EXCEPT ![c] = "magic_link_sent"]
    /\ UNCHANGED <<board, rowsTab, moves, boardReads>>

-----------------------------------------------------------------------------
BoardNext ==
    \/ OpenPosition \/ PositionArrives \/ LeavePosition
    \/ \E tab \in {"pipeline", "candidates", "other"} : SwitchTab(tab)
    \/ \E s \in BoardStage : PickStage(s)
    \/ ToggleView \/ KeyMove \/ EmptyStageSearch \/ SendOutreach
    \/ \E d \in {"up", "down"} : KeyArrow(d)
    \/ \E c \in BoardCand :
         \/ Sourced(c) \/ ButtonMove(c) \/ OutreachSent(c)
         \/ \E s \in BoardStage : MenuMove(c, s)
    \/ \E ok \in BOOLEAN : SummaryArrives(ok)
    \/ \E m \in moves, ok \in BOOLEAN : MoveServed(m, ok)
    \/ \E r \in boardReads :
         \/ ReadServed(r) \/ PipelineArrives(r)
         \/ ReadLost(r) \/ CandidatesArrive(r)
    \/ \E f \in StatusFilter : ChooseStatus(f)

PipelineBoardSpec == BoardInit /\ [][BoardNext]_boardVars

-----------------------------------------------------------------------------
\* M and "Move" move a candidate one stage for each list that showed it: pressed
\* again before the next list has come, with the first move served or not, they
\* only repeat it.  About handleMove, which locks nothing meanwhile.
RepeatMovesOnce ==
    \A m, n \in moves : m.fresh /\ n.fresh /\ m.cand = n.cand => m.to = n.to
=============================================================================
