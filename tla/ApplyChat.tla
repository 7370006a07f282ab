------------------------------ MODULE ApplyChat ------------------------------
(***************************************************************************)
(* The application chat: the page a candidate's link opens                *)
(* (frontend/src/components/Apply/ApplyPage.jsx), in several tabs, and    *)
(* the session the server keeps of it (backend/services/apply_service.py, *)
(* agents/candidate_chat.py, routers/apply.py).                           *)
(*                                                                         *)
(* The server reads the session, answers, and writes back the whole state *)
(* it computed; a page goes by the step of the last answer it got.  The    *)
(* link also completes an application directly, past its conversation.    *)
(***************************************************************************)
EXTENDS Naturals, Sequences, FiniteSets

CONSTANTS
    ApplyTab,       \* the tabs that hold the link
    Profile,        \* the profile questions, in order: current_role, experience, compensation,
                    \* notice_period in the code, each moving on to the next whatever the answer
    Questions,      \* the number of screening questions of the department
    MaxApplyCalls,  \* bound: calls on their way at the same time
    TextKey         \* whether the key column takes the uuid the service makes:
                    \* db/migrations.py:149 declares SERIAL, which does not

\* A profile question has a name of its own.
ASSUME ApplyAssumption ==
    /\ Profile # <<>>
    /\ Profile \in Seq(STRING \ {"none", "greeting", "interest", "resume_upload",
                                 "screening_questions", "completion", "declined"})
    /\ Questions \in Nat /\ MaxApplyCalls \in Nat /\ TextKey \in BOOLEAN

VARIABLES
    appl,     \* the application's row, and whether its conversation completed it
    chatRow,  \* the candidate_sessions row
    apage,    \* [ApplyTab -> the page's state]
    acall     \* [ApplyTab -> [slot -> the call on its way]]

applyVars == <<appl, chatRow, apage, acall>>

ChatStep == {"none", "greeting", "interest", "resume_upload", "screening_questions",
             "completion", "declined"} \cup {Profile[i] : i \in DOMAIN Profile}
\* A page's handlers wait for their own call only: opening, chatting and uploading overlap.
Slot == {"open", "chat", "file"}
\* The steps of the conversation behind the upload of the resume.
PastUpload == {"screening_questions", "completion"}
NoApplyCall == [kind |-> "none", at |-> "idle", step |-> "none", n |-> 0, no |-> FALSE]

ApplyTypeOK ==
    /\ appl \in [applied : BOOLEAN, byChat : BOOLEAN, resume : BOOLEAN, consent : BOOLEAN]
    /\ chatRow \in [made : BOOLEAN, step : ChatStep, n : 0..Questions, said : BOOLEAN]
    /\ apage \in [ApplyTab ->
         [state : {"closed", "loading", "consent", "valid", "expired", "completed", "declined"},
          step : ChatStep, resume : BOOLEAN, video : BOOLEAN]]
    /\ acall \in [ApplyTab -> [Slot ->
         [kind : {"none", "load", "consent", "init", "message", "resume", "video"},
          at : {"idle", "sent", "read", "saved", "answered", "failed"},
          step : ChatStep, n : 0..Questions + 1, no : BOOLEAN]]]

ApplyInit ==
    /\ appl = [applied |-> FALSE, byChat |-> FALSE, resume |-> FALSE, consent |-> FALSE]
    /\ chatRow = [made |-> FALSE, step |-> "none", n |-> 0, said |-> FALSE]
    /\ apage = [t \in ApplyTab |->
         [state |-> "closed", step |-> "greeting", resume |-> TRUE, video |-> TRUE]]
    /\ acall = [t \in ApplyTab |-> [s \in Slot |-> NoApplyCall]]

ApplyBusy == {ts \in ApplyTab \X Slot : acall[ts[1]][ts[2]].at # "idle"}
Asks(t, s, kind, no) ==
    /\ acall[t][s].at = "idle" /\ Cardinality(ApplyBusy) < MaxApplyCalls
    /\ acall' = [acall EXCEPT ![t][s] = [NoApplyCall EXCEPT !.kind = kind, !.at = "sent", !.no = no]]
CallOver(t, s) == acall' = [acall EXCEPT ![t][s] = NoApplyCall]
AtCall(t, s, kinds, at) == acall[t][s].kind \in kinds /\ acall[t][s].at = at

-----------------------------------------------------------------------------
\* The page.

\* The link is opened, or the page loaded again; a tab reloads between its calls (another
\* tab stands for a reload with a call left behind at the server).
OpenApply(t) ==
    /\ \A s \in Slot : acall[t][s].at = "idle"
    /\ Asks(t, "open", "load", FALSE)
    /\ apage' = [apage EXCEPT ![t] =
         [state |-> "loading", step |-> "greeting", resume |-> TRUE, video |-> TRUE]]
    /\ UNCHANGED <<appl, chatRow>>

\* The consent screen.  Agreeing sends the consent and then the first greeting; the
\* buttons stay enabled meanwhile, but one consent call at a time is modelled.
AgreeToConsent(t) ==
    /\ apage[t].state = "consent"
    /\ Asks(t, "open", "consent", FALSE)
    /\ UNCHANGED <<appl, chatRow, apage>>

DeclineConsent(t) ==
    /\ apage[t].state = "consent"
    /\ apage' = [apage EXCEPT ![t].state = "declined"]
    /\ UNCHANGED <<appl, chatRow, acall>>

\* No return handles the state 'declined': it renders the chat like 'valid'.
ChatShown(t) == apage[t].state \in {"valid", "declined"}
Sending(t) == acall[t]["chat"].at # "idle"
InputDisabled(t) == apage[t].step \in {"completion", "declined"} \/ Sending(t)
Uploading(t) == acall[t]["file"].at # "idle"
ResumeOffered(t) == ChatShown(t) /\ apage[t].step = "resume_upload" /\ apage[t].resume /\ ~Uploading(t)
VideoOffered(t) == ChatShown(t) /\ apage[t].step = "completion" /\ apage[t].video /\ ~Uploading(t)

\* Text, or a quick reply; "no" anywhere in it declines at the step 'interest'.
SendReply(t, no) ==
    /\ ChatShown(t) /\ ~InputDisabled(t)
    /\ Asks(t, "chat", "message", no)
    /\ UNCHANGED <<appl, chatRow, apage>>

UploadResume(t) ==
    /\ ResumeOffered(t)
    /\ Asks(t, "file", "resume", FALSE)
    /\ UNCHANGED <<appl, chatRow, apage>>

UploadVideo(t) ==
    /\ VideoOffered(t)
    /\ Asks(t, "file", "video", FALSE)
    /\ apage' = [apage EXCEPT ![t].video = FALSE]
    /\ UNCHANGED <<appl, chatRow>>

SkipVideo(t) ==
    /\ VideoOffered(t)
    /\ apage' = [apage EXCEPT ![t].video = FALSE]
    /\ UNCHANGED <<appl, chatRow, acall>>

-----------------------------------------------------------------------------
\* The server.

Answers(t, s, at) == acall' = [acall EXCEPT ![t][s].at = at]

\* verify_and_load: the saved step, whether anything was said (n) and whether it is over (no).
ServeContext(t) ==
    /\ AtCall(t, "open", {"load"}, "sent")
    /\ acall' = [acall EXCEPT ![t]["open"] =
         [@ EXCEPT !.at = "answered", !.step = chatRow.step, !.n = IF chatRow.said THEN 1 ELSE 0, !.no = appl.applied]]
    /\ UNCHANGED <<appl, chatRow, apage>>

ServeConsent(t) ==
    /\ AtCall(t, "open", {"consent"}, "sent")
    /\ appl' = [appl EXCEPT !.consent = TRUE]
    /\ Answers(t, "open", "answered")
    /\ UNCHANGED <<chatRow, apage>>

\* _get_or_create_session; a row that cannot be made fails the call.
CanOpenSession == chatRow.made \/ TextKey

\* The step that follows a message (CandidateChatController.process_message).
BugStepAfter(no) ==
    CASE chatRow.step = "interest" -> IF no THEN "declined" ELSE Head(Profile)
      [] chatRow.step = Profile[Len(Profile)] -> "screening_questions"
      [] chatRow.step = "screening_questions" -> "completion"
      [] chatRow.step \in {"resume_upload", "completion"} -> chatRow.step
      [] OTHER -> "interest"
StepAfter(no) ==
    CASE chatRow.step = "interest" -> IF no THEN "declined" ELSE Head(Profile)
      [] \E i \in DOMAIN Profile : Profile[i] = chatRow.step ->
           LET i == CHOOSE i \in DOMAIN Profile : Profile[i] = chatRow.step
           IN  IF i = Len(Profile) THEN "resume_upload" ELSE Profile[i + 1]
      [] chatRow.step = "screening_questions" ->
           IF chatRow.n < Questions THEN "screening_questions" ELSE "completion"
      [] chatRow.step \in {"resume_upload", "completion"} -> chatRow.step
      [] OTHER -> "interest"
BugAskedAfter == IF chatRow.step = "screening_questions" THEN chatRow.n + 1 ELSE chatRow.n
AskedAfter == IF chatRow.step = "screening_questions" /\ chatRow.n < Questions THEN chatRow.n + 1 ELSE chatRow.n

\* The answer is computed from the session as read.  The first greeting is saved on its own.
ReadSession(t, s) ==
    LET a == [step |-> StepAfter(acall[t][s].no), n |-> AskedAfter] IN
    /\ AtCall(t, s, {"init", "message"}, "sent") /\ CanOpenSession
    /\ chatRow' = IF chatRow.step = "none"
                  THEN [chatRow EXCEPT !.made = TRUE, !.step = a.step, !.said = TRUE]
                  ELSE chatRow
    /\ acall' = [acall EXCEPT ![t][s] = [@ EXCEPT !.at = "read", !.step = a.step, !.n = a.n, !.no = FALSE]]
    /\ UNCHANGED <<appl, apage>>

\* The state is written back over whatever was written meanwhile; a failure only warns.
Persists(t, s) ==
    \/ chatRow' = [chatRow EXCEPT !.step = acall[t][s].step, !.n = acall[t][s].n, !.said = TRUE]
    \/ UNCHANGED chatRow
SaveReply(t, s) ==
    /\ AtCall(t, s, {"init", "message", "resume"}, "read")
    /\ Persists(t, s)
    /\ Answers(t, s, "saved")
    /\ UNCHANGED <<appl, apage>>

\* The message endpoint completes the application at the step 'completion'; a failure
\* is logged and the answer is the same.
AnswerMessage(t, s, completes) ==
    /\ AtCall(t, s, {"init", "message"}, "saved")
    /\ appl' = IF acall[t][s].step = "completion" /\ completes
               THEN [appl EXCEPT !.applied = TRUE, !.byChat = TRUE] ELSE appl
    /\ Answers(t, s, "answered")
    /\ UNCHANGED <<chatRow, apage>>

\* POST /apply/{token}/complete, for who holds the link: no page sends it, and it looks
\* neither at the step of the conversation nor at the resume.
CompleteByLink ==
    /\ appl' = [appl EXCEPT !.applied = TRUE]
    /\ UNCHANGED <<chatRow, apage, acall>>

\* handle_resume_upload: the text is stored, then the session is read and moved on.
StoreResume(t) ==
    /\ AtCall(t, "file", {"resume"}, "sent") /\ ~acall[t]["file"].no
    /\ appl' = [appl EXCEPT !.resume = TRUE]
    /\ acall' = [acall EXCEPT ![t]["file"].no = TRUE]
    /\ UNCHANGED <<chatRow, apage>>

AdvanceResume(t) ==
    /\ AtCall(t, "file", {"resume"}, "sent") /\ acall[t]["file"].no /\ CanOpenSession
    /\ chatRow' = [chatRow EXCEPT !.made = TRUE]
    /\ acall' = [acall EXCEPT ![t]["file"] = [@ EXCEPT !.at = "read",
         !.no = FALSE, !.step = IF Questions > 0 THEN "screening_questions" ELSE "completion",
         !.n = IF Questions > 0 THEN 1 ELSE 0]]
    /\ UNCHANGED <<appl, apage>>

AnswerResume(t) ==
    /\ AtCall(t, "file", {"resume"}, "saved")
    /\ Answers(t, "file", "answered")
    /\ UNCHANGED <<appl, chatRow, apage>>

ServeVideo(t) ==
    /\ AtCall(t, "file", {"video"}, "sent")
    /\ acall' = [acall EXCEPT ![t]["file"] = [@ EXCEPT !.at = "answered", !.step = "completion"]]
    /\ UNCHANGED <<appl, chatRow, apage>>

\* Any call may be answered with an error, or lost before, amid or after its work.
CallFails(t, s) ==
    /\ acall[t][s].at \in {"sent", "saved", "answered"}
    /\ acall' = [acall EXCEPT ![t][s] = [NoApplyCall EXCEPT !.kind = acall[t][s].kind, !.at = "failed"]]
    /\ UNCHANGED <<appl, chatRow, apage>>

-----------------------------------------------------------------------------
\* The answers, in the page.

ContextAnswered(t) ==
    LET a == acall[t]["open"] IN
    /\ a.kind = "load" /\ a.at \in {"answered", "failed"}
    /\ apage' = [apage EXCEPT ![t] =
         CASE a.at = "failed"                      -> [@ EXCEPT !.state = "expired"]
           [] a.at # "failed" /\ a.no              -> [@ EXCEPT !.state = "completed"]
           [] a.at # "failed" /\ ~a.no /\ a.n > 0  -> [@ EXCEPT !.state = "valid", !.step = a.step]
           [] OTHER                                -> [@ EXCEPT !.state = "consent"]]
    /\ CallOver(t, "open")
    /\ UNCHANGED <<appl, chatRow>>

\* Whatever became of the consent, the chat opens and asks for the greeting.
ConsentAnswered(t) ==
    /\ acall[t]["open"].kind = "consent" /\ acall[t]["open"].at \in {"answered", "failed"}
    /\ apage' = [apage EXCEPT ![t].state = "valid"]
    /\ acall' = [acall EXCEPT ![t]["open"] = [NoApplyCall EXCEPT !.kind = "init", !.at = "sent"]]
    /\ UNCHANGED <<appl, chatRow>>

GreetingAnswered(t) ==
    LET a == acall[t]["open"] IN
    /\ a.kind = "init" /\ a.at \in {"answered", "failed"}
    /\ apage' = [apage EXCEPT ![t].step = IF a.at = "answered" THEN a.step ELSE @]
    /\ CallOver(t, "open")
    /\ UNCHANGED <<appl, chatRow>>

\* An error answer has no 'response' and is ignored without a word.
ReplyAnswered(t) ==
    LET a == acall[t]["chat"] IN
    /\ a.kind = "message" /\ a.at \in {"answered", "failed"}
    /\ apage' = [apage EXCEPT ![t] =
         IF a.at # "answered" THEN @
         ELSE IF a.step = "completion" THEN [@ EXCEPT !.step = a.step, !.state = "completed"]
         ELSE [@ EXCEPT !.step = a.step]]
    /\ CallOver(t, "chat")
    /\ UNCHANGED <<appl, chatRow>>

ResumeAnswered(t) ==
    LET a == acall[t]["file"] IN
    /\ a.kind = "resume" /\ a.at \in {"answered", "failed"}
    /\ apage' = [apage EXCEPT ![t] =
         IF a.at # "answered" THEN @ ELSE [@ EXCEPT !.resume = FALSE, !.step = a.step]]
    /\ CallOver(t, "file")
    /\ UNCHANGED <<appl, chatRow>>

VideoAnswered(t) ==
    LET a == acall[t]["file"] IN
    /\ a.kind = "video" /\ a.at \in {"answered", "failed"}
    /\ apage' = [apage EXCEPT ![t] =
         IF a.at # "answered" THEN @ ELSE [@ EXCEPT !.step = a.step]]
    /\ CallOver(t, "file")
    /\ UNCHANGED <<appl, chatRow>>

-----------------------------------------------------------------------------
ApplyNext ==
    \/ CompleteByLink
    \/ \E t \in ApplyTab :
        \/ OpenApply(t) \/ AgreeToConsent(t) \/ DeclineConsent(t)
        \/ \E no \in BOOLEAN : SendReply(t, no)
        \/ UploadResume(t) \/ UploadVideo(t) \/ SkipVideo(t)
        \/ ServeContext(t) \/ ServeConsent(t)
        \/ \E s \in Slot : \/ ReadSession(t, s) \/ SaveReply(t, s) \/ CallFails(t, s)
                           \/ \E completes \in BOOLEAN : AnswerMessage(t, s, completes)
        \/ StoreResume(t) \/ AdvanceResume(t) \/ AnswerResume(t) \/ ServeVideo(t)
        \/ ContextAnswered(t) \/ ConsentAnswered(t) \/ GreetingAnswered(t)
        \/ ReplyAnswered(t) \/ ResumeAnswered(t) \/ VideoAnswered(t)

ApplySpec == ApplyInit /\ [][ApplyNext]_applyVars

\* However the tabs' answers overtake each other, what is behind the upload is reached
\* through it: the session and the pages are at a step behind it, and the conversation
\* has completed the application, only with a resume stored
\* (services/apply_service.py, handle_resume_upload and send_message).
ResumeBehindChat ==
    \/ appl.resume
    \/ /\ ~appl.byChat /\ chatRow.step \notin PastUpload
       /\ \A t \in ApplyTab : apage[t].step \notin PastUpload
=============================================================================
