---------------------------- MODULE ChatSessions ----------------------------
(***************************************************************************)
(* The recruiter's chat in the browser, over several chat sessions: the   *)
(* provider that survives navigation (frontend/src/context/ChatContext), *)
(* the page with its two effects (components/Chat/ChatPage), the history *)
(* in the sidebar, and the stream endpoint that serves the turns.         *)
(*                                                                         *)
(* A turn is one POST /chat/stream: it is sent, accepted or refused,      *)
(* emits events, is persisted and closed, and its events reach the        *)
(* browser later, in order.  The browser is one thread: a handler or an   *)
(* effect is one step, and everything it awaits comes back in another.    *)
(***************************************************************************)
EXTENDS Naturals, Sequences, FiniteSets

CONSTANTS
    Session,      \* session ids; crypto.randomUUID never repeats one
    Past,         \* the sessions of earlier visits
    Key,          \* react-router location keys: one per navigation (a bound)
    Turn,         \* POST /chat/stream calls (a bound)
    NoSession, NoKey, NoTurn,
    StrictMode    \* effects of a mount run twice (React.StrictMode in main.jsx)

ASSUME ChatAssumption ==
    /\ Past \subseteq Session
    /\ NoSession \notin Session /\ NoKey \notin Key /\ NoTurn \notin Turn
    /\ StrictMode \in BOOLEAN

VARIABLES
    session,   \* [Session -> row]      chat_sessions and its chat_messages
    chat,      \* ChatContext's useState values
    current,   \* abortControllerRef: the turn whose controller it holds
    turn,      \* [Turn -> the request and its stream]
    page,      \* the router's entry, ChatPage's refs and pending effects
    load,      \* [Key -> GET /chat/sessions/{id} of that navigation]
    minted     \* [Key -> sessions opened by the pickup seed of that navigation]

chatVars == <<session, chat, current, turn, page, load, minted>>

Stage == {"intake", "later"}
Row == [made : BOOLEAN, deleted : BOOLEAN, user : BOOLEAN, stage : Stage]
Chat == [sid : Session \cup {NoSession}, stage : Stage, user : BOOLEAN,
         loaded : BOOLEAN, streaming : BOOLEAN]
Phase == {"unsent", "sent", "running", "emitted", "closed", "over"}
Event == {"stage", "done", "error"}
Stream == [phase : Phase, sess : Session \cup {NoSession}, read : Stage, next : Stage,
           events : Seq(Event), reading : BOOLEAN]
Page == [on : BOOLEAN, keys : SUBSET Key, key : Key \cup {NoKey}, url : Session \cup {NoSession},
         path : Session \cup {NoSession}, pickup : BOOLEAN, kept : BOOLEAN,
         loadedRef : Session \cup {NoSession}, initRef : Key \cup {NoKey},
         seedRef : Key \cup {NoKey}, passes : 0 .. 2, seen : Chat]
Load == [phase : {"none", "sent", "served"}, sess : Session \cup {NoSession},
         user : BOOLEAN, stage : Stage]

ChatTypeOK ==
    /\ session \in [Session -> Row]
    /\ chat \in Chat
    /\ current \in Turn \cup {NoTurn}
    /\ turn \in [Turn -> Stream]
    /\ page \in Page
    /\ load \in [Key -> Load]
    /\ minted \in [Key -> SUBSET Session]

FreshChat == [sid |-> NoSession, stage |-> "intake", user |-> FALSE,
              loaded |-> TRUE, streaming |-> FALSE]
BootChat == [FreshChat EXCEPT !.loaded = FALSE]
Unsent == [phase |-> "unsent", sess |-> NoSession, read |-> "intake", next |-> "intake",
           events |-> <<>>, reading |-> FALSE]
Over == [Unsent EXCEPT !.phase = "over"]
NoLoad == [phase |-> "none", sess |-> NoSession, user |-> FALSE, stage |-> "intake"]
Elsewhere == [on |-> FALSE, keys |-> {}, key |-> NoKey, url |-> NoSession, path |-> NoSession,
              pickup |-> FALSE, kept |-> FALSE, loadedRef |-> NoSession, initRef |-> NoKey,
              seedRef |-> NoKey, passes |-> 0, seen |-> BootChat]

\* An earlier session holds a conversation, or only the greeting, because the
\* budget refused its first turn.
NewRow == [made |-> FALSE, deleted |-> FALSE, user |-> FALSE, stage |-> "intake"]
PastRow == {[NewRow EXCEPT !.made = TRUE], [made |-> TRUE, deleted |-> FALSE, user |-> TRUE, stage |-> "later"]}

ChatInit ==
    /\ session \in [Session -> {NewRow} \cup PastRow]
    /\ \A s \in Session : session[s].made <=> s \in Past
    /\ chat = BootChat
    /\ current = NoTurn
    /\ turn = [t \in Turn |-> Unsent]
    /\ page = Elsewhere
    /\ load = [k \in Key |-> NoLoad]
    /\ minted = [k \in Key |-> {}]

-----------------------------------------------------------------------------
\* Navigation.  A navigation to the chat commits a render; its effects are then
\* due, with the values of that render in their closures (seen).

\* Keys, turns and fresh session ids are interchangeable: the next of each is
\* any unused one.
NextKey == CHOOSE k \in Key : k \notin page.keys
NextTurn == CHOOSE t \in Turn : turn[t].phase = "unsent"
Settled == page.passes = 0
Free == {s \in Session : ~session[s].made /\ \A u \in Turn : turn[u].sess # s}
FreshId == CHOOSE s \in Free : TRUE

\* Bounds: the page renders while a turn and an id are left for its seed, and a
\* navigation needs a key.
Room == Free # {} /\ \E t \in Turn : turn[t].phase = "unsent"
Navigable == Settled /\ Room /\ page.keys # Key

Due == IF StrictMode THEN 2 ELSE 1

\* The chat page is mounted anew, or is shown again for another location.
Visit(k, s, p, c) ==
    /\ page' = [page EXCEPT !.on = TRUE, !.key = k, !.keys = @ \cup {k}, !.url = s, !.path = s,
                            !.pickup = p, !.kept = p,
                            !.passes = IF page.on THEN 1 ELSE Due, !.seen = c]
    /\ UNCHANGED <<session, current, turn, load, minted>>

\* New Hire in the sidebar: resetChat, then navigate('/chat').
NewHire ==
    /\ Navigable
    /\ chat' = FreshChat
    /\ Visit(NextKey, NoSession, FALSE, FreshChat)

\* "Pick up & start JD chat" on a hire request: navigate('/chat', {state}).
PickUp ==
    /\ Navigable /\ ~page.on
    /\ UNCHANGED chat
    /\ Visit(NextKey, NoSession, TRUE, chat)

\* A session in the sidebar's history, or "Resume AI Chat" on a position.
OpenSession(s) ==
    /\ Navigable
    /\ session[s].made /\ ~session[s].deleted
    /\ UNCHANGED chat
    /\ Visit(NextKey, s, FALSE, chat)

\* Any other page: ChatPage unmounts with its refs; the provider stays, and so
\* do the streams it reads and the history entry that was left.
Leave ==
    /\ Settled /\ page.on
    /\ page' = [page EXCEPT !.on = FALSE, !.loadedRef = NoSession, !.initRef = NoKey,
                            !.seedRef = NoKey]
    /\ UNCHANGED <<session, chat, current, turn, load, minted>>

\* The browser's Back button: the same entry, as history left it.
GoBack ==
    /\ Settled /\ Room /\ ~page.on /\ page.key # NoKey
    /\ load[page.key].phase = "none"
    /\ UNCHANGED chat
    /\ Visit(page.key, page.path, page.kept, chat)

\* A render whose values differ from the last one runs the second effect again.
Rerender ==
    /\ Settled /\ Room /\ page.on /\ page.pickup /\ page.seedRef # page.key
    /\ page.seen # chat
    /\ page' = [page EXCEPT !.passes = 1, !.seen = chat]
    /\ UNCHANGED <<session, chat, current, turn, load, minted>>

-----------------------------------------------------------------------------
\* Sending a turn.

\* A stream nobody reads any more.
Unread(r) == IF r.phase = "closed" THEN Over ELSE [r EXCEPT !.reading = FALSE, !.events = <<>>]

\* sendMessage up to its first await, called from a closure that saw c while
\* the state to be updated is now: the old controller is aborted, a session id
\* is minted when the closure has none, and the URL is replaced with history
\* state {}, which erases the pickup kept in that entry.
BugAborted(u) == turn[u]
Aborted(u) == IF u = current THEN Unread(turn[u]) ELSE turn[u]

Minted(c) == IF c.sid = NoSession THEN FreshId ELSE c.sid

Sends(c, now) ==
    /\ \E t \in Turn : turn[t].phase = "unsent"
    /\ c.sid # NoSession \/ Free # {}
    /\ chat' = [now EXCEPT !.sid = IF c.sid = NoSession THEN FreshId ELSE @,
                           !.user = TRUE, !.streaming = TRUE]
    /\ current' = NextTurn
    /\ turn' = [u \in Turn |->
          CASE u = NextTurn -> [Unsent EXCEPT !.phase = "sent", !.sess = Minted(c), !.reading = TRUE]
            [] OTHER -> Aborted(u)]

\* The composer and the agent blocks are disabled while a turn streams.
CanSend == page.on /\ ~chat.streaming

Send ==
    /\ Settled /\ CanSend
    /\ Sends(chat, chat)
    /\ page' = IF chat.sid = NoSession
               THEN [page EXCEPT !.path = FreshId, !.kept = FALSE] ELSE page
    /\ UNCHANGED <<session, load, minted>>

\* The first effect of ChatPage.
InitDue == page.url = NoSession /\ page.initRef # page.key
OpenDue == page.url # NoSession /\ page.loadedRef # page.url

\* The guard of the second effect, on the values its closure saw.
BugSeedDue ==
    /\ page.pickup
    /\ page.url = NoSession \/ page.seen.loaded
    /\ page.seen.stage = "intake" /\ ~page.seen.user
SeedDue ==
    /\ page.pickup
    /\ page.url = NoSession \/ page.seen.loaded
    /\ page.seen.stage = "intake" /\ ~page.seen.user
    /\ page.seedRef # page.key

\* What the first effect leaves behind: a reset chat, or a load on its way.
AfterInit ==
    IF InitDue THEN FreshChat
    ELSE IF OpenDue THEN [chat EXCEPT !.sid = page.url, !.loaded = FALSE]
    ELSE chat
InitRefs ==
    IF InitDue THEN [page EXCEPT !.initRef = page.key, !.loadedRef = NoSession]
    ELSE IF OpenDue THEN [page EXCEPT !.loadedRef = page.url, !.initRef = NoKey]
    ELSE page

\* The closure of a render is done with unless its seed is still to come.
Pass == [InitRefs EXCEPT !.passes = @ - 1,
                         !.seen = IF page.passes = 2 \/ page.pickup THEN @ ELSE BootChat]

\* One pass over the effects that are due: first the reset or the load, then
\* the seed of a picked-up hire request, from the closure of the same render.
RunEffects ==
    /\ ~Settled
    /\ load' = IF OpenDue
               THEN [load EXCEPT ![page.key] =
                        [phase |-> "sent", sess |-> page.url, user |-> FALSE, stage |-> "intake"]]
               ELSE load
    /\ \/ /\ SeedDue
          /\ Sends(page.seen, AfterInit)
          /\ page' = [Pass EXCEPT !.seedRef = page.key,
                        !.path = IF page.seen.sid = NoSession THEN FreshId ELSE @,
                        !.kept = IF page.seen.sid = NoSession THEN FALSE ELSE @]
          /\ minted' = IF page.seen.sid = NoSession
                       THEN [minted EXCEPT ![page.key] = @ \cup {FreshId}] ELSE minted
       \/ /\ ~SeedDue
          /\ chat' = AfterInit
          /\ page' = Pass
          /\ UNCHANGED <<current, turn, minted>>
    /\ UNCHANGED session

-----------------------------------------------------------------------------
\* GET /chat/sessions/{id}: answered from the row, applied when it arrives,
\* whatever the page shows by then.

ServeLoad(k) ==
    /\ load[k].phase = "sent"
    /\ load' = [load EXCEPT ![k] = [phase |-> "served", sess |-> load[k].sess,
                                    user |-> session[load[k].sess].user,
                                    stage |-> session[load[k].sess].stage]]
    /\ UNCHANGED <<session, chat, current, turn, page, minted>>

LoadArrives(k) ==
    /\ Settled /\ load[k].phase = "served"
    /\ chat' = [chat EXCEPT !.sid = load[k].sess, !.user = load[k].user,
                            !.stage = load[k].stage, !.loaded = TRUE]
    /\ load' = [load EXCEPT ![k] = [NoLoad EXCEPT !.sess = load[k].sess]]
    /\ UNCHANGED <<session, current, turn, page, minted>>

\* A network error: the greeting is shown under the id that was asked for.
LoadFails(k) ==
    /\ Settled /\ load[k].phase = "sent"
    /\ chat' = [chat EXCEPT !.sid = load[k].sess, !.user = FALSE, !.loaded = TRUE]
    /\ load' = [load EXCEPT ![k] = [NoLoad EXCEPT !.sess = load[k].sess]]
    /\ UNCHANGED <<session, current, turn, page, minted>>

-----------------------------------------------------------------------------
\* The stream endpoint.  run_chat_stream reads the row once, at the start.

Accept(t) ==
    /\ turn[t].phase = "sent"
    /\ session' = [session EXCEPT ![turn[t].sess].made = TRUE, ![turn[t].sess].user = TRUE]
    /\ turn' = [turn EXCEPT ![t].phase = "running", ![t].read = session[turn[t].sess].stage]
    /\ UNCHANGED <<chat, current, page, load, minted>>

\* The generator returns after its last event.
EndsWith(r, e) == IF r.reading THEN [r EXCEPT !.phase = "closed", !.events = Append(@, e)] ELSE Over

\* The budget is spent: the session exists, the message is not saved.
RefuseBudget(t) ==
    /\ turn[t].phase = "sent"
    /\ session' = [session EXCEPT ![turn[t].sess].made = TRUE]
    /\ turn' = [turn EXCEPT ![t] = EndsWith(turn[t], "error")]
    /\ UNCHANGED <<chat, current, page, load, minted>>

\* The agent ran: its stage changes are emitted before anything is saved.
Emit(t, g) ==
    /\ turn[t].phase = "running"
    /\ g \in {turn[t].read, "later"}
    /\ turn' = [turn EXCEPT ![t].phase = "emitted", ![t].next = g,
                   ![t].events = IF turn[t].reading THEN Append(@, "stage") ELSE @]
    /\ UNCHANGED <<session, chat, current, page, load, minted>>

\* update_state overwrites the row's state, then done is emitted.
Persist(t) ==
    /\ turn[t].phase = "emitted"
    /\ session' = [session EXCEPT ![turn[t].sess].stage = turn[t].next]
    /\ turn' = [turn EXCEPT ![t] = EndsWith(turn[t], "done")]
    /\ UNCHANGED <<chat, current, page, load, minted>>

\* The server notices that nobody reads: the generator is cancelled.
Cancel(t) ==
    /\ turn[t].phase \in {"running", "emitted"} /\ ~turn[t].reading
    /\ turn' = [turn EXCEPT ![t] = Over]
    /\ UNCHANGED <<session, chat, current, page, load, minted>>

-----------------------------------------------------------------------------
\* The reader loop of sendMessage.

Receive(t) ==
    /\ Settled /\ turn[t].reading /\ turn[t].events # <<>>
    /\ turn' = [turn EXCEPT ![t].events = Tail(@)]
    /\ chat' = CASE Head(turn[t].events) = "stage" -> [chat EXCEPT !.stage = turn[t].next]
                 [] Head(turn[t].events) = "done"  -> [chat EXCEPT !.streaming = FALSE]
                 [] OTHER -> chat
    /\ UNCHANGED <<session, current, page, load, minted>>

\* finally: only the reader that still owns the controller unlocks the page.
Ends(t) ==
    /\ turn' = [turn EXCEPT ![t] = Unread(turn[t])]
    /\ current' = IF current = t THEN NoTurn ELSE current
    /\ chat' = IF current = t THEN [chat EXCEPT !.streaming = FALSE] ELSE chat
    /\ UNCHANGED <<session, page, load, minted>>

\* The body is read to its end.
Close(t) ==
    /\ Settled /\ turn[t].reading /\ turn[t].events = <<>>
    /\ turn[t].phase = "closed"
    /\ Ends(t)

\* The connection breaks: "Connection interrupted. Please try again."
Interrupt(t) ==
    /\ Settled /\ turn[t].reading
    /\ Ends(t)

-----------------------------------------------------------------------------
\* The history: DELETE, then away from the page if the address bar names the
\* deleted session (the id put there by replaceState included).
DeleteSession(s) ==
    /\ Settled /\ session[s].made /\ ~session[s].deleted
    /\ session' = [session EXCEPT ![s].deleted = TRUE]
    /\ IF page.on /\ page.path = s
       THEN /\ Navigable
            /\ page' = [page EXCEPT !.key = NextKey, !.keys = @ \cup {NextKey}, !.url = NoSession, !.path = NoSession,
                                    !.pickup = FALSE, !.kept = FALSE, !.passes = 1, !.seen = chat]
       ELSE UNCHANGED page
    /\ UNCHANGED <<chat, current, turn, load, minted>>

Navigate == NewHire \/ PickUp \/ (\E s \in Session : OpenSession(s)) \/ Leave \/ GoBack \/ Rerender
Deletes == \E s \in Session : DeleteSession(s)
Loads == \E k \in Key : ServeLoad(k) \/ LoadArrives(k) \/ LoadFails(k)
TurnServed == \E t \in Turn : \/ Accept(t) \/ RefuseBudget(t) \/ Persist(t) \/ Cancel(t)
                          \/ \E g \in Stage : Emit(t, g)
ChatReads == \E t \in Turn : Receive(t) \/ Close(t) \/ Interrupt(t)

ChatNext ==
    \/ Navigate \/ Deletes \/ Loads \/ Send \/ RunEffects \/ TurnServed \/ ChatReads

ChatSpec == ChatInit /\ [][ChatNext]_chatVars

-----------------------------------------------------------------------------
\* One pickup of a hire request opens at most one chat session, however often
\* effects run, renders repeat and history is walked back (issues #6 and #8).
PickupMintsOnce == \A k \in Key : Cardinality(minted[k]) <= 1

\* At most one stream is read, and a locked composer belongs to it: the events
\* of two turns never mix on the page.
OneStreamIsRead ==
    /\ \A t \in Turn : turn[t].reading => t = current
    /\ chat.streaming => current # NoTurn

=============================================================================
