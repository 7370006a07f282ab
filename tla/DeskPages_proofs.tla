--------------------------- MODULE DeskPages_proofs --------------------------
(**************************************************************************)
(* The recruiter's desk: the chat page and its streams, the position made  *)
(* of a JD, the JD on the canvas, and the list of hire requests, each      *)
(* proved by itself and for every value of its constants.                  *)
(**************************************************************************)
EXTENDS ChatSessions, JdEditor, PositionSetup, HireDesk, JdReviewTab, FiniteSetTheorems, SequenceTheorems, TLAPS

-----------------------------------------------------------------------------
(**************************************************************************)
(* The chat page. A navigation that was given the details of a hire        *)
(* request opens one session, however often its effects run, and of the    *)
(* streams of one tab only the one whose controller is held is read.       *)
(**************************************************************************)

\* The turns: the one that is read is the one whose controller is held.
TurnsInv ==
    /\ chat \in Chat /\ current \in Turn \cup {NoTurn} /\ turn \in [Turn -> Stream]
    /\ OneStreamIsRead
    /\ \A t \in Turn : turn[t].phase \in {"sent", "running", "emitted"} => turn[t].sess \in Session

\* The rows, and the loads of one.
RowsInv ==
    /\ session \in [Session -> Row] /\ load \in [Key -> Load]
    /\ \A k \in Key : load[k].phase # "none" => load[k].sess \in Session

\* A navigation that has opened a session will not do so again: its entry no longer
\* holds the pickup, and the page that is shown has seeded it.
MintInv ==
    /\ page \in Page /\ minted \in [Key -> SUBSET Session]
    /\ page.on => page.key \in Key
    /\ page.passes # 0 => page.on
    /\ page.key \in page.keys \cup {NoKey}
    /\ \A k \in Key : minted[k] # {} => k \in page.keys
    /\ \A k \in Key : minted[k] = {} \/ \E s \in Session : minted[k] = {s}
    /\ page.key \in Key /\ minted[page.key] # {} =>
          ~page.kept /\ (page.on /\ page.pickup => page.seedRef = page.key)

ChatInv == TurnsInv /\ RowsInv /\ MintInv

\* At first no turn is read, no session minted and no load on its way.
LEMMA ChatStart == ChatInit => ChatInv
<1> SUFFICES ASSUME ChatInit PROVE ChatInv
  OBVIOUS
<1> USE ChatAssumption
<1>1. BootChat \in Chat /\ ~BootChat.streaming
  BY DEF BootChat, FreshChat, Chat, Stage
<1>2. Unsent \in Stream /\ ~Unsent.reading /\ Unsent.phase = "unsent"
  <2>1. <<>> \in Seq(Event)
    BY EmptySeq
  <2> QED
    BY <2>1 DEF Unsent, Stream, Stage, Phase
<1>3. TurnsInv
  BY <1>1, <1>2 DEF ChatInit, TurnsInv, OneStreamIsRead
<1>4. RowsInv
  <2>1. NewRow \in Row /\ \A r \in PastRow : r \in Row
    <3>1. NewRow \in Row /\ [NewRow EXCEPT !.made = TRUE] \in Row
      BY DEF NewRow, Row, Stage
    <3>2. [made |-> TRUE, deleted |-> FALSE, user |-> TRUE, stage |-> "later"] \in Row
      BY DEF Row, Stage
    <3> QED
      BY <3>1, <3>2 DEF PastRow
  <2>2. NoLoad \in Load /\ NoLoad.phase = "none"
    BY DEF NoLoad, Load, Stage
  <2>3. session \in [Session -> Row]
    BY <2>1 DEF ChatInit
  <2> QED
    BY <2>2, <2>3 DEF ChatInit, RowsInv
<1>5. MintInv
  <2>1. Elsewhere \in Page
    BY <1>1 DEF Elsewhere, Page
  <2> QED
    BY <2>1 DEF ChatInit, MintInv, Elsewhere
<1> QED
  BY <1>3, <1>4, <1>5 DEF ChatInv

\* The entry, the turn and the session that are made next are new.
LEMMA TheNextKey == ASSUME MintInv, page.keys # Key PROVE NextKey \in Key /\ NextKey \notin page.keys
BY DEF NextKey, MintInv, Page

LEMMA TheNextTurn ==
    ASSUME \E t \in Turn : turn[t].phase = "unsent" PROVE NextTurn \in Turn
BY DEF NextTurn

LEMMA TheFreshId == ASSUME Free # {} PROVE FreshId \in Session
BY DEF FreshId, Free

\* The values a chat, a turn and an entry start from, or are reset to.
LEMMA Chats == FreshChat \in Chat /\ BootChat \in Chat /\ ~FreshChat.streaming /\ ~BootChat.streaming
BY DEF FreshChat, BootChat, Chat, Stage

LEMMA Streams ==
    /\ Unsent \in Stream /\ Over \in Stream /\ ~Over.reading /\ Over.phase = "over"
    /\ \A r \in Stream : Unread(r) \in Stream /\ ~Unread(r).reading
                         /\ \/ Unread(r).phase = r.phase /\ Unread(r).sess = r.sess
                            \/ Unread(r) = Over
<1>1. <<>> \in Seq(Event)
  BY EmptySeq
<1>2. Unsent \in Stream /\ Over \in Stream /\ ~Over.reading /\ Over.phase = "over"
  BY <1>1 DEF Unsent, Over, Stream, Stage, Phase
<1>3. ASSUME NEW r \in Stream
      PROVE  /\ [r EXCEPT !.reading = FALSE, !.events = <<>>] \in Stream
             /\ ~[r EXCEPT !.reading = FALSE, !.events = <<>>].reading
             /\ [r EXCEPT !.reading = FALSE, !.events = <<>>].phase = r.phase
             /\ [r EXCEPT !.reading = FALSE, !.events = <<>>].sess = r.sess
  BY <1>1 DEF Stream
<1> QED
  BY <1>2, <1>3 DEF Unread

\* One turn goes on: it is read only if it was, and keeps its session.
LEMMA TurnStep ==
    ASSUME TurnsInv, NEW t \in Turn, NEW r \in Stream, turn' = [turn EXCEPT ![t] = r],
           r.reading => turn[t].reading,
           r.phase \in {"sent", "running", "emitted"} => r.sess \in Session,
           chat' \in Chat, chat'.streaming => chat.streaming, UNCHANGED current
    PROVE  TurnsInv'
BY DEF TurnsInv, OneStreamIsRead

\* A turn is sent: the one that was read no longer is.
LEMMA SendsStep ==
    ASSUME TurnsInv, NEW c \in Chat, NEW now \in Chat, Sends(c, now)
    PROVE  TurnsInv'
<1> USE ChatAssumption
<1>1. NextTurn \in Turn
  BY TheNextTurn DEF Sends
<1>2. Minted(c) \in Session
  BY TheFreshId DEF Sends, Minted, Chat
<1>3. chat' \in Chat
  <2>1. (IF c.sid = NoSession THEN FreshId ELSE now.sid) \in Session \cup {NoSession}
    BY TheFreshId DEF Sends, Chat
  <2> QED
    BY <2>1 DEF Sends, Chat
<1>4. current' = NextTurn /\ current' # NoTurn
  BY <1>1 DEF Sends
<1> DEFINE r == [Unsent EXCEPT !.phase = "sent", !.sess = Minted(c), !.reading = TRUE]
<1>5. r \in Stream /\ r.sess \in Session
  BY <1>2, Streams DEF Unsent, Stream, Phase
<1> HIDE DEF r
<1>6. turn' = [u \in Turn |-> IF u = NextTurn THEN r ELSE Aborted(u)]
  BY DEF Sends, r
<1>7. ASSUME NEW u \in Turn
      PROVE  /\ Aborted(u) \in Stream /\ ~Aborted(u).reading
             /\ Aborted(u).phase \in {"sent", "running", "emitted"} => Aborted(u).sess \in Session
  <2>1. CASE u = current
    BY <2>1, Streams DEF Aborted, TurnsInv
  <2>2. CASE u # current
    BY <2>2 DEF Aborted, TurnsInv, OneStreamIsRead
  <2> QED
    BY <2>1, <2>2
<1>8. turn' \in [Turn -> Stream]
  BY <1>5, <1>6, <1>7
<1>9. \A u \in Turn : /\ turn'[u].reading => u = NextTurn
                      /\ turn'[u].phase \in {"sent", "running", "emitted"} => turn'[u].sess \in Session
  BY <1>5, <1>6, <1>7
<1> QED
  BY <1>1, <1>3, <1>4, <1>8, <1>9 DEF TurnsInv, OneStreamIsRead

\* What the chat becomes outside of sendMessage and of the reader.
LEMMA ChatChanges ==
    ASSUME TurnsInv, chat' \in Chat, chat'.streaming => chat.streaming, UNCHANGED <<turn, current>>
    PROVE  TurnsInv'
BY DEF TurnsInv, OneStreamIsRead

\* What becomes of the page within the navigation that is shown.
LEMMA PageChanges ==
    ASSUME MintInv, NEW p \in Page, page' = p, UNCHANGED minted,
           p.key = page.key, p.keys = page.keys, p.passes # 0 => p.on, p.on => p.key \in Key,
           p.kept => page.kept,
           p.on /\ p.pickup => \/ page.kept
                               \/ page.on /\ page.pickup /\ p.seedRef = page.seedRef
    PROVE  MintInv'
BY DEF MintInv

\* A navigation makes a new entry.
LEMMA NewEntry ==
    ASSUME MintInv, NEW p \in Page, page' = p, UNCHANGED minted, NEW k \in Key, k \notin page.keys,
           p.key = k, p.keys = page.keys \cup {k}, p.on
    PROVE  MintInv'
BY DEF MintInv

\* The steps that leave one of the three parts alone.
LEMMA RowsKept == RowsInv /\ UNCHANGED <<session, load>> => RowsInv'
BY DEF RowsInv
LEMMA MintKept == MintInv /\ UNCHANGED <<page, minted>> => MintInv'
BY DEF MintInv
LEMMA TurnsKept == TurnsInv /\ UNCHANGED <<chat, current, turn>> => TurnsInv'
BY DEF TurnsInv, OneStreamIsRead

\* The actions, by the groups of ChatNext.
LEMMA NavigateStep == ASSUME ChatInv, Navigate PROVE ChatInv'
<1> USE ChatAssumption
<1>p. page \in Page /\ chat \in Chat
  BY DEF ChatInv, MintInv, TurnsInv
<1>1. UNCHANGED <<session, current, turn, load, minted>>
  BY DEF Navigate, NewHire, PickUp, OpenSession, Leave, GoBack, Rerender, Visit
<1>2. TurnsInv'
  <2>1. chat' \in {chat, FreshChat}
    BY DEF Navigate, NewHire, PickUp, OpenSession, Leave, GoBack, Rerender
  <2> QED
    BY <1>1, <2>1, Chats, ChatChanges DEF ChatInv, TurnsInv
<1>3. RowsInv'
  BY <1>1, RowsKept DEF ChatInv
<1>4. ASSUME NEW k \in Key, NEW s \in Session \cup {NoSession}, NEW q \in BOOLEAN, NEW c \in Chat,
             Visit(k, s, q, c)
      PROVE  /\ page' \in Page /\ page'.on /\ page'.key = k /\ page'.keys = page.keys \cup {k}
             /\ page'.pickup = q /\ page'.kept = q
  <2>1. (IF page.on THEN 1 ELSE Due) \in 0 .. 2
    BY DEF Due
  <2> QED
    BY <1>4, <1>p, <2>1 DEF Visit, Page
<1>5. CASE NewHire \/ PickUp \/ \E s \in Session : OpenSession(s)
  <2>1. PICK s \in Session \cup {NoSession}, q \in BOOLEAN, c \in Chat : Visit(NextKey, s, q, c)
    BY <1>5, <1>p, Chats DEF NewHire, PickUp, OpenSession
  <2>2. NextKey \in Key /\ NextKey \notin page.keys
    BY <1>5, TheNextKey DEF NewHire, PickUp, OpenSession, Navigable, ChatInv
  <2>3. MintInv'
    BY <1>1, <1>4, <2>1, <2>2, NewEntry DEF ChatInv
  <2> QED
    BY <1>2, <1>3, <2>3 DEF ChatInv
<1>6. CASE GoBack
  <2>1. page.key \in Key
    BY <1>6, <1>p DEF GoBack, Page
  <2>2. page.path \in Session \cup {NoSession} /\ page.kept \in BOOLEAN
    BY <1>p DEF Page
  <2>3. /\ page' \in Page /\ page'.on /\ page'.key = page.key /\ page'.keys = page.keys \cup {page.key}
        /\ page'.pickup = page.kept /\ page'.kept = page.kept
    BY <1>4, <1>6, <1>p, <2>1, <2>2 DEF GoBack
  <2>4. page'.keys = page.keys
    BY <2>1, <2>3 DEF ChatInv, MintInv
  <2>5. MintInv'
    BY <1>1, <2>1, <2>3, <2>4, PageChanges DEF ChatInv
  <2> QED
    BY <1>2, <1>3, <2>5 DEF ChatInv
<1>7. CASE Leave
  <2>1. page.passes = 0 /\ page' = [page EXCEPT !.on = FALSE, !.loadedRef = NoSession, !.initRef = NoKey,
                                                !.seedRef = NoKey]
    BY <1>7 DEF Leave, Settled
  <2>2. /\ page' \in Page /\ ~page'.on /\ page'.key = page.key /\ page'.keys = page.keys
        /\ page'.kept = page.kept /\ page'.passes = 0
    BY <1>p, <2>1 DEF Page
  <2>3. MintInv'
    BY <1>1, <2>2, PageChanges DEF ChatInv
  <2> QED
    BY <1>2, <1>3, <2>3 DEF ChatInv
<1>8. CASE Rerender
  <2>1. page.on /\ page.pickup /\ page' = [page EXCEPT !.passes = 1, !.seen = chat]
    BY <1>8 DEF Rerender
  <2>2. 1 \in 0 .. 2
    OBVIOUS
  <2>3. /\ page' \in Page /\ page'.on = page.on /\ page'.key = page.key /\ page'.keys = page.keys
        /\ page'.kept = page.kept /\ page'.pickup = page.pickup /\ page'.seedRef = page.seedRef
    BY <1>p, <2>1, <2>2 DEF Page
  <2>4. MintInv'
    BY <1>1, <2>1, <2>3, PageChanges DEF ChatInv, MintInv
  <2> QED
    BY <1>2, <1>3, <2>4 DEF ChatInv
<1> QED
  BY <1>5, <1>6, <1>7, <1>8 DEF Navigate

LEMMA DeletesStep == ASSUME ChatInv, NEW s \in Session, DeleteSession(s) PROVE ChatInv'
<1> USE ChatAssumption
<1>p. page \in Page /\ chat \in Chat
  BY DEF ChatInv, MintInv, TurnsInv
<1>1. TurnsInv'
  BY TurnsKept DEF ChatInv, DeleteSession
<1>2. RowsInv'
  <2>1. [session[s] EXCEPT !.deleted = TRUE] \in Row
    BY DEF ChatInv, RowsInv, Row
  <2>2. session' = [session EXCEPT ![s] = [session[s] EXCEPT !.deleted = TRUE]]
    BY DEF DeleteSession
  <2> QED
    BY <2>1, <2>2 DEF DeleteSession, ChatInv, RowsInv
<1>3. MintInv'
  <2>1. CASE page.on /\ page.path = s
    <3>1. NextKey \in Key /\ NextKey \notin page.keys
      BY <2>1, TheNextKey DEF DeleteSession, Navigable, ChatInv
    <3>2. 1 \in 0 .. 2
      OBVIOUS
    <3> DEFINE p == [page EXCEPT !.key = NextKey, !.keys = page.keys \cup {NextKey}, !.url = NoSession,
                       !.path = NoSession, !.pickup = FALSE, !.kept = FALSE, !.passes = 1, !.seen = chat]
    <3>3. p \in Page /\ p.on = page.on /\ p.key = NextKey /\ p.keys = page.keys \cup {NextKey}
      BY <1>p, <3>1, <3>2 DEF Page
    <3>4. page' = p /\ UNCHANGED minted
      BY <2>1 DEF DeleteSession
    <3> HIDE DEF p
    <3> QED
      BY <2>1, <3>1, <3>3, <3>4, NewEntry DEF ChatInv
  <2>2. CASE ~(page.on /\ page.path = s)
    BY <2>2, MintKept DEF DeleteSession, ChatInv
  <2> QED
    BY <2>1, <2>2
<1> QED
  BY <1>1, <1>2, <1>3 DEF ChatInv

LEMMA LoadsStep == ASSUME ChatInv, NEW k \in Key, ServeLoad(k) \/ LoadArrives(k) \/ LoadFails(k) PROVE ChatInv'
<1>p. chat \in Chat /\ load[k] \in Load /\ (load[k].phase # "none" => load[k].sess \in Session)
  BY DEF ChatInv, TurnsInv, RowsInv
<1>1. MintInv'
  BY MintKept DEF ChatInv, ServeLoad, LoadArrives, LoadFails
<1>2. TurnsInv'
  <2>1. CASE ServeLoad(k)
    BY <2>1, TurnsKept DEF ServeLoad, ChatInv
  <2>2. CASE LoadArrives(k) \/ LoadFails(k)
    <3>1. chat' \in Chat /\ chat'.streaming = chat.streaming
      BY <1>p, <2>2 DEF LoadArrives, LoadFails, Chat, Load
    <3> QED
      BY <2>2, <3>1, ChatChanges DEF LoadArrives, LoadFails, ChatInv
  <2> QED
    BY <2>1, <2>2
<1>3. PICK l : /\ load' = [load EXCEPT ![k] = l] /\ l \in Load
               /\ l.phase # "none" => l.sess \in Session
  <2>1. CASE ServeLoad(k)
    <3>1. load[k].sess \in Session
      BY <1>p, <2>1 DEF ServeLoad
    <3>2. session[load[k].sess] \in Row
      BY <3>1 DEF ChatInv, RowsInv
    <3> DEFINE l == [phase |-> "served", sess |-> load[k].sess, user |-> session[load[k].sess].user,
                     stage |-> session[load[k].sess].stage]
    <3>3. l \in Load /\ l.sess \in Session
      BY <3>1, <3>2 DEF Load, Row
    <3> QED
      BY <2>1, <3>3 DEF ServeLoad
  <2>2. CASE LoadArrives(k) \/ LoadFails(k)
    <3> DEFINE l == [NoLoad EXCEPT !.sess = load[k].sess]
    <3>1. l \in Load /\ l.phase = "none"
      BY <1>p DEF NoLoad, Load, Stage
    <3> QED
      BY <2>2, <3>1 DEF LoadArrives, LoadFails
  <2> QED
    BY <2>1, <2>2
<1>4. RowsInv'
  <2>1. UNCHANGED session
    BY DEF ServeLoad, LoadArrives, LoadFails
  <2> QED
    BY <1>3, <2>1 DEF ChatInv, RowsInv
<1> QED
  BY <1>1, <1>2, <1>4 DEF ChatInv

LEMMA SendStep == ASSUME ChatInv, Send PROVE ChatInv'
<1>1. TurnsInv'
  BY SendsStep DEF Send, ChatInv, TurnsInv
<1>2. RowsInv'
  BY RowsKept DEF Send, ChatInv
<1>3. MintInv'
  <2>1. CASE chat.sid # NoSession
    BY <2>1, MintKept DEF Send, ChatInv
  <2>2. CASE chat.sid = NoSession
    <3>1. FreshId \in Session /\ page \in Page
      BY <2>2, TheFreshId DEF Send, Sends, ChatInv, MintInv
    <3>2. page' = [page EXCEPT !.path = FreshId, !.kept = FALSE]
      BY <2>2 DEF Send
    <3>3. /\ page' \in Page /\ page'.on = page.on /\ page'.key = page.key /\ page'.keys = page.keys
          /\ ~page'.kept /\ page'.pickup = page.pickup /\ page'.seedRef = page.seedRef /\ page'.passes = page.passes
      BY <3>1, <3>2 DEF Page
    <3> QED
      BY <3>3, PageChanges DEF Send, ChatInv, MintInv
  <2> QED
    BY <2>1, <2>2
<1> QED
  BY <1>1, <1>2, <1>3 DEF ChatInv

LEMMA EffectsStep == ASSUME ChatInv, RunEffects PROVE ChatInv'
<1> USE ChatAssumption
<1>p. /\ page \in Page /\ chat \in Chat /\ page.on /\ page.key \in Key /\ page.passes \in {1, 2}
      /\ page.seen \in Chat
  BY DEF ChatInv, MintInv, TurnsInv, RunEffects, Settled, Page
<1>1. AfterInit \in Chat /\ (AfterInit.streaming => chat.streaming)
  BY <1>p, Chats DEF AfterInit, Chat, Page
<1>2. TurnsInv'
  <2>1. CASE SeedDue
    BY <2>1, <1>p, <1>1, SendsStep DEF RunEffects, ChatInv
  <2>2. CASE ~SeedDue
    BY <2>2, <1>1, ChatChanges DEF RunEffects, ChatInv
  <2> QED
    BY <2>1, <2>2
<1>3. RowsInv'
  <2>1. CASE OpenDue
    <3> DEFINE l == [phase |-> "sent", sess |-> page.url, user |-> FALSE, stage |-> "intake"]
    <3>1. l \in Load /\ l.sess \in Session
      BY <1>p, <2>1 DEF OpenDue, Page, Load, Stage
    <3>2. load' = [load EXCEPT ![page.key] = l] /\ UNCHANGED session
      BY <2>1 DEF RunEffects
    <3> QED
      BY <3>1, <3>2 DEF ChatInv, RowsInv
  <2>2. CASE ~OpenDue
    BY <2>2, RowsKept DEF RunEffects, ChatInv
  <2> QED
    BY <2>1, <2>2
<1>4. /\ InitRefs \in Page /\ InitRefs.on = page.on /\ InitRefs.key = page.key /\ InitRefs.keys = page.keys
      /\ InitRefs.kept = page.kept /\ InitRefs.pickup = page.pickup /\ InitRefs.seedRef = page.seedRef
      /\ InitRefs.passes = page.passes
  BY <1>p DEF InitRefs, Page
<1>5. /\ Pass \in Page /\ Pass.on = page.on /\ Pass.key = page.key /\ Pass.keys = page.keys
      /\ Pass.kept = page.kept /\ Pass.pickup = page.pickup /\ Pass.seedRef = page.seedRef
  <2>1. (IF page.passes = 2 \/ page.pickup THEN InitRefs.seen ELSE BootChat) \in Chat
    BY <1>4, Chats DEF Page
  <2>2. InitRefs.passes - 1 \in 0 .. 2
    BY <1>p, <1>4
  <2> QED
    BY <1>4, <2>1, <2>2 DEF Pass, Page
<1>6. MintInv'
  <2>1. CASE ~SeedDue
    BY <2>1, <1>p, <1>5, PageChanges DEF RunEffects, ChatInv
  <2>2. CASE SeedDue /\ page.seen.sid # NoSession
    <3>1. page' = [Pass EXCEPT !.seedRef = page.key, !.path = Pass.path, !.kept = Pass.kept] /\ UNCHANGED minted
      BY <2>2 DEF RunEffects
    <3>2. /\ page' \in Page /\ page'.on = page.on /\ page'.key = page.key /\ page'.keys = page.keys
          /\ page'.kept = page.kept /\ page'.seedRef = page.key
      BY <1>p, <1>5, <3>1 DEF Page
    <3> QED
      BY <1>p, <3>1, <3>2 DEF ChatInv, MintInv
  <2>3. CASE SeedDue /\ page.seen.sid = NoSession
    <3>1. FreshId \in Session
      BY <2>3, TheFreshId DEF RunEffects, Sends
    <3>2. minted[page.key] = {}
      BY <2>3, <1>p DEF SeedDue, ChatInv, MintInv
    <3>3. /\ page' = [Pass EXCEPT !.seedRef = page.key, !.path = FreshId, !.kept = FALSE]
          /\ minted' = [minted EXCEPT ![page.key] = minted[page.key] \cup {FreshId}]
      BY <2>3 DEF RunEffects
    <3>4. /\ page' \in Page /\ page'.on = page.on /\ page'.key = page.key /\ page'.keys = page.keys
          /\ ~page'.kept /\ page'.seedRef = page.key
      BY <1>p, <1>5, <3>1, <3>3 DEF Page
    <3>5. minted' = [minted EXCEPT ![page.key] = {FreshId}]
      BY <3>2, <3>3
    <3>6. page.key \in page.keys
      BY <1>p DEF ChatInv, MintInv
    <3> QED
      BY <1>p, <3>1, <3>4, <3>5, <3>6 DEF ChatInv, MintInv
  <2> QED
    BY <2>1, <2>2, <2>3
<1> QED
  BY <1>2, <1>3, <1>6 DEF ChatInv

\* The generator closes the stream with a last event.
LEMMA Ended ==
    ASSUME NEW r \in Stream, NEW e \in Event
    PROVE  /\ EndsWith(r, e) \in Stream /\ (EndsWith(r, e).reading => r.reading)
           /\ EndsWith(r, e).phase \in {"closed", "over"}
<1>1. Append(r.events, e) \in Seq(Event)
  BY DEF Stream
<1>2. [r EXCEPT !.phase = "closed", !.events = Append(r.events, e)] \in Stream
  BY <1>1 DEF Stream, Phase
<1> QED
  BY <1>2, Streams DEF EndsWith, Stream

LEMMA ServedStep ==
    ASSUME ChatInv, NEW t \in Turn,
           Accept(t) \/ RefuseBudget(t) \/ Persist(t) \/ Cancel(t) \/ \E g \in Stage : Emit(t, g)
    PROVE  ChatInv'
<1>p. /\ turn[t] \in Stream /\ chat \in Chat /\ session \in [Session -> Row]
      /\ turn[t].phase \in {"sent", "running", "emitted"} => turn[t].sess \in Session
  BY DEF ChatInv, TurnsInv, RowsInv
<1>0. /\ turn[t].sess \in Session /\ UNCHANGED <<chat, current, page, load, minted>>
      /\ session[turn[t].sess] \in Row
  BY <1>p DEF Accept, RefuseBudget, Persist, Cancel, Emit
<1>1. MintInv'
  BY <1>0, MintKept DEF ChatInv
<1>2. RowsInv'
  <2>1. session' \in [Session -> Row]
    <3> DEFINE s == turn[t].sess
    <3>1. CASE Accept(t)
      <4>1. [session[s] EXCEPT !.made = TRUE, !.user = TRUE] \in Row
        BY <1>0 DEF Row
      <4>2. session' = [session EXCEPT ![s] = [session[s] EXCEPT !.made = TRUE, !.user = TRUE]]
        BY <3>1, <1>p, <1>0 DEF Accept
      <4> QED
        BY <1>p, <4>1, <4>2
    <3>2. CASE RefuseBudget(t)
      <4>1. [session[s] EXCEPT !.made = TRUE] \in Row
        BY <1>0 DEF Row
      <4> QED
        BY <3>2, <1>p, <4>1 DEF RefuseBudget
    <3>3. CASE Persist(t)
      <4>1. [session[s] EXCEPT !.stage = turn[t].next] \in Row
        BY <1>p, <1>0 DEF Row, Stream
      <4> QED
        BY <3>3, <1>p, <4>1 DEF Persist
    <3>4. CASE Cancel(t) \/ \E g \in Stage : Emit(t, g)
      BY <3>4, <1>p DEF Cancel, Emit
    <3> QED
      BY <3>1, <3>2, <3>3, <3>4
  <2> QED
    BY <1>0, <2>1 DEF ChatInv, RowsInv
<1>3. PICK r \in Stream : /\ turn' = [turn EXCEPT ![t] = r] /\ (r.reading => turn[t].reading)
                          /\ r.phase \in {"sent", "running", "emitted"} => r.sess \in Session
  <2>1. CASE Accept(t)
    <3> DEFINE r == [turn[t] EXCEPT !.phase = "running", !.read = session[turn[t].sess].stage]
    <3>1. r \in Stream /\ r.sess = turn[t].sess /\ r.reading = turn[t].reading
      BY <1>p, <1>0 DEF Stream, Phase, Row
    <3>2. turn' = [turn EXCEPT ![t] = r]
      BY <2>1 DEF Accept
    <3> QED
      BY <1>0, <3>1, <3>2
  <2>2. CASE RefuseBudget(t) \/ Persist(t)
    <3>1. "error" \in Event /\ "done" \in Event
      BY DEF Event
    <3>2. PICK e \in Event : turn' = [turn EXCEPT ![t] = EndsWith(turn[t], e)]
      BY <2>2, <3>1 DEF RefuseBudget, Persist
    <3> QED
      BY <1>p, <3>2, Ended
  <2>3. CASE Cancel(t)
    BY <2>3, Streams DEF Cancel
  <2>4. CASE \E g \in Stage : Emit(t, g)
    <3>1. PICK g \in Stage : Emit(t, g)
      BY <2>4
    <3> DEFINE ev == IF turn[t].reading THEN Append(turn[t].events, "stage") ELSE turn[t].events
               r == [turn[t] EXCEPT !.phase = "emitted", !.next = g, !.events = ev]
    <3>2. ev \in Seq(Event)
      BY <1>p DEF Stream, Event
    <3>3. turn' = [turn EXCEPT ![t] = r]
      BY <3>1 DEF Emit
    <3> HIDE DEF ev
    <3>4. r \in Stream /\ r.sess = turn[t].sess /\ r.reading = turn[t].reading
      BY <1>p, <3>2 DEF Stream, Phase
    <3> QED
      BY <1>0, <3>3, <3>4
  <2> QED
    BY <2>1, <2>2, <2>3, <2>4
<1>4. TurnsInv'
  BY <1>p, <1>0, <1>3, TurnStep DEF ChatInv
<1> QED
  BY <1>1, <1>2, <1>4 DEF ChatInv

\* The reader takes an event, or is done with the stream.
LEMMA ReadsStep == ASSUME ChatInv, NEW t \in Turn, Receive(t) \/ Close(t) \/ Interrupt(t) PROVE ChatInv'
<1> USE ChatAssumption
<1>p. turn[t] \in Stream /\ chat \in Chat /\ turn \in [Turn -> Stream] /\ TurnsInv
  BY DEF ChatInv, TurnsInv
<1>1. MintInv' /\ RowsInv'
  BY MintKept, RowsKept DEF ChatInv, Receive, Close, Interrupt, Ends
<1>2. CASE Receive(t)
  <2>1. /\ turn[t].events \in Seq(Event) /\ turn[t].events # <<>>
        /\ turn' = [turn EXCEPT ![t] = [turn[t] EXCEPT !.events = Tail(turn[t].events)]]
    BY <1>2, <1>p DEF Receive, Stream
  <2>2. Tail(turn[t].events) \in Seq(Event)
    BY <2>1, HeadTailProperties
  <2> DEFINE r == [turn[t] EXCEPT !.events = Tail(turn[t].events)]
  <2>3. r \in Stream /\ r.reading = turn[t].reading /\ r.phase = turn[t].phase /\ r.sess = turn[t].sess
    BY <1>p, <2>2 DEF Stream
  <2>4. chat' \in Chat /\ (chat'.streaming => chat.streaming)
    <3> DEFINE e == Head(turn[t].events)
    <3>0. turn[t].next \in Stage
      BY <1>p DEF Stream
    <3>1. CASE e = "stage"
      BY <3>1, <3>0, <1>2, <1>p DEF Receive, Chat
    <3>2. CASE e = "done"
      BY <3>2, <1>2, <1>p DEF Receive, Chat
    <3>3. CASE e \notin {"stage", "done"}
      BY <3>3, <1>2, <1>p DEF Receive
    <3> QED
      BY <3>1, <3>2, <3>3
  <2> HIDE DEF r
  <2>5. turn' = [turn EXCEPT ![t] = r] /\ UNCHANGED current
    BY <1>2, <2>1 DEF Receive, r
  <2>6. r.phase \in {"sent", "running", "emitted"} => r.sess \in Session
    BY <1>p, <2>3 DEF TurnsInv
  <2>7. TurnsInv'
    BY <1>p, <2>3, <2>4, <2>5, <2>6, TurnStep
  <2> QED
    BY <1>1, <2>7 DEF ChatInv
<1>3. CASE Close(t) \/ Interrupt(t)
  <2>1. /\ turn[t].reading /\ turn' = [turn EXCEPT ![t] = Unread(turn[t])]
        /\ current' = IF current = t THEN NoTurn ELSE current
        /\ chat' = IF current = t THEN [chat EXCEPT !.streaming = FALSE] ELSE chat
    BY <1>3 DEF Close, Interrupt, Ends
  <2>2. current = t
    BY <2>1 DEF ChatInv, TurnsInv, OneStreamIsRead
  <2>3. current' = NoTurn /\ chat' \in Chat /\ ~chat'.streaming
    BY <1>p, <2>1, <2>2 DEF Chat
  <2>4. /\ Unread(turn[t]) \in Stream /\ ~Unread(turn[t]).reading
        /\ Unread(turn[t]).phase \in {"sent", "running", "emitted"} => Unread(turn[t]).sess \in Session
    BY <1>p, Streams DEF TurnsInv
  <2>5. /\ turn' \in [Turn -> Stream]
        /\ \A u \in Turn : turn'[u] = IF u = t THEN Unread(turn[t]) ELSE turn[u]
    BY <1>p, <2>1, <2>4
  <2>6. \A u \in Turn : ~turn'[u].reading
    BY <2>2, <2>4, <2>5 DEF ChatInv, TurnsInv, OneStreamIsRead
  <2>7. TurnsInv'
    BY <1>p, <2>3, <2>4, <2>5, <2>6 DEF TurnsInv, OneStreamIsRead
  <2> QED
    BY <1>1, <2>7 DEF ChatInv
<1> QED
  BY <1>2, <1>3

LEMMA ChatStep == ChatInv /\ [ChatNext]_chatVars => ChatInv'
<1> SUFFICES ASSUME ChatInv, [ChatNext]_chatVars PROVE ChatInv'
  OBVIOUS
<1>1. CASE UNCHANGED chatVars
  BY <1>1, TurnsKept, RowsKept, MintKept DEF chatVars, ChatInv
<1>2. CASE Navigate \/ Deletes
  BY <1>2, NavigateStep, DeletesStep DEF Deletes
<1>3. CASE Loads
  BY <1>3, LoadsStep DEF Loads
<1>4. CASE Send \/ RunEffects
  BY <1>4, SendStep, EffectsStep
<1>5. CASE TurnServed
  BY <1>5, ServedStep DEF TurnServed
<1>6. CASE ChatReads
  BY <1>6, ReadsStep DEF ChatReads
<1> QED
  BY <1>1, <1>2, <1>3, <1>4, <1>5, <1>6 DEF ChatNext

\* However often the effects of a page run, and whatever is opened, sent and deleted
\* meanwhile, a navigation with a pickup opens one session at most (ChatPage.jsx, the
\* pickup effect and its seeded ref).
THEOREM OnePickupOneSession == ChatSpec => []PickupMintsOnce
<1>1. ChatInv => PickupMintsOnce
  <2> SUFFICES ASSUME ChatInv, NEW k \in Key PROVE Cardinality(minted[k]) <= 1
    BY DEF PickupMintsOnce
  <2>1. CASE minted[k] = {}
    <3>1. Cardinality(minted[k]) = 0
      BY <2>1, FS_EmptySet
    <3> QED
      BY <3>1
  <2>2. ASSUME NEW s \in Session, minted[k] = {s} PROVE Cardinality(minted[k]) <= 1
    <3>1. Cardinality(minted[k]) = 1
      BY <2>2, FS_Singleton
    <3> QED
      BY <3>1
  <2> QED
    BY <2>1, <2>2 DEF ChatInv, MintInv
<1> QED
  BY ChatStart, ChatStep, <1>1, PTL DEF ChatSpec

\* For any number of sessions, navigations and turns at a time, the only turn that is
\* read is the one whose controller the context holds (ChatContext.jsx, sendMessage and
\* its abort controller).
THEOREM StreamsDoNotMix == ChatSpec => []OneStreamIsRead
<1>1. ChatInv => OneStreamIsRead
  BY DEF ChatInv, TurnsInv
<1> QED
  BY ChatStart, ChatStep, <1>1, PTL DEF ChatSpec

\* The page, the context, the rows and the turns keep their types.
THEOREM ChatTypes == ChatSpec => []ChatTypeOK
<1>1. ChatInv => ChatTypeOK
  BY DEF ChatInv, TurnsInv, RowsInv, MintInv, ChatTypeOK
<1> QED
  BY ChatStart, ChatStep, <1>1, PTL DEF ChatSpec

-----------------------------------------------------------------------------
(**************************************************************************)
(* The position of a session. As long as nothing was left behind, a call  *)
(* that may still insert a position is the one the modal waits for, so    *)
(* that the buttons know of it; and a position no session knows of is in  *)
(* the hands of that call. That is the invariant.                         *)
(**************************************************************************)

\* The modal waits for one call at most, and its buttons know which kind
\* (PositionSetupModal.jsx, isLoading and isDraftLoading).
ModalInv ==
    /\ \A s \in Slot : Waiting(s) => setup.saving = saves[s].kind
    /\ \A s, r \in Slot : Waiting(s) /\ Waiting(r) => s = r

\* Nothing was left behind: what is on its way, and what is stored.
WatchedInv ==
    /\ held.count <= 1
    /\ held.linked => \A s \in Slot : saves[s].at \notin {"new", "inserted"}
    /\ ~held.linked =>
          /\ \A s \in Slot : saves[s].at = "none" \/ (Waiting(s) /\ saves[s].at \in {"sent", "new", "inserted"})
          /\ held.count # 0 => \E s \in Slot : saves[s].at = "inserted"

SetupInv == SetupTypeOK /\ ModalInv /\ (leftBehind \/ WatchedInv)

LEMMA SetupStart == SetupInit => SetupInv
<1> SUFFICES ASSUME SetupInit PROVE SetupInv
  OBVIOUS
<1>1. NoSave \in SaveCall
  BY DEF NoSave, SaveCall, SaveKind
<1>2. saves \in [Slot -> SaveCall] /\ \A s \in Slot : saves[s].at = "none"
  BY <1>1 DEF SetupInit, NoSave
<1>3. held.count = 0 /\ held.linked = FALSE /\ leftBehind = FALSE
  BY DEF SetupInit
<1>4. SetupTypeOK
  <2>1. held \in [count : 0 .. 2, linked : BOOLEAN, pending : BOOLEAN]
    BY DEF SetupInit
  <2>2. setup \in [on : BOOLEAN, show : BOOLEAN, saving : {"idle", "draft", "submit", "link"},
                  success : BOOLEAN, leaving : BOOLEAN]
    BY DEF SetupInit, NewSetup
  <2> QED
    BY <1>2, <1>3, <2>1, <2>2 DEF SetupTypeOK
<1>5. ModalInv
  BY <1>2 DEF ModalInv, Waiting
<1>6. WatchedInv
  BY <1>2, <1>3 DEF WatchedInv
<1> QED
  BY <1>4, <1>5, <1>6 DEF SetupInv

SetupPage == [on : BOOLEAN, show : BOOLEAN, saving : {"idle", "draft", "submit", "link"},
              success : BOOLEAN, leaving : BOOLEAN]
HeldSet == [count : 0 .. 2, linked : BOOLEAN, pending : BOOLEAN]

LEMMA NewSetupTyped ==
    ASSUME NEW on \in BOOLEAN, NEW leaving \in BOOLEAN PROVE NewSetup(on, leaving) \in SetupPage
BY DEF NewSetup, SetupPage

\* One call changes, the other slots stay.
LEMMA SlotSet ==
    ASSUME SetupTypeOK, NEW s \in Slot, NEW c \in SaveCall, saves' = [saves EXCEPT ![s] = c]
    PROVE  /\ saves' \in [Slot -> SaveCall] /\ saves'[s] = c
           /\ \A r \in Slot : r # s => saves'[r] = saves[r]
BY DEF SetupTypeOK

\* The steps that leave the calls alone, and what the modal waits for if it waits.
LEMMA PageStep ==
    ASSUME SetupInv, UNCHANGED <<held, saves, leftBehind>>, setup' \in SetupPage,
           setup'.saving = setup.saving \/ setup.saving = "link"
    PROVE  SetupInv'
<1>1. SetupTypeOK'
  BY DEF SetupInv, SetupTypeOK, SetupPage
<1>2. \A s \in Slot : Waiting(s)' = Waiting(s)
  BY DEF Waiting
<1>3. \A s \in Slot : saves[s].kind # "link"
  BY DEF SetupInv, SetupTypeOK, SaveCall, SaveKind
<1>4. ModalInv'
  BY <1>2, <1>3 DEF SetupInv, ModalInv
<1>5. WatchedInv => WatchedInv'
  BY <1>2 DEF WatchedInv
<1> QED
  BY <1>1, <1>4, <1>5 DEF SetupInv

\* The document goes: nothing is waited for, and nothing unlinked was, or it is left behind.
LEMMA LeaveStep ==
    ASSUME SetupInv, NEW by \in {"tab", "nobody"}, Orphaned(by), setup' \in SetupPage
    PROVE  SetupInv'
<1>1. /\ saves' = [s \in Slot |-> IF Waiting(s) \/ (by = "nobody" /\ saves[s].by = "tab")
                                  THEN [saves[s] EXCEPT !.by = by] ELSE saves[s]]
      /\ held' = held /\ leftBehind' = (leftBehind \/ \E s \in Slot : Waiting(s) /\ Unlinked(s))
  BY DEF Orphaned
<1>t. saves \in [Slot -> SaveCall] /\ leftBehind \in BOOLEAN
  BY DEF SetupInv, SetupTypeOK
<1>2. \A s \in Slot : saves'[s] \in SaveCall /\ saves'[s].at = saves[s].at
                      /\ (saves'[s].at # "none" => saves'[s].by # "modal")
  BY <1>1, <1>t DEF Waiting, SaveCall
<1>3. \A s \in Slot : ~Waiting(s)'
  BY <1>2 DEF Waiting
<1>4. SetupTypeOK'
  <2>1. saves' \in [Slot -> SaveCall]
    BY <1>1, <1>2
  <2> QED
    BY <1>1, <2>1 DEF SetupInv, SetupTypeOK, SetupPage
<1>5. ModalInv'
  BY <1>3 DEF ModalInv
<1>6. ASSUME ~leftBehind' PROVE WatchedInv'
  <2>1. WatchedInv /\ \A s \in Slot : ~(Waiting(s) /\ Unlinked(s))
    BY <1>1, <1>6 DEF SetupInv
  <2>2. CASE held.linked
    BY <1>1, <1>2, <2>1, <2>2 DEF WatchedInv
  <2>3. CASE ~held.linked
    <3>1. \A s \in Slot : saves[s].at = "none"
      BY <2>1, <2>3 DEF WatchedInv, Unlinked
    <3>2. held.count = 0
      BY <2>1, <2>3, <3>1 DEF WatchedInv
    <3> QED
      BY <1>1, <1>2, <2>3, <3>1, <3>2 DEF WatchedInv
  <2> QED
    BY <2>2, <2>3
<1> QED
  BY <1>4, <1>5, <1>6 DEF SetupInv

\* A call is on its way where none was.
LEMMA SaveStep ==
    ASSUME SetupInv, NEW s \in Slot, NEW k \in SaveKind, SavePosition(k, s)
    PROVE  SetupInv'
<1> DEFINE c == [kind |-> k, by |-> "modal", at |-> "sent"]
<1>1. /\ saves' = [saves EXCEPT ![s] = c] /\ saves[s].at = "none" /\ setup.saving = "idle"
      /\ setup' = [setup EXCEPT !.saving = k] /\ held' = held /\ leftBehind' = leftBehind
  BY DEF SavePosition, CanSave
<1>2. c \in SaveCall /\ c.at = "sent" /\ c.by = "modal" /\ c.kind = k
  BY DEF SaveCall
<1> HIDE DEF c
<1>3. /\ saves' \in [Slot -> SaveCall] /\ saves'[s] = c
      /\ \A r \in Slot : r # s => saves'[r] = saves[r]
  BY <1>1, <1>2, SlotSet DEF SetupInv
<1>4. setup' \in SetupPage /\ setup'.saving = k
  BY <1>1 DEF SetupInv, SetupTypeOK, SetupPage, SaveKind
<1>5. SetupTypeOK'
  BY <1>1, <1>3, <1>4 DEF SetupInv, SetupTypeOK, SetupPage
<1>6. \A r \in Slot : ~Waiting(r)
  BY <1>1 DEF SetupInv, ModalInv, SetupTypeOK, SaveCall, SaveKind
<1>7. \A r \in Slot : Waiting(r)' <=> r = s
  BY <1>2, <1>3, <1>6 DEF Waiting
<1>8. ModalInv'
  BY <1>2, <1>3, <1>4, <1>7 DEF ModalInv
<1>9. ASSUME WatchedInv PROVE WatchedInv'
  <2>1. CASE held.linked
    BY <1>1, <1>2, <1>3, <1>9, <2>1 DEF WatchedInv
  <2>2. CASE ~held.linked
    <3>1. \A r \in Slot : saves[r].at = "none"
      BY <1>6, <1>9, <2>2 DEF WatchedInv
    <3>2. held.count = 0
      BY <1>9, <2>2, <3>1 DEF WatchedInv
    <3> QED
      BY <1>1, <1>2, <1>3, <1>7, <2>2, <3>1, <3>2 DEF WatchedInv
  <2> QED
    BY <2>1, <2>2
<1> QED
  BY <1>1, <1>5, <1>8, <1>9 DEF SetupInv

\* The server goes on with a call; who waits for it does not change.
LEMMA CallServed ==
    ASSUME SetupInv, NEW s \in Slot,
           SaveReads(s) \/ SaveInserts(s) \/ SaveLinks(s) \/ SaveSubmits(s)
    PROVE  SetupInv'
<1>t. saves \in [Slot -> SaveCall] /\ held \in HeldSet
  BY DEF SetupInv, SetupTypeOK, HeldSet
<1>1. PICK a \in {"new", "found", "inserted", "linked", "done"} :
          saves' = [saves EXCEPT ![s] = [saves[s] EXCEPT !.at = a]]
  BY DEF SaveReads, SaveInserts, SaveLinks, SaveSubmits
<1> DEFINE c == [saves[s] EXCEPT !.at = a]
<1>2. c \in SaveCall /\ c.at = a /\ c.by = saves[s].by /\ c.kind = saves[s].kind
  BY <1>t DEF SaveCall
<1>3. saves' = [saves EXCEPT ![s] = c]
  BY <1>1
<1> HIDE DEF c
<1>4. /\ saves' \in [Slot -> SaveCall] /\ saves'[s] = c
      /\ \A r \in Slot : r # s => saves'[r] = saves[r]
  BY <1>2, <1>3, SlotSet DEF SetupInv
<1>5. setup' = setup /\ leftBehind' = leftBehind /\ saves[s].at # "none"
  BY DEF SaveReads, SaveInserts, SaveLinks, SaveSubmits
<1>6. held' \in HeldSet
  <2>1. CASE SaveReads(s) \/ SaveSubmits(s)
    BY <2>1, <1>t DEF SaveReads, SaveSubmits, HeldSet
  <2>2. CASE SaveInserts(s)
    BY <2>2, <1>t DEF SaveInserts, HeldSet
  <2>3. CASE SaveLinks(s)
    <3>1. (held.pending /\ saves[s].at = "found") \in BOOLEAN
      OBVIOUS
    <3> QED
      BY <2>3, <1>t, <3>1 DEF SaveLinks, HeldSet
  <2> QED
    BY <2>1, <2>2, <2>3
<1>7. SetupTypeOK'
  BY <1>4, <1>5, <1>6 DEF SetupInv, SetupTypeOK, HeldSet
<1>8. \A r \in Slot : Waiting(r)' = Waiting(r) /\ saves'[r].kind = saves[r].kind
  <2>1. Waiting(s)' = Waiting(s) /\ saves'[s].kind = saves[s].kind
    BY <1>2, <1>4, <1>5 DEF Waiting
  <2>2. \A r \in Slot : r # s => Waiting(r)' = Waiting(r) /\ saves'[r].kind = saves[r].kind
    BY <1>4 DEF Waiting
  <2> QED
    BY <2>1, <2>2
<1>9. ModalInv'
  BY <1>5, <1>8 DEF SetupInv, ModalInv
<1>10. ASSUME WatchedInv PROVE WatchedInv'
  <2>1. CASE SaveReads(s)
    <3>1. held' = held /\ saves[s].at = "sent" /\ saves'[s].at = IF held.linked THEN "found" ELSE "new"
      BY <2>1, <1>t DEF SaveReads, SaveCall
    <3>2. CASE held.linked
      BY <1>4, <1>10, <3>1, <3>2 DEF WatchedInv
    <3>3. CASE ~held.linked
      <4>1. \A r \in Slot : saves[r].at = "inserted" => saves'[r].at = "inserted"
        BY <1>4, <3>1
      <4>2. \A r \in Slot : saves'[r].at = "none" \/ (Waiting(r)' /\ saves'[r].at \in {"sent", "new", "inserted"})
        BY <1>4, <1>8, <1>10, <3>1, <3>3 DEF WatchedInv
      <4> QED
        BY <1>10, <3>1, <3>3, <4>1, <4>2 DEF WatchedInv
    <3> QED
      BY <3>2, <3>3
  <2>2. CASE SaveInserts(s)
    <3>1. /\ saves[s].at = "new" /\ saves'[s].at = "inserted" /\ ~held.linked /\ Waiting(s)
      BY <2>2, <1>t, <1>10 DEF SaveInserts, SaveCall, WatchedInv
    <3>2. held.count = 0
      <4> SUFFICES ASSUME held.count # 0 PROVE FALSE
        OBVIOUS
      <4>1. PICK r \in Slot : saves[r].at = "inserted"
        BY <1>10, <3>1 DEF WatchedInv
      <4>2. Waiting(r)
        BY <1>10, <3>1, <4>1 DEF WatchedInv
      <4>3. r = s
        BY <3>1, <4>2 DEF SetupInv, ModalInv
      <4> QED
        BY <3>1, <4>1, <4>3
    <3>3. held'.count = 1 /\ held'.linked = held.linked
      BY <2>2, <1>t, <3>2 DEF SaveInserts, HeldSet
    <3>4. \A r \in Slot : saves'[r].at = "none" \/ (Waiting(r)' /\ saves'[r].at \in {"sent", "new", "inserted"})
      BY <1>4, <1>8, <1>10, <3>1 DEF WatchedInv
    <3> QED
      BY <3>1, <3>3, <3>4 DEF WatchedInv
  <2>3. CASE SaveLinks(s)
    <3>1. /\ saves[s].at \in {"inserted", "found"} /\ saves'[s].at \in {"done", "linked"}
          /\ held'.count = held.count /\ held'.linked
      BY <2>3, <1>t DEF SaveLinks, SaveCall, HeldSet
    <3>2. \A r \in Slot : r # s => saves[r].at \notin {"new", "inserted"}
      <4>1. CASE held.linked
        BY <1>10, <4>1 DEF WatchedInv
      <4>2. CASE ~held.linked
        <5>1. Waiting(s)
          BY <1>5, <1>10, <4>2 DEF WatchedInv
        <5>2. \A r \in Slot : saves[r].at = "none" \/ Waiting(r)
          BY <1>10, <4>2 DEF WatchedInv
        <5> QED
          BY <5>1, <5>2 DEF SetupInv, ModalInv
      <4> QED
        BY <4>1, <4>2
    <3>3. \A r \in Slot : saves'[r].at \notin {"new", "inserted"}
      BY <1>4, <3>1, <3>2
    <3> QED
      BY <1>10, <3>1, <3>3 DEF WatchedInv
  <2>4. CASE SaveSubmits(s)
    <3>1. /\ saves[s].at = "linked" /\ saves'[s].at = "done"
          /\ held'.count = held.count /\ held'.linked = held.linked
      BY <2>4, <1>t DEF SaveSubmits, SaveCall, HeldSet
    <3>2. held.linked
      BY <1>10, <3>1 DEF WatchedInv
    <3>3. \A r \in Slot : saves'[r].at \notin {"new", "inserted"}
      BY <1>4, <1>10, <3>1, <3>2 DEF WatchedInv
    <3> QED
      BY <1>10, <3>1, <3>2, <3>3 DEF WatchedInv
  <2> QED
    BY <2>1, <2>2, <2>3, <2>4
<1> QED
  BY <1>5, <1>7, <1>9, <1>10 DEF SetupInv

\* A call ends: its answer is taken, or it fails.
LEMMA EndedStep ==
    ASSUME SetupInv, NEW s \in Slot, SaveAnswered(s) \/ SaveFails(s)
    PROVE  SetupInv'
<1>t. saves \in [Slot -> SaveCall] /\ setup \in SetupPage /\ leftBehind \in BOOLEAN
  BY DEF SetupInv, SetupTypeOK, SetupPage
<1>1. /\ saves' = [saves EXCEPT ![s] = NoSave] /\ held' = held /\ saves[s].at # "none"
      /\ leftBehind' = leftBehind \/ leftBehind' = (leftBehind \/ (saves[s].at = "inserted" /\ Unlinked(s)))
  BY DEF SaveAnswered, SaveFails
<1>2. NoSave \in SaveCall /\ NoSave.at = "none"
  BY DEF NoSave, SaveCall, SaveKind
<1>3. /\ saves' \in [Slot -> SaveCall] /\ saves'[s] = NoSave
      /\ \A r \in Slot : r # s => saves'[r] = saves[r]
  BY <1>1, <1>2, SlotSet DEF SetupInv
<1>4. setup' \in SetupPage
  BY <1>t DEF SaveAnswered, SaveFails, Freed, SetupPage
<1>5. SetupTypeOK'
  <2>1. leftBehind' \in BOOLEAN
    BY <1>1, <1>t
  <2> QED
    BY <1>1, <1>3, <1>4, <2>1 DEF SetupInv, SetupTypeOK, SetupPage
<1>6. ~Waiting(s)' /\ \A r \in Slot : r # s => Waiting(r)' = Waiting(r)
  BY <1>2, <1>3 DEF Waiting
<1>7. Waiting(s) \/ setup'.saving = setup.saving
  <2>1. saves[s].by \in {"modal", "tab", "nobody"}
    BY <1>t DEF SaveCall
  <2>2. CASE SaveAnswered(s)
    BY <2>1, <2>2, <1>1, <1>t DEF SaveAnswered, Waiting, SetupPage
  <2>3. CASE SaveFails(s)
    BY <2>3 DEF SaveFails, Freed
  <2> QED
    BY <2>2, <2>3
<1>8. ModalInv'
  <2>1. CASE Waiting(s)
    <3>1. \A r \in Slot : ~Waiting(r)'
      BY <1>6, <2>1 DEF SetupInv, ModalInv
    <3> QED
      BY <3>1 DEF ModalInv
  <2>2. CASE ~Waiting(s)
    BY <1>3, <1>6, <1>7, <2>2 DEF SetupInv, ModalInv
  <2> QED
    BY <2>1, <2>2
<1>9. ASSUME ~leftBehind' PROVE WatchedInv'
  <2>1. WatchedInv
    <3>1. ~leftBehind
      BY <1>1, <1>9, Zenon
    <3> QED
      BY <3>1 DEF SetupInv
  <2>2. CASE held.linked
    BY <1>1, <1>2, <1>3, <2>1, <2>2 DEF WatchedInv
  <2>3. CASE ~held.linked
    <3>1. saves[s].at \in {"sent", "new", "inserted"}
      BY <1>1, <2>1, <2>3 DEF WatchedInv
    <3>2. SaveFails(s)
      BY <3>1 DEF SaveAnswered
    <3>3. saves[s].at # "inserted"
      BY <1>9, <2>3, <3>2 DEF SaveFails, Unlinked
    <3>4. \A r \in Slot : saves[r].at = "inserted" => saves'[r].at = "inserted"
      BY <1>3, <3>3
    <3>5. \A r \in Slot : saves'[r].at = "none" \/ (Waiting(r)' /\ saves'[r].at \in {"sent", "new", "inserted"})
      BY <1>2, <1>3, <1>6, <2>1, <2>3 DEF WatchedInv
    <3> QED
      BY <1>1, <2>1, <2>3, <3>4, <3>5 DEF WatchedInv
  <2> QED
    BY <2>2, <2>3
<1> QED
  BY <1>5, <1>8, <1>9 DEF SetupInv

\* The answer is lost while the server goes on.
LEMMA LostStep ==
    ASSUME SetupInv, NEW s \in Slot, SaveLost(s)
    PROVE  SetupInv'
<1>t. saves \in [Slot -> SaveCall] /\ setup \in SetupPage /\ leftBehind \in BOOLEAN
  BY DEF SetupInv, SetupTypeOK, SetupPage
<1> DEFINE c == [saves[s] EXCEPT !.by = "nobody"]
<1>1. /\ saves' = [saves EXCEPT ![s] = c] /\ held' = held /\ saves[s].at # "none"
      /\ leftBehind' = (leftBehind \/ Unlinked(s)) /\ setup' = Freed(s)
  BY DEF SaveLost
<1>2. c \in SaveCall /\ c.at = saves[s].at /\ c.by = "nobody"
  BY <1>t DEF SaveCall
<1> HIDE DEF c
<1>3. /\ saves' \in [Slot -> SaveCall] /\ saves'[s] = c
      /\ \A r \in Slot : r # s => saves'[r] = saves[r]
  BY <1>1, <1>2, SlotSet DEF SetupInv
<1>4. setup' \in SetupPage
  BY <1>1, <1>t DEF Freed, SetupPage
<1>5. SetupTypeOK'
  <2>1. leftBehind' \in BOOLEAN
    BY <1>1, <1>t
  <2> QED
    BY <1>1, <1>3, <1>4, <2>1 DEF SetupInv, SetupTypeOK, SetupPage
<1>6. ~Waiting(s)' /\ \A r \in Slot : r # s => Waiting(r)' = Waiting(r)
  BY <1>2, <1>3 DEF Waiting
<1>7. ModalInv'
  <2>1. CASE Waiting(s)
    <3>1. \A r \in Slot : ~Waiting(r)'
      BY <1>6, <2>1 DEF SetupInv, ModalInv
    <3> QED
      BY <3>1 DEF ModalInv
  <2>2. CASE ~Waiting(s)
    BY <1>1, <1>3, <1>6, <2>2 DEF SetupInv, ModalInv, Freed
  <2> QED
    BY <2>1, <2>2
<1>8. ASSUME ~leftBehind' PROVE WatchedInv'
  <2>1. WatchedInv /\ ~Unlinked(s)
    BY <1>1, <1>8 DEF SetupInv
  <2>2. held.linked
    BY <1>1, <2>1 DEF WatchedInv, Unlinked
  <2> QED
    BY <1>1, <1>2, <1>3, <2>1, <2>2 DEF WatchedInv
<1> QED
  BY <1>5, <1>7, <1>8 DEF SetupInv

\* One case per action of SetupNext.
LEMMA SetupStep == SetupInv /\ [SetupNext]_setupVars => SetupInv'
<1> SUFFICES ASSUME SetupInv, [SetupNext]_setupVars PROVE SetupInv'
  OBVIOUS
<1>t. setup \in SetupPage
  BY DEF SetupInv, SetupTypeOK, SetupPage
<1>1. CASE UNCHANGED setupVars
  BY <1>1, <1>t, PageStep DEF setupVars
<1>2. CASE OpenSetup \/ CloseSetup \/ OpenDocument \/ LinkAnswered
  <2>1. setup' \in SetupPage /\ (setup'.saving = setup.saving \/ setup.saving = "link")
    BY <1>2, <1>t DEF OpenSetup, CloseSetup, OpenDocument, LinkAnswered, SetupPage
  <2>2. UNCHANGED <<held, saves, leftBehind>>
    BY <1>2 DEF OpenSetup, CloseSetup, OpenDocument, LinkAnswered
  <2> QED
    BY <2>1, <2>2, PageStep
<1>3. CASE LeaveDocument \/ TimerFires \/ CloseSetupTab
  <2>1. \E by \in {"tab", "nobody"} : Orphaned(by)
    BY <1>3 DEF LeaveDocument, TimerFires, CloseSetupTab
  <2>2. \E leaving \in BOOLEAN : setup' = NewSetup(FALSE, leaving)
    BY <1>3 DEF LeaveDocument, TimerFires, CloseSetupTab
  <2>3. setup' \in SetupPage
    BY <2>2, NewSetupTyped
  <2> QED
    BY <2>1, <2>3, LeaveStep
<1>4. CASE \E s \in Slot, k \in SaveKind : SavePosition(k, s)
  BY <1>4, SaveStep
<1>5. CASE \E s \in Slot : SaveReads(s) \/ SaveInserts(s) \/ SaveLinks(s) \/ SaveSubmits(s)
  BY <1>5, CallServed
<1>6. CASE \E s \in Slot : SaveAnswered(s) \/ SaveFails(s)
  BY <1>6, EndedStep
<1>7. CASE \E s \in Slot : SaveLost(s)
  BY <1>7, LostStep
<1> QED
  BY <1>1, <1>2, <1>3, <1>4, <1>5, <1>6, <1>7 DEF SetupNext, SavePage, SaveLeaves, SaveServer

\* However many calls are on their way, a session gets one position unless one of them
\* was left behind before it was linked (PositionSetupModal.jsx, _savePosition;
\* chat_service.py, finish_and_save_position).
THEOREM APositionPerSession == SetupSpec => []OnePositionPerSession
<1>1. SetupInv => OnePositionPerSession
  BY DEF SetupInv, WatchedInv, OnePositionPerSession
<1> QED
  BY SetupStart, SetupStep, <1>1, PTL DEF SetupSpec

\* The positions, the modal and its calls keep their types.
THEOREM SetupTypes == SetupSpec => []SetupTypeOK
<1>1. SetupInv => SetupTypeOK
  BY DEF SetupInv
<1> QED
  BY SetupStart, SetupStep, <1>1, PTL DEF SetupSpec

-----------------------------------------------------------------------------
(**************************************************************************)
(* The JD editor: every text, check, draft and turn keeps its type.        *)
(**************************************************************************)

EditorShown == [on : BOOLEAN, final : Text, edited : Text, prev : Text, editing : BOOLEAN,
                busy : BOOLEAN, done : BOOLEAN, fixes : 0 .. MaxFix, open : 0 .. MaxFix,
                unsaved : BOOLEAN, stage : DraftStage, readOnly : BOOLEAN]
RowKept == [final : Text, issues : Issues, stage : DraftStage, locked : BOOLEAN]
DraftKept == [text : Text, bias : BOOLEAN, by : {"button", "effect", "nobody"},
              ok : {"sent", "yes", "no"}]
StreamRead == [kind : {"none", "check", "rewrite", "finalize"}, at : {"sent", "shown", "over"},
               text : Text, n : 0 .. MaxFix]

\* The types of the editor's state, draft by draft.
EditorKept ==
    /\ row \in RowKept /\ editor \in EditorShown /\ stream \in StreamRead
    /\ orphan \in Text /\ made \in Text /\ modal \in BOOLEAN
    /\ \A d \in drafts : d \in DraftKept

LEMMA EditorKeptInit == EditorInit => EditorKept
<1> SUFFICES ASSUME EditorInit PROVE EditorKept
  OBVIOUS
<1>1. 0 \in Text /\ 1 \in Text /\ 0 \in 0 .. MaxFix
  BY EditorAssumption DEF Text
<1>2. row \in RowKept /\ stream \in StreamRead
  BY <1>1 DEF EditorInit, RowKept, StreamRead, NoStream, Issues, DraftStage
<1>3. editor \in EditorShown
  BY <1>1 DEF EditorInit, EditorShown, DraftStage
<1> QED
  BY <1>1, <1>2, <1>3 DEF EditorInit, EditorKept

\* The effects after a commit keep the shape of what is shown.
LEMMA CommitKeeps ==
    ASSUME editor \in EditorShown, NEW new \in EditorShown
    PROVE  Committed(new) \in EditorShown
<1> DEFINE shown == FollowLive(editor, new)
<1>1. shown \in EditorShown
  BY DEF FollowLive, EditorShown
<1>2. Committed(new) = ResetCheck(editor, shown)
  BY DEF Committed
<1>3. 0 \in 0 .. MaxFix
  BY EditorAssumption
<1> HIDE DEF shown
<1>4. CASE shown.final = editor.final
  BY <1>1, <1>2, <1>4 DEF ResetCheck
<1>5. CASE shown.final # editor.final
  <2> DEFINE done == shown.done /\ ~(shown.final # 0 /\ shown.prev # 0)
             fixes == IF shown.final # 0 /\ shown.prev # 0 THEN 0 ELSE shown.fixes
             open == IF shown.final # 0 /\ shown.prev # 0 THEN 0 ELSE shown.open
  <2>1. Committed(new) = [shown EXCEPT !.prev = shown.final, !.done = done, !.fixes = fixes, !.open = open]
    BY <1>2, <1>5 DEF ResetCheck
  <2>2. /\ fixes \in 0 .. MaxFix /\ open \in 0 .. MaxFix /\ done \in BOOLEAN /\ shown.final \in Text
    BY <1>1, <1>3 DEF EditorShown
  <2> HIDE DEF done, fixes, open
  <2> QED
    BY <1>1, <2>1, <2>2 DEF EditorShown
<1> QED
  BY <1>4, <1>5

\* A turn starts, and the one that was read becomes an orphan.
LEMMA TurnKeeps ==
    ASSUME stream \in StreamRead, orphan \in Text, NEW t \in Text,
           NEW k \in {"check", "rewrite", "finalize"}, Turns(k, t)
    PROVE  stream' \in StreamRead /\ orphan' \in Text
<1>1. 0 \in 0 .. MaxFix
  BY EditorAssumption
<1> QED
  BY <1>1 DEF Turns, StreamRead

\* A resolved suggestion.
LEMMA ResolveKeeps ==
    ASSUME NEW new \in EditorShown, Resolve(new), \A d \in drafts : d \in DraftKept
    PROVE  editor' \in EditorShown /\ \A d \in drafts' : d \in DraftKept
<1>1. CASE new.open = 0
  <2>1. [new EXCEPT !.done = TRUE, !.busy = FALSE] \in EditorShown /\ Sent(new.edited, TRUE, "effect") \in DraftKept
    BY DEF EditorShown, Sent, DraftKept
  <2> QED
    BY <1>1, <2>1 DEF Resolve
<1>2. CASE new.open # 0
  BY <1>2 DEF Resolve
<1> QED
  BY <1>1, <1>2

\* The document goes, and what was asked stays.
LEMMA GoneKeeps ==
    ASSUME Unmounts, \A d \in drafts : d \in DraftKept
    PROVE  /\ editor' \in EditorShown /\ modal' \in BOOLEAN
           /\ \A d \in drafts' : d \in DraftKept
<1>1. 0 \in Text /\ 0 \in 0 .. MaxFix
  BY EditorAssumption DEF Text
<1>2. Gone \in EditorShown
  BY <1>1 DEF Gone, EditorShown, DraftStage
<1>3. \A d \in DraftKept : [d EXCEPT !.by = "nobody"] \in DraftKept
  BY DEF DraftKept
<1> QED
  BY <1>2, <1>3 DEF Unmounts

\* One step per action of EditorNext.
LEMMA EditorKeptStep == EditorKept /\ [EditorNext]_editorVars => EditorKept'
<1> SUFFICES ASSUME EditorKept, [EditorNext]_editorVars PROVE EditorKept'
  OBVIOUS
<1> DEFINE Known(calls) == \A d \in calls : d \in DraftKept
<1>k. /\ row \in RowKept /\ editor \in EditorShown /\ stream \in StreamRead
      /\ orphan \in Text /\ made \in Text /\ modal \in BOOLEAN /\ Known(drafts)
  BY DEF EditorKept
<1>z. 0 \in Text /\ 0 \in 0 .. MaxFix
  BY EditorAssumption DEF Text
<1>0. ASSUME row' \in RowKept, editor' \in EditorShown, stream' \in StreamRead,
             orphan' \in Text, made' \in Text, modal' \in BOOLEAN, Known(drafts')
      PROVE  EditorKept'
  BY <1>0 DEF EditorKept
<1>n. NoStream \in StreamRead
  BY <1>z DEF NoStream, StreamRead
<1>s. ASSUME NEW t \in Text, NEW b \in BOOLEAN, NEW u \in {"button", "effect"}, drafts' = drafts \cup {Sent(t, b, u)}
      PROVE  Known(drafts')
  BY <1>s, <1>k DEF Sent, DraftKept
<1> HIDE DEF Known
<1>1. CASE UNCHANGED editorVars
  BY <1>1, <1>0, <1>k DEF editorVars
<1>2. CASE AcceptFix \/ RejectFix \/ AcceptAll
  <2>1. made' \in Text /\ UNCHANGED <<row, stream, orphan, modal>>
    BY <1>2, <1>k, EditorAssumption DEF AcceptFix, RejectFix, AcceptAll, Text
  <2> DEFINE Resolved(t, n) == Resolve([editor EXCEPT !.edited = t, !.open = n, !.unsaved = TRUE])
  <2>2. \E t \in Text, n \in 0 .. MaxFix : Resolved(t, n)
    <3>1. editor.edited \in Text /\ (editor.open > 0 => editor.open - 1 \in 0 .. MaxFix)
      <4>1. editor.edited \in Text /\ editor.open \in 0 .. MaxFix
        BY <1>k DEF EditorShown
      <4> QED
        BY <4>1, EditorAssumption
    <3>2. CASE AcceptFix
      <4>1. Resolved(made + 1, editor.open - 1)
        BY <3>2 DEF AcceptFix
      <4>2. made + 1 \in Text /\ editor.open - 1 \in 0 .. MaxFix
        BY <3>1, <3>2, <2>1 DEF AcceptFix, Widgets
      <4> HIDE DEF Resolved
      <4> QED
        BY <4>1, <4>2
    <3>3. CASE RejectFix
      <4>1. Resolve([editor EXCEPT !.open = editor.open - 1, !.unsaved = TRUE])
        BY <3>3 DEF RejectFix
      <4>2. editor.open - 1 \in 0 .. MaxFix
        BY <3>1, <3>3 DEF RejectFix, Widgets
      <4>3. [editor EXCEPT !.open = editor.open - 1, !.unsaved = TRUE]
             = [editor EXCEPT !.edited = editor.edited, !.open = editor.open - 1, !.unsaved = TRUE]
        BY <1>k DEF EditorShown
      <4>4. Resolved(editor.edited, editor.open - 1)
        BY <4>1, <4>3
      <4> HIDE DEF Resolved
      <4> QED
        BY <3>1, <4>2, <4>4
    <3>4. CASE AcceptAll
      <4>1. Resolved(made + 1, 0) /\ made + 1 \in Text
        BY <3>4, <2>1 DEF AcceptAll
      <4> HIDE DEF Resolved
      <4> QED
        BY <4>1, <1>z
    <3> HIDE DEF Resolved
    <3> QED
      BY <1>2, <3>2, <3>3, <3>4
  <2>3. PICK t \in Text, n \in 0 .. MaxFix : Resolved(t, n)
    <3> HIDE DEF Resolved
    <3> QED
      BY <2>2
  <2>4. [editor EXCEPT !.edited = t, !.open = n, !.unsaved = TRUE] \in EditorShown
    BY <1>k DEF EditorShown
  <2>5. editor' \in EditorShown /\ Known(drafts')
    BY <1>k, <2>3, <2>4, ResolveKeeps DEF Known
  <2> QED
    BY <1>0, <1>k, <2>1, <2>5
<1>3. CASE SaveDraft
  <2>1. editor.edited \in Text
    BY <1>k DEF EditorShown
  <2> QED
    BY <1>3, <1>0, <1>k, <1>s, <2>1 DEF SaveDraft
<1>4. CASE StartEdit \/ CancelEdit
  <2>1. PICK e \in BOOLEAN : Commits([editor EXCEPT !.editing = e])
    BY <1>4 DEF StartEdit, CancelEdit
  <2>2. [editor EXCEPT !.editing = e] \in EditorShown
    BY <1>k DEF EditorShown
  <2>3. editor' \in EditorShown
    BY <1>k, <2>1, <2>2, CommitKeeps DEF Commits
  <2> QED
    BY <1>4, <1>0, <1>k, <2>3 DEF StartEdit, CancelEdit
<1>5. CASE SaveEdit
  <2> DEFINE new == [editor EXCEPT !.edited = made + 1, !.final = made + 1, !.editing = FALSE,
                                   !.done = FALSE, !.fixes = 0, !.open = 0]
  <2>1. made + 1 \in Text
    BY <1>5, <1>k, EditorAssumption DEF SaveEdit, Text
  <2>2. new \in EditorShown /\ Commits(new)
    BY <1>5, <1>k, <1>z, <2>1 DEF SaveEdit, EditorShown
  <2> HIDE DEF new
  <2>3. editor' \in EditorShown
    BY <1>k, <2>2, CommitKeeps DEF Commits
  <2>4. Known(drafts')
    BY <1>5, <1>s, <2>1 DEF SaveEdit
  <2> QED
    BY <1>5, <1>0, <1>k, <2>1, <2>3, <2>4 DEF SaveEdit
<1>6. ASSUME NEW d \in drafts, DraftServed(d) PROVE EditorKept'
  <2>1. d \in DraftKept
    BY <1>k DEF Known
  <2>2. row' \in RowKept
    BY <1>6, <1>k, <2>1 DEF DraftServed, RowKept, DraftKept, Issues, DraftStage
  <2>3. Known(drafts')
    <3>1. [d EXCEPT !.ok = IF row.locked THEN "no" ELSE "yes"] \in DraftKept
      BY <2>1 DEF DraftKept
    <3> QED
      BY <1>6, <1>k, <3>1 DEF DraftServed, Known
  <2> QED
    BY <1>6, <1>0, <1>k, <2>2, <2>3 DEF DraftServed
<1>7. ASSUME NEW d \in drafts, DraftAnswered(d) \/ DraftLost(d) PROVE EditorKept'
  <2>1. editor' \in EditorShown
    BY <1>7, <1>k DEF DraftAnswered, DraftLost, EditorShown
  <2>2. Known(drafts')
    BY <1>7, <1>k DEF DraftAnswered, DraftLost, Known
  <2> QED
    BY <1>7, <1>0, <1>k, <2>1, <2>2 DEF DraftAnswered, DraftLost
<1>8. CASE CheckBias
  <2>1. editor.edited \in Text /\ [editor EXCEPT !.busy = TRUE] \in EditorShown
    BY <1>k DEF EditorShown
  <2>2. stream' \in StreamRead /\ orphan' \in Text
    BY <1>8, <1>k, <2>1, TurnKeeps DEF CheckBias
  <2> QED
    BY <1>8, <1>0, <1>k, <2>1, <2>2 DEF CheckBias
<1>9. CASE Rewrite
  <2>1. made + 1 \in Text
    BY <1>9, <1>k, EditorAssumption DEF Rewrite, Text
  <2>2. stream' \in StreamRead /\ orphan' \in Text
    BY <1>9, <1>k, <2>1, TurnKeeps DEF Rewrite
  <2>3. [editor EXCEPT !.final = 0] \in EditorShown
    BY <1>k, <1>z DEF EditorShown
  <2>4. editor' \in EditorShown
    BY <1>9, <1>k, <2>3, CommitKeeps DEF Rewrite, Commits
  <2> QED
    BY <1>9, <1>0, <1>k, <2>1, <2>2, <2>4 DEF Rewrite
<1>10. CASE StreamBreaks
  <2>1. stream' \in StreamRead /\ orphan' \in Text
    BY <1>10, <1>k, <1>n DEF StreamBreaks, StreamRead
  <2>2. editor' \in EditorShown /\ modal' \in BOOLEAN /\ Known(drafts')
    BY <1>10, <1>k, GoneKeeps DEF StreamBreaks, Known
  <2> QED
    BY <1>10, <1>0, <1>k, <2>1, <2>2 DEF StreamBreaks
<1>11. ASSUME NEW n \in 0 .. MaxFix, BiasCard(n) PROVE EditorKept'
  <2>1. stream' \in StreamRead
    BY <1>11, <1>k DEF BiasCard, StreamRead
  <2>2. [editor EXCEPT !.fixes = n, !.open = n, !.busy = FALSE, !.done = n = 0,
                       !.stage = "bias_check"] \in EditorShown
    BY <1>k DEF EditorShown, DraftStage
  <2>3. editor' \in EditorShown
    BY <1>11, <1>k, <2>2 DEF BiasCard, Shows
  <2> QED
    BY <1>11, <1>0, <1>k, <2>1, <2>3 DEF BiasCard
<1>12. CASE Rewritten
  <2>1. stream' \in StreamRead
    BY <1>12, <1>k DEF Rewritten, StreamRead
  <2> DEFINE new == [editor EXCEPT !.final = stream.text, !.stage = "final_jd"]
  <2>2. new \in EditorShown /\ Shows(Committed(new))
    BY <1>12, <1>k DEF Rewritten, EditorShown, StreamRead, DraftStage
  <2> HIDE DEF new
  <2>3. editor' \in EditorShown
    BY <1>k, <2>2, CommitKeeps DEF Shows
  <2> QED
    BY <1>12, <1>0, <1>k, <2>1, <2>3 DEF Rewritten
<1>13. CASE TurnPersists
  <2>1. row' \in RowKept
    BY <1>13, <1>k DEF TurnPersists, RowKept, StreamRead, DraftStage, Issues
  <2>2. stream' \in StreamRead
    BY <1>13, <1>k DEF TurnPersists, StreamRead
  <2> QED
    BY <1>13, <1>0, <1>k, <2>1, <2>2 DEF TurnPersists
<1>14. CASE Finalized \/ TurnEnds
  <2>1. row' \in RowKept
    BY <1>14, <1>k DEF Finalized, TurnEnds, RowKept, DraftStage, Issues
  <2>2. stream' \in StreamRead
    BY <1>14, <1>k, <1>n DEF Finalized, TurnEnds, StreamRead
  <2>3. /\ [editor EXCEPT !.stage = "complete"] \in EditorShown
        /\ [editor EXCEPT !.readOnly = row.locked] \in EditorShown
    BY <1>k DEF EditorShown, RowKept, DraftStage
  <2>4. editor' \in EditorShown
    BY <1>14, <1>k, <2>3 DEF Finalized, TurnEnds, Shows
  <2> QED
    BY <1>14, <1>0, <1>k, <2>1, <2>2, <2>4 DEF Finalized, TurnEnds
<1>15. CASE OrphanEnds
  <2>1. row' \in RowKept
    BY <1>15, <1>k DEF OrphanEnds, RowKept
  <2> QED
    BY <1>15, <1>0, <1>k, <1>z, <2>1 DEF OrphanEnds
<1>16. CASE OpenModal \/ CloseModal
  BY <1>16, <1>0, <1>k DEF OpenModal, CloseModal
<1>17. CASE PositionMoves
  <2>1. row' \in RowKept
    BY <1>17, <1>k DEF PositionMoves, RowKept
  <2> QED
    BY <1>17, <1>0, <1>k, <2>1 DEF PositionMoves
<1>18. CASE SubmissionTaken
  <2>1. stream' \in StreamRead /\ orphan' \in Text
    BY <1>18, <1>k, <1>z, TurnKeeps DEF SubmissionTaken
  <2> QED
    BY <1>18, <1>0, <1>k, <2>1 DEF SubmissionTaken
<1>19. CASE LeaveChat \/ CloseTab
  <2>1. editor' \in EditorShown /\ modal' \in BOOLEAN /\ Known(drafts')
    BY <1>19, <1>k, GoneKeeps DEF LeaveChat, CloseTab, Known
  <2>2. stream' \in StreamRead /\ orphan' \in Text
    BY <1>19, <1>k, <1>n DEF LeaveChat, CloseTab, StreamRead
  <2> QED
    BY <1>19, <1>0, <1>k, <2>1, <2>2 DEF LeaveChat, CloseTab
<1>20. ASSUME NEW n \in 0 .. MaxFix, LoadSession(n) PROVE EditorKept'
  <2>1. editor' \in EditorShown
    BY <1>20, <1>k, <1>z DEF LoadSession, Loaded, EditorShown, RowKept
  <2> QED
    BY <1>20, <1>0, <1>k, <2>1 DEF LoadSession
<1> QED
  BY <1>1, <1>2, <1>3, <1>4, <1>5, <1>6, <1>7, <1>8, <1>9, <1>10, <1>11, <1>12, <1>13, <1>14,
     <1>15, <1>16, <1>17, <1>18, <1>19, <1>20
     DEF EditorNext, Document, Drafts, Turning, Leaving

LEMMA EditorTyped == EditorKept => EditorTypeOK
<1> SUFFICES ASSUME EditorKept PROVE EditorTypeOK
  OBVIOUS
<1>1. orphan \in {0} \cup (1 .. MaxText)
  BY DEF EditorKept, Text
<1> QED
  BY <1>1 DEF EditorKept, EditorTypeOK, RowKept, EditorShown, StreamRead, DraftKept

\* The session's row, the document and its check, the turns, the drafts and the modal
\* keep their types.
THEOREM EditorTypes == EditorSpec => []EditorTypeOK
BY EditorKeptInit, EditorKeptStep, EditorTyped, PTL DEF EditorSpec

-----------------------------------------------------------------------------
(**************************************************************************)
(* The list of hire requests. What is listed is what the filter asks for,  *)
(* whichever of two answers comes last: a call made for an earlier filter  *)
(* has lost its hearer.                                                    *)
(**************************************************************************)

DeskPage == [at : {"away", "list", "detail", "form", "chat"},
             view : DeskStatus \cup {"none", "loading"}, busy : BOOLEAN,
             panel : {"none", "approve", "reject", "cancel", "invalid"}]
DeskCalled == [op : DeskOp \cup {"none"}, at : {"sent", "ok", "refused"}, heard : BOOLEAN]
Shelf == [filter : ListFilter \cup {"none"}, shows : ListFilter \cup {"none"},
          is : {"idle", "loading", "failed"}]

\* A list call whose answer will be used asks for the filter its tab has now.
ShelfInv ==
    /\ DeskTypeOK
    /\ ListShowsFilter
    /\ \A c \in listCalls : c.filter = shelf[c.tab].filter

\* No tab is on the list page at first.
LEMMA ShelfInit == DeskInit => ShelfInv
BY DeskAssumption
   DEF DeskInit, ShelfInv, DeskTypeOK, ListShowsFilter, AtNoPage, NoDeskCall, NoShelf, DeskStatus

\* A page that is left or opened anew: its list is gone, and so is the list's call.
LEMMA ShelfLeft ==
    ASSUME ShelfInv, NEW b \in Tab,
           shelf' = [shelf EXCEPT ![b] = NoShelf], listCalls' = Silenced(b)
    PROVE  /\ shelf' \in [Tab -> Shelf] /\ listCalls' \subseteq [tab : Tab, filter : ListFilter]
           /\ ListShowsFilter' /\ \A c \in listCalls' : c.filter = shelf'[c.tab].filter
<1>1. NoShelf \in Shelf /\ shelf \in [Tab -> Shelf]
  BY DEF NoShelf, Shelf, ShelfInv, DeskTypeOK
<1>2. \A d \in Tab : shelf'[d] = IF d = b THEN NoShelf ELSE shelf[d]
  BY <1>1
<1>3. listCalls \subseteq [tab : Tab, filter : ListFilter] /\ listCalls' = {f \in listCalls : f.tab # b}
  BY DEF ShelfInv, DeskTypeOK, Silenced
<1>4. \A c \in listCalls' : c \in listCalls /\ c.tab \in Tab \ {b}
  BY <1>3
<1>5. shelf' \in [Tab -> Shelf]
  BY <1>1
<1>6. ListShowsFilter'
  BY <1>2 DEF ListShowsFilter, NoShelf, ShelfInv
<1> QED
  BY <1>2, <1>3, <1>4, <1>5, <1>6 DEF ShelfInv

\* The pages' part of the types, when one page changes.
LEMMA PageSet ==
    ASSUME DeskTypeOK, NEW b \in Tab, NEW p \in DeskPage, desk' = [desk EXCEPT ![b] = p]
    PROVE  desk' \in [Tab -> DeskPage]
BY DEF DeskTypeOK, DeskPage

\* A step that leaves the lists alone.
LEMMA ShelfKept ==
    ASSUME ShelfInv, UNCHANGED <<shelf, listCalls>>,
           hreq' \in [status : DeskStatus, by : Tab \cup {NoTab}],
           desk' \in [Tab -> DeskPage], deskCall' \in [Tab -> DeskCalled]
    PROVE  ShelfInv'
BY DEF ShelfInv, DeskTypeOK, ListShowsFilter, DeskPage, DeskCalled

\* What the types say of one tab.
LEMMA PageFields ==
    ASSUME ShelfInv, NEW b \in Tab
    PROVE  desk[b] \in DeskPage /\ deskCall[b] \in DeskCalled /\ hreq \in [status : DeskStatus, by : Tab \cup {NoTab}]
BY DEF ShelfInv, DeskTypeOK, DeskPage, DeskCalled

\* One step per group of actions of DeskNext.
LEMMA ShelfStep == ShelfInv /\ [DeskNext]_deskVars => ShelfInv'
<1> SUFFICES ASSUME ShelfInv, [DeskNext]_deskVars PROVE ShelfInv'
  OBVIOUS
<1>t. /\ hreq \in [status : DeskStatus, by : Tab \cup {NoTab}] /\ desk \in [Tab -> DeskPage]
      /\ deskCall \in [Tab -> DeskCalled] /\ shelf \in [Tab -> Shelf]
      /\ listCalls \subseteq [tab : Tab, filter : ListFilter]
  BY DEF ShelfInv, DeskTypeOK, DeskPage, DeskCalled, Shelf
<1>1. CASE UNCHANGED deskVars
  BY <1>1, <1>t, ShelfKept DEF deskVars
<1>2. ASSUME NEW b \in Tab, OpenDetail(b) \/ LeaveDesk(b) \/ ResumeChat(b) \/ OpenHireForm(b)
      PROVE ShelfInv'
  <2>1. PICK p \in DeskPage : Opens(b, p)
    BY <1>2 DEF OpenDetail, LeaveDesk, ResumeChat, OpenHireForm, LoadingPage, AtNoPage, DeskPage
  <2>2. [deskCall[b] EXCEPT !.heard = deskCall[b].op = "none"] \in DeskCalled
    BY <1>t DEF DeskCalled
  <2>3. desk' \in [Tab -> DeskPage] /\ deskCall' \in [Tab -> DeskCalled]
    BY <1>t, <2>1, <2>2 DEF Opens
  <2> QED
    BY <1>t, <2>1, <2>3, ShelfLeft DEF Opens, ShelfInv, DeskTypeOK, DeskPage, DeskCalled, Shelf
<1>3. ASSUME NEW b \in Tab,
             DetailArrives(b) \/ DetailFails(b) \/ ClosePanel(b)
             \/ FormArrives(b) \/ FillForm(b) \/ \E p \in {"approve", "reject", "cancel"} : OpenDeskPanel(b, p)
      PROVE ShelfInv'
  <2>1. UNCHANGED <<hreq, deskCall, shelf, listCalls>>
    BY <1>3 DEF DetailArrives, DetailFails, ClosePanel, FormArrives, FillForm, OpenDeskPanel
  <2>2. desk[b] \in DeskPage /\ hreq.status \in DeskStatus
    BY <1>t
  <2>4. CASE DetailArrives(b) \/ DetailFails(b) \/ FormArrives(b)
    <3>1. PICK v \in DeskStatus \cup {"none"} : desk' = [desk EXCEPT ![b] = [desk[b] EXCEPT !.view = v]]
      BY <2>2, <2>4 DEF DetailArrives, DetailFails, FormArrives
    <3>2. [desk[b] EXCEPT !.view = v] \in DeskPage
      BY <2>2 DEF DeskPage
    <3> QED
      BY <1>t, <2>1, <3>1, <3>2, ShelfKept
  <2>5. CASE ClosePanel(b) \/ FillForm(b) \/ \E p \in {"approve", "reject", "cancel"} : OpenDeskPanel(b, p)
    <3>1. PICK p \in {"none", "approve", "reject", "cancel", "invalid"} :
              desk' = [desk EXCEPT ![b] = [desk[b] EXCEPT !.panel = p]]
      BY <2>5 DEF ClosePanel, FillForm, OpenDeskPanel
    <3>2. [desk[b] EXCEPT !.panel = p] \in DeskPage
      BY <2>2 DEF DeskPage
    <3> QED
      BY <1>t, <2>1, <3>1, <3>2, ShelfKept
  <2> QED
    BY <1>3, <2>4, <2>5
<1>4. ASSUME NEW b \in Tab, ConfirmPanel(b) \/ DeskPickup(b) \/ SubmitForm(b) PROVE ShelfInv'
  <2>1. PICK op \in DeskOp : DeskSends(b, op)
    BY <1>4 DEF ConfirmPanel, DeskPickup, SubmitForm, DeskOp
  <2>2. [NoDeskCall EXCEPT !.op = op] \in DeskCalled
    BY DEF NoDeskCall, DeskCalled
  <2>3. [desk[b] EXCEPT !.busy = TRUE] \in DeskPage
    BY <1>t DEF DeskPage
  <2>4. deskCall' \in [Tab -> DeskCalled] /\ desk' \in [Tab -> DeskPage]
    BY <1>t, <2>1, <2>2, <2>3 DEF DeskSends
  <2> QED
    BY <1>t, <2>1, <2>4, ShelfKept DEF DeskSends
<1>5. ASSUME NEW b \in Tab, ServeDesk(b) PROVE ShelfInv'
  <2>1. deskCall[b].op \in DeskOp
    BY <1>5, <1>t DEF ServeDesk, DeskCalled
  <2>2. DeskBecomes(b, deskCall[b].op) \in [status : DeskStatus, by : Tab \cup {NoTab}]
    BY <2>1, <1>t DEF DeskBecomes, DeskOp, DeskStatus
  <2>3. hreq' \in [status : DeskStatus, by : Tab \cup {NoTab}]
    BY <1>5, <1>t, <2>2 DEF ServeDesk
  <2>4. PICK a \in {"ok", "refused"} : deskCall' = [deskCall EXCEPT ![b] = [deskCall[b] EXCEPT !.at = a]]
    BY <1>5 DEF ServeDesk
  <2>5. [deskCall[b] EXCEPT !.at = a] \in DeskCalled
    BY <1>t DEF DeskCalled
  <2>6. deskCall' \in [Tab -> DeskCalled]
    BY <1>t, <2>4, <2>5
  <2> QED
    BY <1>5, <1>t, <2>3, <2>6, ShelfKept DEF ServeDesk
<1>6. ASSUME NEW b \in Tab, DeskAnswered(b) \/ DeskRefused(b) PROVE ShelfInv'
  <2>1. deskCall[b].op \in DeskOp /\ desk[b] \in DeskPage /\ NoDeskCall \in DeskCalled
    BY <1>6, <1>t DEF DeskAnswered, DeskRefused, DeskCalled, NoDeskCall
  <2>2. deskCall' \in [Tab -> DeskCalled] /\ UNCHANGED <<hreq, shelf, listCalls>>
    BY <1>6, <1>t, <2>1 DEF DeskAnswered, DeskRefused
  <2>3. CASE DeskAnswered(b)
    <3>1. DeskTaken(b) \in DeskPage
      BY <2>1 DEF DeskTaken, DeskPage, DeskStatus
    <3>2. desk' \in [Tab -> DeskPage]
      BY <2>3, <1>t, <3>1 DEF DeskAnswered
    <3> QED
      BY <1>t, <2>2, <3>2, ShelfKept
  <2>4. CASE DeskRefused(b)
    <3>1. CASE ~deskCall[b].heard
      BY <2>4, <1>t, <2>2, <3>1, ShelfKept DEF DeskRefused
    <3>2. CASE deskCall[b].heard
      <4> DEFINE p == IF desk[b].panel = "cancel" THEN "none" ELSE desk[b].panel
      <4>1. p \in {"none", "approve", "reject", "cancel", "invalid"}
        BY <2>1 DEF DeskPage
      <4>2. desk' = [desk EXCEPT ![b].busy = FALSE, ![b].panel = p]
        BY <2>4, <1>t, <3>2 DEF DeskRefused, DeskPage
      <4>3. [desk[b] EXCEPT !.busy = FALSE, !.panel = p] \in DeskPage
        BY <2>1, <4>1 DEF DeskPage
      <4>4. desk' \in [Tab -> DeskPage]
        BY <1>t, <4>2, <4>3
      <4> QED
        BY <1>t, <2>2, <4>4, ShelfKept
    <3> QED
      BY <3>1, <3>2
  <2> QED
    BY <1>6, <2>3, <2>4
<1>10. ASSUME NEW b \in Tab, DeskGoes(b) PROVE ShelfInv'
  <2>1. NoDeskCall \in DeskCalled
    BY DEF DeskCalled, NoDeskCall
  <2>2. PICK p \in DeskPage : desk' = [desk EXCEPT ![b] = p]
    <3>1. [AtNoPage EXCEPT !.at = "chat"] \in DeskPage /\ LoadingPage("detail") \in DeskPage
      BY DEF LoadingPage, AtNoPage, DeskPage
    <3> QED
      BY <1>10, <3>1 DEF DeskGoes
  <2>3. desk' \in [Tab -> DeskPage] /\ deskCall' \in [Tab -> DeskCalled]
    BY <1>10, <1>t, <2>1, <2>2 DEF DeskGoes
  <2>4. shelf' = [shelf EXCEPT ![b] = NoShelf] /\ listCalls' = Silenced(b) /\ hreq' = hreq
    BY <1>10 DEF DeskGoes
  <2> QED
    BY <1>t, <2>3, <2>4, ShelfLeft DEF ShelfInv, DeskTypeOK, DeskPage, DeskCalled, Shelf
<1>7. CASE HappensElsewhere
  <2>1. hreq' \in [status : DeskStatus, by : Tab \cup {NoTab}]
    BY <1>7, <1>t DEF HappensElsewhere, DeskStatus
  <2> QED
    BY <1>7, <1>t, <2>1, ShelfKept DEF HappensElsewhere
<1>8. ASSUME NEW b \in Tab, NEW f \in ListFilter, PickFilter(b, f) PROVE ShelfInv'
  <2> DEFINE s == [shelf[b] EXCEPT !.filter = f, !.is = "loading"]
  <2>1. s \in Shelf /\ s.filter = f /\ s.is = "loading"
    BY <1>t DEF Shelf
  <2>2. shelf' = [shelf EXCEPT ![b] = s]
    BY <1>8, <1>t DEF PickFilter
  <2> HIDE DEF s
  <2>3. /\ shelf' \in [Tab -> Shelf]
        /\ \A d \in Tab : shelf'[d] = IF d = b THEN s ELSE shelf[d]
    BY <1>t, <2>1, <2>2
  <2>4. listCalls' = {c \in listCalls : c.tab # b} \cup {[tab |-> b, filter |-> f]}
    BY <1>8 DEF PickFilter, Silenced
  <2>5. ListShowsFilter'
    BY <2>1, <2>3 DEF ListShowsFilter, ShelfInv
  <2>6. \A c \in listCalls' : c \in [tab : Tab, filter : ListFilter] /\ c.filter = shelf'[c.tab].filter
    BY <1>t, <2>1, <2>3, <2>4 DEF ShelfInv
  <2>7. desk' \in [Tab -> DeskPage]
    <3>1. [desk[b] EXCEPT !.at = "list"] \in DeskPage
      BY <1>t DEF DeskPage
    <3> QED
      BY <1>8, <1>t, <3>1 DEF PickFilter
  <2>8. UNCHANGED <<hreq, deskCall>>
    BY <1>8 DEF PickFilter
  <2> QED
    BY <1>t, <2>3, <2>5, <2>6, <2>7, <2>8 DEF ShelfInv, DeskTypeOK, DeskPage, DeskCalled, Shelf
<1>9. ASSUME NEW c \in listCalls, ListArrives(c) PROVE ShelfInv'
  <2>1. c.tab \in Tab /\ c.filter \in ListFilter /\ c.filter = shelf[c.tab].filter
    BY <1>t DEF ShelfInv
  <2>2. PICK s \in Shelf : /\ shelf' = [shelf EXCEPT ![c.tab] = s]
                           /\ s.filter = shelf[c.tab].filter
                           /\ s.is = "idle" => s.shows = s.filter
    <3> DEFINE s1 == [shelf[c.tab] EXCEPT !.shows = c.filter, !.is = "idle"]
               s2 == [shelf[c.tab] EXCEPT !.is = "failed"]
    <3>0. shelf[c.tab] \in Shelf /\ c.filter \in ListFilter
      BY <1>t, <2>1
    <3>1. s1 \in Shelf /\ s2 \in Shelf /\ s1.filter = shelf[c.tab].filter /\ s2.filter = shelf[c.tab].filter
      BY <3>0 DEF Shelf
    <3>2. s1.shows = s1.filter /\ s2.is = "failed"
      BY <1>t, <2>1 DEF Shelf
    <3>3. shelf' = [shelf EXCEPT ![c.tab] = s1] \/ shelf' = [shelf EXCEPT ![c.tab] = s2]
      BY <1>9, <1>t, <2>1 DEF ListArrives
    <3> HIDE DEF s1, s2
    <3> QED
      BY <3>1, <3>2, <3>3
  <2>3. /\ shelf' \in [Tab -> Shelf]
        /\ \A d \in Tab : shelf'[d] = IF d = c.tab THEN s ELSE shelf[d]
    BY <1>t, <2>1, <2>2
  <2>4. ListShowsFilter'
    BY <2>2, <2>3 DEF ListShowsFilter, ShelfInv
  <2>5. \A d \in Tab : shelf'[d].filter = shelf[d].filter
    BY <2>2, <2>3
  <2>6. \A d \in listCalls' : d \in [tab : Tab, filter : ListFilter] /\ d.filter = shelf'[d.tab].filter
    BY <1>9, <1>t, <2>5 DEF ListArrives, ShelfInv
  <2>7. UNCHANGED <<hreq, desk, deskCall>>
    BY <1>9 DEF ListArrives
  <2> QED
    BY <1>t, <2>3, <2>4, <2>6, <2>7 DEF ShelfInv, DeskTypeOK, DeskPage, DeskCalled, Shelf
<1> QED
  BY <1>1, <1>2, <1>3, <1>4, <1>5, <1>6, <1>7, <1>8, <1>9, <1>10 DEF DeskNext

\* In any number of tabs, the list that is shown, and the list call whose answer is
\* still heard, are those of the filter that is chosen
\* (HireRequests/HireRequestsPage.jsx, the effect of the filter).
THEOREM ListsShowTheirFilter == DeskSpec => []ListShowsFilter
<1>1. ShelfInv => ListShowsFilter
  BY DEF ShelfInv
<1> QED
  BY ShelfInit, ShelfStep, <1>1, PTL DEF DeskSpec

\* The tabs, their calls and their lists keep their types.
THEOREM DeskTypes == DeskSpec => []DeskTypeOK
<1>1. ShelfInv => DeskTypeOK
  BY DEF ShelfInv
<1> QED
  BY ShelfInit, ShelfStep, <1>1, PTL DEF DeskSpec

-----------------------------------------------------------------------------
(**************************************************************************)
(* The JD tab of a position.                                               *)
(**************************************************************************)

JdPages == [at : {"away", "loading", "other", "jd"}, position : JdPosition,
            content : 1..MaxJdText, editing : BOOLEAN, deciding : BOOLEAN,
            saving : BOOLEAN, changes : BOOLEAN, notes : BOOLEAN,
            ask : {"none", "open", "on_hold"}]
JdCallSet == [of : Reviewer, op : {"get", "save", "approve", "changes", "open", "on_hold"},
              text : 1..MaxJdText, done : BOOLEAN, here : BOOLEAN, row : JdPosition]

LEMMA JdDefaults == Submitted \in JdPosition /\ JdAway \in JdPages /\ 1 \in 1..MaxJdText
<1>1. 1 \in 1..MaxJdText
  BY JdReviewAssumption
<1>2. Submitted \in JdPosition
  BY <1>1 DEF Submitted, JdPosition
<1> HIDE DEF JdPosition
<1> QED
  BY <1>1, <1>2 DEF JdAway, JdPages

\* The two states a decision or the menu writes, and the text a save or the recruiter writes.
LEMMA JdPositions ==
    ASSUME NEW p \in JdPosition
    PROVE  /\ p.text \in 1..MaxJdText
           /\ \A n \in 1..MaxJdText : [p EXCEPT !.text = n] \in JdPosition
           /\ [p EXCEPT !.status = "open", !.approval = "approved"] \in JdPosition
           /\ [p EXCEPT !.status = "draft_needs_revision", !.approval = "changes_requested"] \in JdPosition
           /\ [p EXCEPT !.status = "open"] \in JdPosition
           /\ [p EXCEPT !.status = "on_hold"] \in JdPosition
  BY DEF JdPosition

LEMMA JdReviewTypeInit == JdReviewInit => JdReviewTypeOK
<1> SUFFICES ASSUME JdReviewInit PROVE JdReviewTypeOK
  OBVIOUS
<1>1. jdPage \in [Reviewer -> JdPages]
  BY JdDefaults DEF JdReviewInit
<1> QED
  BY <1>1, JdDefaults DEF JdReviewInit, JdReviewTypeOK, JdPages

LEMMA JdReviewTypeNext == JdReviewTypeOK /\ [JdReviewNext]_jdVars => JdReviewTypeOK'
<1> SUFFICES ASSUME JdReviewTypeOK, [JdReviewNext]_jdVars PROVE JdReviewTypeOK'
  OBVIOUS
<1>a. /\ jdPosition \in JdPosition /\ jdTexts \in 1..MaxJdText
      /\ jdPage \in [Reviewer -> JdPages] /\ jdCalls \subseteq JdCallSet
  BY DEF JdReviewTypeOK, JdPages, JdCallSet
<1>b. /\ jdPosition' \in JdPosition /\ jdTexts' \in 1..MaxJdText
      /\ jdPage' \in [Reviewer -> JdPages] /\ jdCalls' \subseteq JdCallSet
      => JdReviewTypeOK'
  BY DEF JdReviewTypeOK, JdPages, JdCallSet
<1>c. ASSUME NEW r \in Reviewer, NEW op \in {"get", "save", "approve", "changes", "open", "on_hold"}
      PROVE  JdCall(r, op) \in JdCallSet
  <2>1. jdPage[r].content \in 1..MaxJdText
    BY <1>a DEF JdPages
  <2> HIDE DEF JdPosition
  <2> QED
    BY <2>1, JdDefaults DEF JdCall, JdCallSet
<1>d. ASSUME NEW r \in Reviewer, NEW seen \in JdPages, jdPage' = [jdPage EXCEPT ![r] = seen],
             UNCHANGED <<jdPosition, jdTexts>>, jdCalls' \subseteq JdCallSet
      PROVE  JdReviewTypeOK'
  <2>1. jdPage' \in [Reviewer -> JdPages]
    <3> HIDE DEF JdPages
    <3> QED
      BY <1>a, <1>d
  <2> QED
    BY <1>a, <1>b, <1>d, <2>1
<1>e. \A r \in Reviewer : jdPage[r] \in JdPages
  BY <1>a
<1> HIDE DEF JdPosition
<1>1. ASSUME NEW r \in Reviewer, OpenJdPage(r) PROVE JdReviewTypeOK'
  <2>1. jdCalls' = jdCalls \cup {JdCall(r, "get")} /\ UNCHANGED <<jdPosition, jdTexts>>
        /\ jdPage' = [jdPage EXCEPT ![r] = [JdAway EXCEPT !.at = "loading"]]
    BY <1>1 DEF OpenJdPage, JdAsks
  <2>2. [JdAway EXCEPT !.at = "loading"] \in JdPages
    BY JdDefaults DEF JdPages
  <2>3. jdCalls' \subseteq JdCallSet
    BY <1>a, <1>c, <2>1
  <2> QED
    BY <1>d, <2>1, <2>2, <2>3
<1>2. ASSUME NEW r \in Reviewer, LeaveJdPage(r) PROVE JdReviewTypeOK'
  <2>1. \A c \in JdCallSet : [c EXCEPT !.here = FALSE] \in JdCallSet
    BY DEF JdCallSet
  <2>2. jdCalls' \subseteq JdCallSet
    <3> HIDE DEF JdCallSet
    <3> QED
      BY <1>a, <1>2, <2>1 DEF LeaveJdPage
  <2> QED
    BY <1>d, <1>2, <2>2, JdDefaults DEF LeaveJdPage
<1>3. ASSUME NEW r \in Reviewer, SwitchJdTab(r) PROVE JdReviewTypeOK'
  <2> DEFINE seen == [JdAway EXCEPT !.position = jdPage[r].position, !.content = jdPage[r].position.text,
                                    !.at = IF jdPage[r].at = "jd" THEN "other" ELSE "jd"]
  <2>1. jdPage' = [jdPage EXCEPT ![r] = seen] /\ UNCHANGED <<jdPosition, jdTexts, jdCalls>>
    BY <1>3 DEF SwitchJdTab
  <2>2. seen \in JdPages
    <3>1. jdPage[r].position \in JdPosition
      BY <1>e DEF JdPages
    <3>2. jdPage[r].position.text \in 1..MaxJdText
      BY <3>1, JdPositions
    <3> QED
      BY <3>1, <3>2, JdDefaults DEF JdPages
  <2> HIDE DEF seen
  <2> QED
    BY <1>a, <1>d, <2>1, <2>2
<1>4. ASSUME NEW r \in Reviewer, EditJd(r) PROVE JdReviewTypeOK'
  <2>1. [jdPage[r] EXCEPT !.editing = TRUE] \in JdPages
    BY <1>e DEF JdPages
  <2> QED
    BY <1>a, <1>d, <1>4, <2>1 DEF EditJd
<1>5. ASSUME NEW r \in Reviewer, TypeJd(r) PROVE JdReviewTypeOK'
  <2>1. jdTexts' \in 1..MaxJdText /\ jdPosition' = jdPosition /\ jdCalls' = jdCalls
        /\ jdPage' = [jdPage EXCEPT ![r].content = jdTexts']
    BY <1>a, <1>5, JdReviewAssumption DEF TypeJd
  <2> DEFINE seen == [jdPage[r] EXCEPT !.content = jdTexts']
  <2>2. seen \in JdPages /\ jdPage' = [jdPage EXCEPT ![r] = seen]
    BY <1>e, <2>1 DEF JdPages
  <2> HIDE DEF seen
  <2>3. jdPage' \in [Reviewer -> JdPages]
    <3> HIDE DEF JdPages
    <3> QED
      BY <1>a, <2>2
  <2> QED
    BY <1>a, <1>b, <2>1, <2>3
<1>6. ASSUME NEW r \in Reviewer, CancelJdEdit(r) PROVE JdReviewTypeOK'
  <2>1. [jdPage[r] EXCEPT !.editing = FALSE] \in JdPages
    BY <1>e DEF JdPages
  <2> QED
    BY <1>a, <1>d, <1>6, <2>1 DEF CancelJdEdit
<1>7. ASSUME NEW r \in Reviewer, SaveJd(r) PROVE JdReviewTypeOK'
  <2>1. [jdPage[r] EXCEPT !.saving = TRUE] \in JdPages
    BY <1>e DEF JdPages
  <2>2. jdCalls' \subseteq JdCallSet
    BY <1>a, <1>c, <1>7 DEF SaveJd, JdAsks
  <2> QED
    BY <1>a, <1>d, <1>7, <2>1, <2>2 DEF SaveJd
<1>8. ASSUME NEW r \in Reviewer, ApproveJd(r) PROVE JdReviewTypeOK'
  <2>1. [jdPage[r] EXCEPT !.deciding = TRUE] \in JdPages
    BY <1>e DEF JdPages
  <2>2. jdCalls' \subseteq JdCallSet
    BY <1>a, <1>c, <1>8 DEF ApproveJd, JdAsks
  <2> QED
    BY <1>a, <1>d, <1>8, <2>1, <2>2 DEF ApproveJd
<1>9. ASSUME NEW r \in Reviewer, OpenChanges(r) PROVE JdReviewTypeOK'
  <2> DEFINE seen == [jdPage[r] EXCEPT !.changes = TRUE, !.notes = FALSE]
  <2>1. seen \in JdPages
    BY <1>e DEF JdPages
  <2>2. jdPage' = [jdPage EXCEPT ![r] = seen]
    BY <1>a, <1>9 DEF OpenChanges
  <2> HIDE DEF seen
  <2> QED
    BY <1>a, <1>d, <1>9, <2>1, <2>2 DEF OpenChanges
<1>10. ASSUME NEW r \in Reviewer, TypeChanges(r) PROVE JdReviewTypeOK'
  <2>1. [jdPage[r] EXCEPT !.notes = TRUE] \in JdPages
    BY <1>e DEF JdPages
  <2> QED
    BY <1>a, <1>d, <1>10, <2>1 DEF TypeChanges
<1>11. ASSUME NEW r \in Reviewer, CloseChanges(r) PROVE JdReviewTypeOK'
  <2>1. [jdPage[r] EXCEPT !.changes = FALSE] \in JdPages
    BY <1>e DEF JdPages
  <2> QED
    BY <1>a, <1>d, <1>11, <2>1 DEF CloseChanges
<1>12. ASSUME NEW r \in Reviewer, SubmitChanges(r) PROVE JdReviewTypeOK'
  <2>1. [jdPage[r] EXCEPT !.deciding = TRUE] \in JdPages
    BY <1>e DEF JdPages
  <2>2. jdCalls' \subseteq JdCallSet
    BY <1>a, <1>c, <1>12 DEF SubmitChanges, JdAsks
  <2> QED
    BY <1>a, <1>d, <1>12, <2>1, <2>2 DEF SubmitChanges
<1>13. ASSUME NEW r \in Reviewer, NEW new \in {"open", "on_hold"}, AskStatus(r, new) PROVE JdReviewTypeOK'
  <2>1. [jdPage[r] EXCEPT !.ask = new] \in JdPages
    BY <1>e DEF JdPages
  <2> QED
    BY <1>a, <1>d, <1>13, <2>1 DEF AskStatus
<1>14. ASSUME NEW r \in Reviewer, CloseStatus(r) PROVE JdReviewTypeOK'
  <2>1. [jdPage[r] EXCEPT !.ask = "none"] \in JdPages
    BY <1>e DEF JdPages
  <2> QED
    BY <1>a, <1>d, <1>14, <2>1 DEF CloseStatus
<1>15. ASSUME NEW r \in Reviewer, ConfirmStatus(r) PROVE JdReviewTypeOK'
  <2>1. [jdPage[r] EXCEPT !.ask = "none"] \in JdPages /\ jdPage[r].ask \in {"none", "open", "on_hold"}
    BY <1>e DEF JdPages
  <2>2. jdCalls' \subseteq JdCallSet
    BY <1>a, <1>c, <1>15, <2>1 DEF ConfirmStatus, JdAsks
  <2> QED
    BY <1>a, <1>d, <1>15, <2>1, <2>2 DEF ConfirmStatus
<1>16. CASE Resubmit
  <2>1. jdTexts' \in 1..MaxJdText /\ jdPage' = jdPage /\ jdCalls' = jdCalls
        /\ jdPosition' = [text |-> jdTexts', status |-> "pending_jd_approval", approval |-> "pending"]
    BY <1>a, <1>16, JdReviewAssumption DEF Resubmit
  <2>2. jdPosition' \in JdPosition
    BY <2>1 DEF JdPosition
  <2> QED
    BY <1>a, <1>b, <2>1, <2>2
<1>17. ASSUME NEW c \in jdCalls, JdServed(c) PROVE JdReviewTypeOK'
  <2>1. c \in JdCallSet /\ c.text \in 1..MaxJdText
    BY <1>a DEF JdCallSet
  <2>2. JdAfter(c) \in JdPosition
    <3>1. \/ JdAfter(c) = [jdPosition EXCEPT !.text = c.text]
          \/ JdAfter(c) = [jdPosition EXCEPT !.status = "open", !.approval = "approved"]
          \/ JdAfter(c) = [jdPosition EXCEPT !.status = "draft_needs_revision", !.approval = "changes_requested"]
          \/ c.op \in {"open", "on_hold"} /\ JdAfter(c) = [jdPosition EXCEPT !.status = c.op]
          \/ JdAfter(c) = jdPosition
      BY DEF JdAfter
    <3>2. c.op \in {"open", "on_hold"} => [jdPosition EXCEPT !.status = c.op] \in JdPosition
      BY <1>a, JdPositions
    <3> QED
      BY <1>a, <2>1, <3>1, <3>2, JdPositions
  <2>3. jdPosition' \in JdPosition /\ UNCHANGED <<jdTexts, jdPage>>
    BY <1>17, <2>2 DEF JdServed
  <2>4. [c EXCEPT !.done = TRUE, !.row = jdPosition'] \in JdCallSet
    BY <2>1, <2>3 DEF JdCallSet
  <2>5. jdCalls' \subseteq JdCallSet
    <3>1. jdCalls' \subseteq jdCalls \cup {[c EXCEPT !.done = TRUE, !.row = jdPosition']}
      BY <1>17 DEF JdServed
    <3> QED
      BY <1>a, <2>4, <3>1
  <2> QED
    BY <1>a, <1>b, <2>3, <2>5
<1>18. ASSUME NEW c \in jdCalls, JdArrives(c) PROVE JdReviewTypeOK'
  <2>1. c \in JdCallSet /\ c.of \in Reviewer /\ c.row \in JdPosition /\ c.row.text \in 1..MaxJdText
    <3>1. c \in JdCallSet /\ c.of \in Reviewer /\ c.row \in JdPosition
      BY <1>a DEF JdCallSet
    <3> QED
      BY <3>1, JdPositions
  <2>2. Merged(c.of, c) \in JdPosition
    <3>1. jdPage[c.of].position \in JdPosition
      BY <1>e, <2>1 DEF JdPages
    <3> QED
      BY <2>1, <3>1, JdPositions DEF Merged
  <2> DEFINE seen == [jdPage[c.of] EXCEPT !.position = Merged(c.of, c)]
             new == CASE c.op = "get" -> [seen EXCEPT !.at = "jd", !.content = c.row.text]
                      [] c.op = "save" -> [seen EXCEPT !.editing = FALSE, !.saving = FALSE]
                      [] c.op = "approve" -> [seen EXCEPT !.deciding = FALSE]
                      [] c.op = "changes" -> [seen EXCEPT !.deciding = FALSE, !.changes = FALSE, !.notes = FALSE]
                      [] OTHER -> seen
  <2>3. jdPage' = [jdPage EXCEPT ![c.of] = new] /\ UNCHANGED <<jdPosition, jdTexts>> /\ jdCalls' \subseteq jdCalls
    BY <1>18 DEF JdArrives
  <2>4. seen \in JdPages
    BY <1>e, <2>1, <2>2 DEF JdPages
  <2> HIDE DEF seen
  <2>5. new \in JdPages
    BY <2>1, <2>4 DEF JdPages
  <2> HIDE DEF new
  <2> QED
    BY <1>a, <1>d, <2>1, <2>3, <2>5
<1>19. ASSUME NEW c \in jdCalls, JdFails(c) PROVE JdReviewTypeOK'
  <2>1. c.of \in Reviewer
    BY <1>a DEF JdCallSet
  <2>2. \E seen \in {JdAway, [jdPage[c.of] EXCEPT !.saving = FALSE], [jdPage[c.of] EXCEPT !.deciding = FALSE], jdPage[c.of]} :
          jdPage' = [jdPage EXCEPT ![c.of] = seen]
    <3>1. CASE ~c.here
      <4>1. jdPage' = [jdPage EXCEPT ![c.of] = jdPage[c.of]]
        BY <1>a, <1>19, <2>1, <3>1 DEF JdFails
      <4> QED
        BY <4>1
    <3>2. CASE c.here
      BY <1>19, <3>2 DEF JdFails
    <3> QED
      BY <3>1, <3>2
  <2>3. [jdPage[c.of] EXCEPT !.saving = FALSE] \in JdPages /\ [jdPage[c.of] EXCEPT !.deciding = FALSE] \in JdPages
    BY <1>e, <2>1 DEF JdPages
  <2>4. UNCHANGED <<jdPosition, jdTexts>> /\ jdCalls' \subseteq jdCalls
    BY <1>19 DEF JdFails
  <2> QED
    BY <1>a, <1>d, <1>e, <2>1, <2>2, <2>3, <2>4, JdDefaults
<1>20. CASE UNCHANGED jdVars
  BY <1>a, <1>b, <1>20 DEF jdVars
<1> QED
  BY <1>1, <1>2, <1>3, <1>4, <1>5, <1>6, <1>7, <1>8, <1>9, <1>10, <1>11, <1>12, <1>13, <1>14,
     <1>15, <1>16, <1>17, <1>18, <1>19, <1>20 DEF JdReviewNext

\* The position, the pages that show its JD and their calls keep their types.
THEOREM JdReviewTypes == JdReviewSpec => []JdReviewTypeOK
BY JdReviewTypeInit, JdReviewTypeNext, PTL DEF JdReviewSpec
=============================================================================
