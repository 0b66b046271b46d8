------------------------------ MODULE Transcript ------------------------------
(***************************************************************************)
(* The messages of conversations: what text and voice turns read and write *)
(* (agent/runner.py, agent/loop.py's emit) and what the page reads back    *)
(* (conversation_messages in api/routes/chat.py).                          *)
(*                                                                         *)
(* A message carries the time its transaction started (now() of            *)
(* PostgreSQL), and a conversation is read in the order (created_at, id).  *)
(* A turn is one transaction, unless a tool that refunds or escalates      *)
(* commits in the middle of it.                                            *)
(***************************************************************************)
EXTENDS VoiceBridge

CONSTANT MaxTurns  \* bound on the turns ever begun

\* Every turn finds a conversation to insert.
ASSUME TranscriptAssumption == MaxTurns \in 0..MaxConversations

VARIABLES
  now,        \* the clock of the database; no two transactions start at one microsecond
  messages,   \* the committed rows of messages
  lastId,     \* the sequence behind messages.id
  turn,       \* the turn each handler runs
  opened,     \* history: how many turns have begun
  overlapped, \* history: the turns that met another one in their conversation
  torn,       \* history: the turns with a commit before their answer
  spoken,     \* history: the turns of the call
  failed      \* history: those of them that failed

tables == <<now, messages, lastId>>
turnHistory == <<opened, overlapped, torn>>
transcriptVars == <<voiceVars, tables, turn, turnHistory, spoken, failed>>
-----------------------------------------------------------------------------
Message == [id : Nat, conversation : Conversations, role : {"user", "assistant"},
            created_at : Nat, turn : Nat,
            saw : SUBSET Nat]   \* history: ids of the messages in the turn's prompt

Turn == [at : {"off", "loading", "thinking", "asked", "answered"}, n : Nat,
         began : Nat,             \* when its current transaction started
         pending : SUBSET Message, saw : SUBSET Nat]

Off == [at |-> "off", n |-> 0, began |-> 0, pending |-> {}, saw |-> {}]

\* Mutant: the id is left out of ORDER BY.
BeforeByTime(m, n) == m.created_at < n.created_at

\* ORDER BY created_at, id.
Before(m, n) ==
  \/ m.created_at < n.created_at
  \/ m.created_at = n.created_at /\ m.id < n.id

Row(w, role) ==
  [id |-> lastId + 1, conversation |-> work[w], role |-> role,
   created_at |-> turn[w].began, turn |-> turn[w].n, saw |-> turn[w].saw]

\* Bound: a turn is asked for only while there is room to begin it.
RoomForTurn == opened + Cardinality(Starting) < MaxTurns

\* A commit, which makes a conversation inserted by the turn visible to others.
Commits(w) ==
  /\ IF status[work[w]] = "inserted" THEN Keep(w) ELSE UNCHANGED threadVars
  /\ UNCHANGED <<bridge, heard>>
-----------------------------------------------------------------------------
TranscriptInit ==
  /\ VoiceInit
  /\ now = 0 /\ messages = {} /\ lastId = 0
  /\ turn = [w \in Handlers |-> Off]
  /\ opened = 0 /\ overlapped = {} /\ torn = {}
  /\ spoken = [b \in Bridges |-> {}] /\ failed = [b \in Bridges |-> {}]

\* run_chat_turn begins with the first query, which starts the transaction.
Opens(w) ==
  /\ opened < MaxTurns
  /\ LET others == {turn[v].n : v \in {u \in Handlers : work[u] = work'[w]}}
         n == opened + 1
     IN  /\ now' = now + 1
         /\ turn' = [turn EXCEPT ![w] = [Off EXCEPT !.at = "loading", !.n = n,
                                         !.began = now + 1]]
         /\ opened' = n
         /\ overlapped' = overlapped \cup (IF others = {} THEN {} ELSE others \cup {n})
  /\ UNCHANGED <<messages, lastId, torn>>

\* Mutant: the history query has no WHERE.
LoadHistoryOfAll(w) ==
  /\ turn[w].at = "loading"
  /\ turn' = [turn EXCEPT ![w].at = "thinking", ![w].saw = {m.id : m \in messages}]
  /\ UNCHANGED <<voiceVars, tables, turnHistory>>

\* _load_history, a query of its own: it sees what is committed by now.
LoadHistory(w) ==
  /\ turn[w].at = "loading"
  /\ turn' = [turn EXCEPT ![w].at = "thinking",
       ![w].saw = {m.id : m \in {k \in messages : k.conversation = work[w]}}]
  /\ UNCHANGED <<voiceVars, tables, turnHistory>>

\* Mutant: the question is committed as soon as it is known.
AskAtOnce(w) ==
  /\ turn[w].at = "thinking"
  /\ messages' = messages \cup {Row(w, "user")} /\ lastId' = lastId + 1
  /\ turn' = [turn EXCEPT ![w].at = "asked"]
  /\ Commits(w)
  /\ UNCHANGED <<now, turnHistory>>

\* The first flush, at the latest that of the first step traced, inserts the question.
Ask(w) ==
  /\ turn[w].at = "thinking"
  /\ turn' = [turn EXCEPT ![w].at = "asked", ![w].pending = {Row(w, "user")}]
  /\ lastId' = lastId + 1
  /\ UNCHANGED <<voiceVars, now, messages, turnHistory>>

\* issue_refund or escalate_to_manager commits the shared session; the refresh that
\* follows starts the next transaction.  Bound: one such commit in a turn, another
\* only moves that start.
CommitInTool(w) ==
  /\ turn[w].at = "asked" /\ turn[w].n \notin torn
  /\ messages' = messages \cup turn[w].pending
  /\ Commits(w)
  /\ now' = now + 1
  /\ turn' = [turn EXCEPT ![w].pending = {}, ![w].began = now + 1]
  /\ torn' = torn \cup {turn[w].n}
  /\ UNCHANGED <<lastId, opened, overlapped>>

\* The final commit of run_chat_turn.
Answer(w) ==
  /\ turn[w].at = "asked"
  /\ messages' = messages \cup turn[w].pending \cup {Row(w, "assistant")}
  /\ lastId' = lastId + 1
  /\ Commits(w)
  /\ turn' = [turn EXCEPT ![w].at = "answered", ![w].pending = {}]
  /\ UNCHANGED <<now, turnHistory>>

\* The session is closed, and what it has not committed is rolled back.
Closes(w) ==
  /\ turn' = [turn EXCEPT ![w] = Off]
  /\ UNCHANGED <<tables, turnHistory>>
-----------------------------------------------------------------------------
CallOpens(b) ==
  /\ \E c \in Known : ConnectCall(b, c) /\ UNCHANGED threadVars
  /\ spoken' = [spoken EXCEPT ![b] = {}] /\ failed' = [failed EXCEPT ![b] = {}]
  /\ UNCHANGED <<tables, turn, turnHistory>>

CallGoesOn(b) ==
  /\ HearFragment(b) \/ (RoomForTurn /\ StopSpeaking(b)) \/ FailBeforeTurn(b) \/ HangUp(b)
  /\ UNCHANGED <<tables, turn, turnHistory, spoken, failed>>

VoiceTurnOpens(b) ==
  /\ BeginVoiceTurn(b) /\ Opens(b)
  /\ spoken' = [spoken EXCEPT ![b] = spoken[b] \cup {opened + 1}]
  /\ UNCHANGED failed

VoiceTurnFails(b) ==
  /\ FailVoiceTurn(b) /\ Closes(b)
  /\ failed' = [failed EXCEPT ![b] = failed[b] \cup {turn[b].n}]
  /\ UNCHANGED spoken

VoiceTurnReplies(b) ==
  /\ turn[b].at = "answered" /\ Speak(b) /\ Closes(b)
  /\ UNCHANGED <<spoken, failed>>

\* What a turn does between its first query and its reply.
TurnWorks(w) ==
  /\ LoadHistory(w) \/ Ask(w) \/ CommitInTool(w) \/ Answer(w)
  /\ UNCHANGED <<spoken, failed>>

TextTurn(w) ==
  /\ \/ \E c \in Known : Accepts(c) /\ RoomForTurn /\ BeginTurn(w, c) /\ Opens(w)
     \/ turn[w].at = "answered" /\ EndTurn(w) /\ Closes(w)
     \/ FailTurn(w) /\ Closes(w)
  /\ UNCHANGED <<bridge, heard, spoken, failed>>

\* What the task of a call does next, of its own accord.
VoiceProgress(b) == VoiceTurnOpens(b) \/ TurnWorks(b) \/ VoiceTurnReplies(b)

TranscriptNext ==
  \/ \E b \in Bridges : \/ CallOpens(b) \/ CallGoesOn(b)
                        \/ VoiceProgress(b) \/ VoiceTurnFails(b)
  \/ \E w \in Handlers \ Bridges : TextTurn(w) \/ TurnWorks(w)

TranscriptSpec == TranscriptInit /\ [][TranscriptNext]_transcriptVars

\* The event loop resumes a task whose await has returned or raised.
FairTranscriptSpec ==
  TranscriptSpec /\ \A b \in Bridges : WF_transcriptVars(VoiceProgress(b))
-----------------------------------------------------------------------------
TranscriptTypeOK ==
  /\ VoiceTypeOK
  /\ now \in Nat /\ lastId \in Nat /\ opened \in Nat
  /\ messages \subseteq Message
  /\ turn \in [Handlers -> Turn]
  /\ \A w \in Handlers : turn[w].at = "off" <=> work[w] = None
  /\ overlapped \subseteq Nat /\ torn \subseteq Nat
  /\ spoken \in [Bridges -> SUBSET Nat] /\ failed \in [Bridges -> SUBSET Nat]

SameThread(m, n) == m.conversation = n.conversation

\* A conversation reads as question and answer: the answer comes after its
\* question whatever else runs, and right after it unless another turn of the
\* conversation (a second tab, a voice call) ran at the same time.
AnswerFollowsQuestion ==
  \A q, a \in messages :
    (q.turn = a.turn /\ q.role = "user" /\ a.role = "assistant") =>
      /\ Before(q, a)
      /\ q.turn \notin overlapped =>
           ~\E m \in messages : SameThread(m, q) /\ Before(q, m) /\ Before(m, a)

\* What the model was shown when it answered is what everybody reads above the
\* question later: no message of a turn that did not overlap is sorted in between
\* afterwards, although rows are stamped with the start of their transaction.
PromptIsWhatPrecedes ==
  \A q \in messages :
    (q.role = "user" /\ q.turn \notin overlapped) =>
      q.saw = {m.id : m \in {k \in messages : SameThread(k, q) /\ Before(k, q)}}

\* A turn is stored whole or not at all, except that a refund or ticket committed
\* in the middle of it makes the question durable and the turn may fail after that.
NoHalfExchange ==
  \A m \in messages :
    \/ \E k \in messages : k.turn = m.turn /\ k.role # m.role
    \/ m.role = "user" /\ m.turn \in torn

\* A call continues one thread.  Its messages end up in two conversations only if
\* a turn of it failed after part of it had been committed.
CallStaysInThread ==
  \A b \in Bridges :
    LET said == {m \in messages : m.turn \in spoken[b]}
    IN  \/ \A m, n \in said : SameThread(m, n)
        \/ \E m \in said : m.turn \in failed[b]

\* The agent remembers a call: whatever other tabs and calls do to the conversation,
\* every question of a call is put to the model together with all answers the call
\* was given before.
CallIsRemembered ==
  \A b \in Bridges : \A q, a \in messages :
    (/\ {q.turn, a.turn} \subseteq spoken[b] /\ a.turn < q.turn
     /\ q.role = "user" /\ a.role = "assistant" /\ a.turn \notin failed[b])
    => a.id \in q.saw

\* A call never goes deaf: a turn that was begun ends, also when it fails, and the
\* bridge is ready to hand over what was said in the meantime.
BridgeIsFreed == \A b \in Bridges : bridge[b].busy ~> ~bridge[b].busy
=============================================================================
