--------------------------- MODULE TranscriptProofs ---------------------------
(***************************************************************************)
(* Theorems about Transcript: what is stored of a conversation reads as    *)
(* one, and a call keeps to its thread and is remembered.                  *)
(*                                                                         *)
(* The order (created_at, id) sorts the messages of turns that did not     *)
(* overlap by the numbers of the turns: TurnsApart says so of what is      *)
(* stored, RunsAfter of a turn that still runs.  Everything else that is   *)
(* claimed of the transcript follows from that and from the phases of a    *)
(* turn.  CallGood follows the turns of one call.                          *)
(***************************************************************************)
EXTENDS Transcript, VoiceBridgeProofs

On(w) == turn[w].at # "off"

OfTurn(n) == {m \in messages : m.turn = n}

\* q is the question of the turn w runs.
OwnQuestion(w, q) ==
  /\ q \in Message /\ q.turn = turn[w].n /\ q.role = "user"
  /\ q.conversation = work[w] /\ q.saw = turn[w].saw
  /\ q.id \in 1..lastId /\ q.created_at <= turn[w].began

\* The phases of a turn, and what of it is stored.
TurnGood(w) ==
  /\ turn[w].n \in 1..opened /\ turn[w].began \in 1..now
  /\ turn[w].at \in {"loading", "thinking"} =>
       turn[w].pending = {} /\ OfTurn(turn[w].n) = {}
  /\ turn[w].at = "asked" =>
       \E q \in turn[w].pending \cup OfTurn(turn[w].n) : OwnQuestion(w, q) /\
         \/ /\ turn[w].pending = {q} /\ OfTurn(turn[w].n) = {}
            /\ q.created_at = turn[w].began
         \/ turn[w].pending = {} /\ OfTurn(turn[w].n) = {q} /\ turn[w].n \in torn
  /\ turn[w].at = "answered" =>
       turn[w].pending = {} /\ \A m \in OfTurn(turn[w].n) : m.conversation = work[w]

TurnsGood ==
  /\ \A w \in Handlers : On(w) => TurnGood(w)
  /\ \A v, w \in Handlers : v # w /\ On(v) /\ On(w) =>
       /\ turn[v].n # turn[w].n
       /\ work[v] = work[w] => {turn[v].n, turn[w].n} \subseteq overlapped

RowsGood ==
  \A m \in messages : m.id \in 1..lastId /\ m.created_at <= now /\ m.turn \in 1..opened

ExchangesGood ==
  \A m, k \in messages : m.turn = k.turn =>
    /\ SameThread(m, k) /\ (m.role = k.role => m = k)
    /\ m.role = "user" /\ k.role = "assistant" => Before(m, k)

TurnsApart ==
  \A m, k \in messages : SameThread(m, k) /\ m.turn < k.turn =>
    {m.turn, k.turn} \subseteq overlapped \/ m.created_at < k.created_at

RunsAfter ==
  \A w \in Handlers, m \in messages :
    On(w) /\ m.conversation = work[w] /\ m.turn # turn[w].n =>
      \/ {m.turn, turn[w].n} \subseteq overlapped
      \/ m.turn < turn[w].n /\ m.created_at < turn[w].began

\* What conversation c holds of the turns before turn n.
Earlier(c, n) == {m.id : m \in {k \in messages : k.conversation = c /\ k.turn < n}}

PromptsGood ==
  /\ \A q \in messages : q.role = "user" /\ q.turn \notin overlapped =>
       q.saw = Earlier(q.conversation, q.turn)
  /\ \A w \in Handlers :
       On(w) /\ turn[w].at # "loading" /\ turn[w].n \notin overlapped =>
         turn[w].saw = Earlier(work[w], turn[w].n)

TalkInv ==
  /\ TranscriptTypeOK /\ TurnsGood /\ RowsGood /\ ExchangesGood
  /\ TurnsApart /\ RunsAfter /\ PromptsGood /\ NoHalfExchange
-----------------------------------------------------------------------------
Said(b) == {m \in messages : m.turn \in spoken[b]}

\* A turn of the call failed after part of it had been committed.
Escaped(b) == \E m \in Said(b) : m.turn \in failed[b]

\* Answer a was given to the caller.
Given(b, a) ==
  /\ a.role = "assistant" /\ a.turn \in spoken[b] \ failed[b]
  /\ On(b) => a.turn # turn[b].n

CallGood(b) ==
  /\ spoken[b] \subseteq 1..opened /\ failed[b] \subseteq spoken[b]
  /\ \A w \in Handlers \ {b} : On(w) => turn[w].n \notin spoken[b]
  /\ On(b) => turn[b].n \in spoken[b] \ failed[b] /\ \A n \in spoken[b] : n <= turn[b].n
  /\ bridge[b].conversation # None =>
       Stored(bridge[b].conversation) /\ (On(b) => work[b] = bridge[b].conversation)
  /\ \/ Escaped(b)
     \/ \A m \in Said(b) :
          /\ On(b) => m.conversation = work[b]
          /\ ~On(b) => m.conversation = bridge[b].conversation
          /\ bridge[b].conversation = None => On(b) /\ m.turn = turn[b].n
  /\ \A a \in messages : Given(b, a) =>
       /\ a.conversation = bridge[b].conversation
       /\ On(b) /\ turn[b].at # "loading" => a.id \in turn[b].saw
  /\ \A q, a \in messages :
       (/\ {q.turn, a.turn} \subseteq spoken[b] /\ a.turn < q.turn
        /\ q.role = "user" /\ a.role = "assistant" /\ a.turn \notin failed[b])
       => a.id \in q.saw

CallInv == \A b \in Bridges : CallGood(b)
-----------------------------------------------------------------------------
LEMMA TurnUpdate ==
  ASSUME TranscriptTypeOK, NEW w \in Handlers, NEW r \in Turn, turn' = [turn EXCEPT ![w] = r]
  PROVE  /\ turn' \in [Handlers -> Turn] /\ turn'[w] = r
         /\ \A v \in Handlers \ {w} : turn'[v] = turn[v]
BY DEF TranscriptTypeOK

LEMMA RowIs ==
  ASSUME TranscriptTypeOK, NEW w \in Handlers, On(w), NEW role \in {"user", "assistant"}
  PROVE  /\ Row(w, role) \in Message /\ Row(w, role).id = lastId + 1
         /\ Row(w, role).conversation = work[w] /\ Row(w, role).role = role
         /\ Row(w, role).created_at = turn[w].began /\ Row(w, role).turn = turn[w].n
         /\ Row(w, role).saw = turn[w].saw
<1>1. work[w] \in Conversations
  BY DEF TranscriptTypeOK, VoiceTypeOK, ThreadsTypeOK, On
<1>2. turn[w] \in Turn /\ lastId + 1 \in Nat
  BY DEF TranscriptTypeOK
<1> QED
  BY <1>1, <1>2 DEF Row, Message, Turn

\* A step of the turn w runs, which may commit some messages of it.
LEMMA WorkKeeps ==
  ASSUME TalkInv, NEW w \in Handlers, On(w), NEW r \in Turn, NEW new \in SUBSET Message,
         turn' = [turn EXCEPT ![w] = r], messages' = messages \cup new,
         r.at # "off", r.n = turn[w].n, r.began >= turn[w].began, r.began \in 1..now',
         now' \in Nat, now <= now', lastId' \in Nat, lastId <= lastId', torn \subseteq torn',
         UNCHANGED <<work, opened, overlapped>>,
         \A m \in new : /\ m.turn = r.n /\ m.conversation = work[w] /\ m.id \in 1..lastId'
                        /\ m.created_at >= turn[w].began /\ m.created_at <= now'
                        /\ m.role = "user" /\ r.n \notin overlapped =>
                             m.saw = Earlier(work[w], r.n),
         r.at # "loading" /\ r.n \notin overlapped => r.saw = Earlier(work[w], r.n),
         TurnGood(w)', ExchangesGood', NoHalfExchange', TranscriptTypeOK'
  PROVE  TalkInv'
<1>1. turn'[w] = r /\ \A v \in Handlers \ {w} : turn'[v] = turn[v]
  BY TurnUpdate DEF TalkInv
<1>2. \A v \in Handlers : On(v)' <=> On(v)
  BY <1>1 DEF On
<1>3. \A v \in Handlers : turn'[v].n = turn[v].n
  BY <1>1
<1>4. \A v \in Handlers : On(v) => turn[v].n \in Nat /\ turn[v].began \in Nat
  BY DEF TalkInv, TranscriptTypeOK, Turn
<1>5. \A m \in messages : m.turn \in Nat /\ m.created_at \in Nat /\ m.id \in Nat
  BY DEF TalkInv, TranscriptTypeOK, Message
<1>6. ASSUME NEW v \in Handlers, v # w, On(v)
      PROVE  /\ turn[v].n # r.n /\ TurnGood(v)
             /\ work[v] = work[w] => {turn[v].n, r.n} \subseteq overlapped
  BY <1>6 DEF TalkInv, TurnsGood
<1>7. RowsGood'
  <2>1. \A m \in messages : m.id \in 1..lastId' /\ m.created_at <= now' /\ m.turn \in 1..opened'
    <3>1. now \in Nat /\ lastId \in Nat
      BY DEF TalkInv, TranscriptTypeOK
    <3> QED
      BY <1>5, <3>1 DEF TalkInv, RowsGood
  <2>2. r.n \in 1..opened'
    BY DEF TalkInv, TurnsGood, TurnGood
  <2> QED
    BY <2>1, <2>2 DEF RowsGood
<1>8. ASSUME NEW v \in Handlers, v # w, On(v) PROVE TurnGood(v)'
  <2>1. OfTurn(turn[v].n)' = OfTurn(turn[v].n)
    BY <1>1, <1>6, <1>8 DEF OfTurn
  <2>2. turn'[v] = turn[v]
    BY <1>1, <1>8
  <2>3. \A q : OwnQuestion(v, q) => OwnQuestion(v, q)'
    <3>1. lastId \in Nat
      BY DEF TalkInv, TranscriptTypeOK
    <3> QED
      BY <2>2, <3>1 DEF OwnQuestion
  <2>4. turn[v].began \in 1..now'
    <3>1. now \in Nat
      BY DEF TalkInv, TranscriptTypeOK
    <3> QED
      BY <1>6, <1>8, <3>1 DEF TurnGood
  <2> QED
    BY <1>6, <1>8, <2>1, <2>2, <2>3, <2>4 DEF TurnGood
<1>9. TurnsGood'
  <2>1. \A v, u \in Handlers : v # u /\ On(v) /\ On(u) =>
          /\ turn[v].n # turn[u].n
          /\ work[v] = work[u] => {turn[v].n, turn[u].n} \subseteq overlapped
    BY DEF TalkInv, TurnsGood
  <2> QED
    BY <1>2, <1>3, <1>8, <2>1 DEF TurnsGood
<1>10. TurnsApart'
  <2>1. ASSUME NEW m \in messages, NEW k \in new, SameThread(m, k), m.turn # k.turn
        PROVE  \/ {m.turn, k.turn} \subseteq overlapped
               \/ m.turn < k.turn /\ m.created_at < k.created_at
    <3>1. \/ {m.turn, r.n} \subseteq overlapped
          \/ m.turn < r.n /\ m.created_at < turn[w].began
      BY <2>1 DEF TalkInv, RunsAfter, SameThread
    <3>2. k.created_at \in Nat /\ k.turn = r.n /\ turn[w].began <= k.created_at
      BY DEF Message
    <3> QED
      BY <1>4, <1>5, <3>1, <3>2
  <2>2. ASSUME NEW m \in messages', NEW k \in messages', SameThread(m, k), m.turn < k.turn
        PROVE  {m.turn, k.turn} \subseteq overlapped \/ m.created_at < k.created_at
    <3>1. CASE m \in messages /\ k \in messages
      BY <2>2, <3>1 DEF TalkInv, TurnsApart
    <3>2. CASE m \in messages /\ k \in new
      BY <1>4, <1>5, <2>1, <2>2, <3>2
    <3>3. CASE m \in new /\ k \in messages
      <4>1. k.turn \in Nat /\ m.turn \in Nat /\ SameThread(k, m)
        BY <1>4, <1>5, <2>2, <3>3 DEF SameThread
      <4> QED
        BY <2>1, <2>2, <3>3, <4>1
    <3>4. CASE m \in new /\ k \in new
      <4>1. m.turn = k.turn /\ m.turn \in Nat
        BY <1>4, <3>4
      <4> QED
        BY <2>2, <4>1
    <3> QED
      BY <3>1, <3>2, <3>3, <3>4
  <2> QED
    BY <2>2 DEF TurnsApart, SameThread
<1>11. RunsAfter'
  <2> SUFFICES ASSUME NEW v \in Handlers, NEW m \in messages', On(v)',
                      m.conversation = work[v], m.turn # turn'[v].n
               PROVE  \/ {m.turn, turn'[v].n} \subseteq overlapped
                      \/ m.turn < turn'[v].n /\ m.created_at < turn'[v].began
    BY DEF RunsAfter
  <2>1. CASE m \in messages /\ v # w
    BY <1>1, <1>2, <2>1 DEF TalkInv, RunsAfter
  <2>2. CASE m \in messages /\ v = w
    <3>1. \/ {m.turn, r.n} \subseteq overlapped
          \/ m.turn < r.n /\ m.created_at < turn[w].began
      BY <1>1, <2>2 DEF TalkInv, RunsAfter
    <3>2. m.created_at \in Nat /\ turn[w].began \in Nat /\ r.began \in Nat
      BY <1>4, <1>5, <2>2
    <3> QED
      BY <1>1, <2>2, <3>1, <3>2
  <2>3. CASE m \in new /\ v # w
    BY <1>2, <1>3, <1>6, <2>3
  <2>4. CASE m \in new /\ v = w
    BY <1>1, <2>4
  <2> QED
    BY <2>1, <2>2, <2>3, <2>4
<1>12. PromptsGood'
  <2>1. ASSUME NEW c, NEW n \in Nat, n <= r.n \/ c # work[w]
        PROVE  Earlier(c, n)' = Earlier(c, n)
    BY <1>4, <2>1 DEF Earlier
  <2>2. ASSUME NEW q \in messages', q.role = "user", q.turn \notin overlapped
        PROVE  q.saw = Earlier(q.conversation, q.turn)'
    <3>1. CASE q \in new
      BY <1>4, <2>1, <2>2, <3>1
    <3>2. CASE q \in messages
      <4>1. q.saw = Earlier(q.conversation, q.turn)
        BY <2>2, <3>2 DEF TalkInv, PromptsGood
      <4>2. q.conversation = work[w] => q.turn <= r.n
        BY <1>4, <1>5, <2>2, <3>2 DEF TalkInv, RunsAfter
      <4> QED
        BY <1>5, <2>1, <3>2, <4>1, <4>2
    <3> QED
      BY <2>2, <3>1, <3>2
  <2>3. ASSUME NEW v \in Handlers, On(v)', turn'[v].at # "loading", turn'[v].n \notin overlapped
        PROVE  turn'[v].saw = Earlier(work[v], turn[v].n)'
    <3>1. CASE v = w
      BY <1>1, <1>4, <2>1, <2>3, <3>1
    <3>2. CASE v # w
      <4>1. turn[v].saw = Earlier(work[v], turn[v].n) /\ turn'[v] = turn[v] /\ On(v)
        BY <1>1, <1>2, <2>3, <3>2 DEF TalkInv, PromptsGood
      <4>2. work[v] # work[w]
        BY <1>6, <2>3, <3>2, <4>1
      <4> QED
        BY <1>4, <2>1, <4>1, <4>2
    <3> QED
      BY <3>1, <3>2
  <2> QED
    BY <2>2, <2>3 DEF PromptsGood
<1> QED
  BY <1>7, <1>9, <1>10, <1>11, <1>12 DEF TalkInv
-----------------------------------------------------------------------------
LEMMA WorkTypes ==
  ASSUME TranscriptTypeOK, NEW w \in Handlers, On(w), NEW r \in Turn,
         turn' = [turn EXCEPT ![w] = r], r.at # "off", Commits(w) \/ UNCHANGED voiceVars,
         now' \in Nat, lastId' \in Nat, messages' \subseteq Message, torn' \subseteq Nat,
         UNCHANGED <<opened, overlapped, spoken, failed>>
  PROVE  /\ TranscriptTypeOK' /\ UNCHANGED <<work, bridge, heard>>
         /\ \A c \in Conversations : Stored(c) => Stored(c)'
<1>1. /\ ThreadsTypeOK' /\ UNCHANGED <<work, bridge, heard>>
      /\ \A c \in Conversations : Stored(c) => Stored(c)'
  <2>1. /\ Keep(w) \/ UNCHANGED threadVars
        /\ UNCHANGED <<bridge, heard>>
    BY DEF Commits, voiceVars, threadVars
  <2>2. UNCHANGED work
    BY <2>1 DEF Keep, threadVars
  <2>3. ThreadsTypeOK
    BY DEF TranscriptTypeOK, VoiceTypeOK
  <2>4. ThreadsTypeOK' /\ \A c \in Conversations : Stored(c) => Stored(c)'
    BY <2>1, <2>3, ThreadsStep
  <2> QED
    BY <2>1, <2>2, <2>4
<1>2. VoiceTypeOK'
  BY <1>1, VoiceTypes DEF TranscriptTypeOK, CallsTyped, VoiceTypeOK
<1>3. /\ turn' \in [Handlers -> Turn]
      /\ \A v \in Handlers : turn'[v].at = "off" <=> turn[v].at = "off"
  BY TurnUpdate DEF On
<1> QED
  BY <1>1, <1>2, <1>3 DEF TranscriptTypeOK

LEMMA LoadHistoryKeeps ==
  ASSUME TalkInv, NEW w \in Handlers, LoadHistory(w), UNCHANGED <<spoken, failed>>
  PROVE  TalkInv' /\ turn'[w].saw = {m.id : m \in {k \in messages : k.conversation = work[w]}}
<1> DEFINE saw == {m.id : m \in {k \in messages : k.conversation = work[w]}}
           u == [turn[w] EXCEPT !.at = "thinking"]
           r == [u EXCEPT !.saw = saw]
<1>1. On(w) /\ turn[w].at = "loading" /\ turn[w] \in Turn /\ TurnGood(w) /\ TranscriptTypeOK
  BY DEF LoadHistory, On, TalkInv, TranscriptTypeOK, TurnsGood
<1>2. saw \in SUBSET Nat
  BY <1>1 DEF TranscriptTypeOK, Message
<1>3. turn' = [turn EXCEPT ![w] = r]
  BY DEF LoadHistory
<1> HIDE DEF saw
<1>4. /\ u \in Turn /\ u.at = "thinking" /\ u.n = turn[w].n /\ u.began = turn[w].began
      /\ u.pending = turn[w].pending
  BY <1>1 DEF Turn
<1> HIDE DEF u
<1>5. /\ r \in Turn /\ r.at = "thinking" /\ r.n = turn[w].n /\ r.began = turn[w].began
      /\ r.pending = turn[w].pending /\ r.saw = saw
  BY <1>2, <1>4 DEF Turn
<1> HIDE DEF r
<1>6. turn'[w] = r
  BY <1>1, <1>3, <1>5, TurnUpdate
<1>7. UNCHANGED <<voiceVars, now, messages, lastId, opened, overlapped, torn>>
  BY DEF LoadHistory, tables, turnHistory
<1>8. /\ now \in Nat /\ lastId \in Nat /\ messages \subseteq Message /\ torn \subseteq Nat
      /\ turn[w].began \in 1..now
  BY <1>1 DEF TranscriptTypeOK, TurnGood
<1>9. TranscriptTypeOK' /\ UNCHANGED <<work, bridge, heard>>
  BY <1>1, <1>3, <1>5, <1>7, <1>8, WorkTypes
<1>10. r.n \notin overlapped => r.saw = Earlier(work[w], r.n)
  <2> SUFFICES ASSUME r.n \notin overlapped PROVE saw = Earlier(work[w], turn[w].n)
    BY <1>5
  <2>1. \A m \in messages : m.conversation = work[w] => m.turn < turn[w].n
    BY <1>1, <1>5 DEF TurnGood, OfTurn, TalkInv, RunsAfter
  <2> QED
    BY <2>1 DEF Earlier, saw
<1>11. TurnGood(w)'
  <2>1. OfTurn(turn[w].n)' = OfTurn(turn[w].n)
    BY <1>5, <1>6, <1>7 DEF OfTurn
  <2> QED
    BY <1>1, <1>5, <1>6, <1>7, <2>1 DEF TurnGood
<1>12. ExchangesGood' /\ NoHalfExchange'
  BY <1>7 DEF TalkInv, ExchangesGood, NoHalfExchange
<1>13. TalkInv'
  <2>1. /\ r.began >= turn[w].began /\ r.began \in 1..now'
        /\ now' \in Nat /\ now <= now' /\ lastId' \in Nat /\ lastId <= lastId'
    BY <1>5, <1>7, <1>8
  <2> DEFINE new == {}
  <2>2. new \in SUBSET Message /\ messages' = messages \cup new /\ (\A m \in new : FALSE)
    BY <1>7
  <2> HIDE DEF new
  <2>3. r.at # "off" /\ torn \subseteq torn' /\ UNCHANGED <<work, opened, overlapped>>
    BY <1>5, <1>7, <1>9
  <2> QED
    BY <1>1, <1>3, <1>5, <1>9, <1>10, <1>11, <1>12, <2>1, <2>2, <2>3, WorkKeeps
<1> QED
  BY <1>5, <1>6, <1>13 DEF saw

LEMMA AskKeeps ==
  ASSUME TalkInv, NEW w \in Handlers, Ask(w), UNCHANGED <<spoken, failed>>
  PROVE  TalkInv'
<1> PICK q : q = Row(w, "user")
  OBVIOUS
<1> DEFINE u == [turn[w] EXCEPT !.at = "asked"]
           r == [u EXCEPT !.pending = {q}]
<1>1. On(w) /\ turn[w].at = "thinking" /\ turn[w] \in Turn /\ TurnGood(w) /\ TranscriptTypeOK
  BY DEF Ask, On, TalkInv, TranscriptTypeOK, TurnsGood
<1>2. /\ q \in Message /\ q.id = lastId + 1 /\ q.conversation = work[w] /\ q.role = "user"
      /\ q.created_at = turn[w].began /\ q.turn = turn[w].n /\ q.saw = turn[w].saw
  BY <1>1, RowIs
<1>3. turn' = [turn EXCEPT ![w] = r]
  BY DEF Ask
<1>4. lastId' = lastId + 1 /\ UNCHANGED <<voiceVars, now, messages, opened, overlapped, torn>>
  BY DEF Ask, turnHistory
<1>5. /\ u \in Turn /\ u.at = "asked" /\ u.n = turn[w].n /\ u.began = turn[w].began
      /\ u.saw = turn[w].saw
  BY <1>1 DEF Turn
<1> HIDE DEF u
<1>6. /\ r \in Turn /\ r.at = "asked" /\ r.n = turn[w].n /\ r.began = turn[w].began
      /\ r.saw = turn[w].saw /\ r.pending = {q}
  BY <1>2, <1>5 DEF Turn
<1> HIDE DEF r
<1>7. turn'[w] = r
  BY <1>1, <1>3, <1>6, TurnUpdate
<1>8. /\ now \in Nat /\ lastId \in Nat /\ messages \subseteq Message /\ torn \subseteq Nat
      /\ turn[w].began \in 1..now
  BY <1>1 DEF TranscriptTypeOK, TurnGood
<1>9. TranscriptTypeOK' /\ UNCHANGED <<work, bridge, heard>>
  <2>1. /\ now' \in Nat /\ lastId' \in Nat /\ torn' \subseteq Nat /\ r.at # "off"
        /\ messages' \subseteq Message
    BY <1>4, <1>6, <1>8
  <2> QED
    BY <1>1, <1>3, <1>4, <1>6, <2>1, WorkTypes
<1>10. r.n \notin overlapped => r.saw = Earlier(work[w], r.n)
  BY <1>1, <1>6 DEF TalkInv, PromptsGood
<1>11. TurnGood(w)'
  <2>1. OfTurn(turn[w].n)' = OfTurn(turn[w].n)
    BY <1>4, <1>6, <1>7 DEF OfTurn
  <2>2. OwnQuestion(w, q)'
    BY <1>2, <1>4, <1>6, <1>7, <1>8, <1>9 DEF OwnQuestion
  <2> QED
    BY <1>1, <1>2, <1>4, <1>6, <1>7, <2>1, <2>2 DEF TurnGood
<1>12. ExchangesGood' /\ NoHalfExchange'
  BY <1>4 DEF TalkInv, ExchangesGood, NoHalfExchange
<1> DEFINE new == {}
<1>13. new \in SUBSET Message /\ messages' = messages \cup new /\ (\A m \in new : FALSE)
  BY <1>4
<1> HIDE DEF new
<1>14. /\ r.began >= turn[w].began /\ r.began \in 1..now'
       /\ now' \in Nat /\ now <= now' /\ lastId' \in Nat /\ lastId <= lastId'
  BY <1>4, <1>6, <1>8
<1>15. r.at # "off" /\ torn \subseteq torn' /\ UNCHANGED <<work, opened, overlapped>>
  BY <1>4, <1>6, <1>9
<1> QED
  BY <1>1, <1>3, <1>6, <1>9, <1>10, <1>11, <1>12, <1>13, <1>14, <1>15, WorkKeeps

LEMMA CommitInToolKeeps ==
  ASSUME TalkInv, NEW w \in Handlers, CommitInTool(w), UNCHANGED <<spoken, failed>>
  PROVE  TalkInv'
<1> DEFINE old == turn[w]
           u == [old EXCEPT !.pending = {}]
           r == [u EXCEPT !.began = now + 1]
<1>1. On(w) /\ old.at = "asked" /\ old \in Turn /\ TurnGood(w) /\ TranscriptTypeOK
  BY DEF CommitInTool, On, TalkInv, TranscriptTypeOK, TurnsGood
<1>2. old.n \notin torn /\ messages' = messages \cup old.pending /\ torn' = torn \cup {old.n}
      /\ now' = now + 1 /\ UNCHANGED <<lastId, opened, overlapped>> /\ Commits(w)
  BY DEF CommitInTool
<1>3. turn' = [turn EXCEPT ![w] = r]
  BY DEF CommitInTool
<1>4. /\ now \in Nat /\ lastId \in Nat /\ messages \subseteq Message /\ torn \subseteq Nat
      /\ old.began \in 1..now /\ old.n \in Nat
  BY <1>1 DEF TranscriptTypeOK, TurnGood, Turn
<1>5. PICK q : /\ OwnQuestion(w, q) /\ old.pending = {q} /\ OfTurn(old.n) = {}
               /\ q.created_at = old.began
  BY <1>1, <1>2 DEF TurnGood
<1>6. /\ q \in Message /\ q.id \in 1..lastId /\ q.conversation = work[w] /\ q.role = "user"
      /\ q.turn = old.n /\ q.saw = old.saw
  BY <1>5 DEF OwnQuestion
<1> HIDE DEF old
<1>7. u \in Turn /\ u.at = "asked" /\ u.n = old.n /\ u.saw = old.saw /\ u.pending = {}
  BY <1>1 DEF Turn
<1> HIDE DEF u
<1>8. /\ r \in Turn /\ r.at = "asked" /\ r.n = old.n /\ r.saw = old.saw /\ r.pending = {}
      /\ r.began = now + 1
  BY <1>4, <1>7 DEF Turn
<1> HIDE DEF r
<1>9. turn'[w] = r
  BY <1>1, <1>3, <1>8, TurnUpdate
<1>10. messages' = messages \cup {q} /\ messages' \subseteq Message
  BY <1>2, <1>4, <1>5, <1>6
<1>11. TranscriptTypeOK' /\ UNCHANGED <<work, bridge, heard>>
  <2>1. now' \in Nat /\ lastId' \in Nat /\ r.at # "off"
    BY <1>2, <1>4, <1>8
  <2>2. torn' \subseteq Nat
    BY <1>2, <1>4
  <2>3. UNCHANGED <<opened, overlapped, spoken, failed>>
    BY <1>2
  <2> QED
    BY <1>1, <1>2, <1>3, <1>8, <1>10, <2>1, <2>3, <2>2, WorkTypes
<1>12. r.n \notin overlapped => r.saw = Earlier(work[w], r.n)
  BY <1>1, <1>8 DEF TalkInv, PromptsGood, old
<1>13. TurnGood(w)'
  <2>1. OfTurn(turn[w].n)' = {q}
    BY <1>5, <1>6, <1>8, <1>9, <1>10 DEF OfTurn
  <2>2. OwnQuestion(w, q)'
    BY <1>2, <1>4, <1>5, <1>6, <1>8, <1>9, <1>11 DEF OwnQuestion
  <2> QED
    BY <1>1, <1>2, <1>4, <1>8, <1>9, <2>1, <2>2 DEF TurnGood, old
<1>14. ExchangesGood'
  <2>1. \A m \in messages : m.turn # q.turn
    BY <1>5, <1>6 DEF OfTurn
  <2> QED
    BY <1>6, <1>10, <2>1 DEF TalkInv, ExchangesGood, SameThread, Before
<1>15. NoHalfExchange'
  BY <1>2, <1>6, <1>10 DEF TalkInv, NoHalfExchange
<1> DEFINE new == {q}
<1>16. /\ new \in SUBSET Message /\ messages' = messages \cup new
       /\ \A m \in new : /\ m.turn = r.n /\ m.conversation = work[w] /\ m.id \in 1..lastId'
                         /\ m.created_at >= old.began /\ m.created_at <= now'
                         /\ m.role = "user" /\ r.n \notin overlapped =>
                              m.saw = Earlier(work[w], r.n)
  BY <1>2, <1>4, <1>5, <1>6, <1>8, <1>10, <1>12
<1> HIDE DEF new
<1>17. /\ r.began >= old.began /\ r.began \in 1..now' /\ r.at # "off" /\ torn \subseteq torn'
       /\ now' \in Nat /\ now <= now' /\ lastId' \in Nat /\ lastId <= lastId'
  BY <1>2, <1>4, <1>8
<1> QED
  BY <1>1, <1>2, <1>3, <1>8, <1>11, <1>12, <1>13, <1>14, <1>15, <1>16, <1>17, WorkKeeps
  DEF old

LEMMA AnswerKeeps ==
  ASSUME TalkInv, NEW w \in Handlers, Answer(w), UNCHANGED <<spoken, failed>>
  PROVE  TalkInv'
<1> DEFINE old == turn[w]
           u == [old EXCEPT !.at = "answered"]
           r == [u EXCEPT !.pending = {}]
<1> PICK a : a = Row(w, "assistant")
  OBVIOUS
<1>1. On(w) /\ old.at = "asked" /\ old \in Turn /\ TurnGood(w) /\ TranscriptTypeOK
  BY DEF Answer, On, TalkInv, TranscriptTypeOK, TurnsGood
<1>2. /\ a \in Message /\ a.id = lastId + 1 /\ a.conversation = work[w] /\ a.role = "assistant"
      /\ a.created_at = old.began /\ a.turn = old.n
  BY <1>1, RowIs
<1>3. /\ messages' = (messages \cup old.pending) \cup {a} /\ lastId' = lastId + 1 /\ Commits(w)
      /\ UNCHANGED <<now, opened, overlapped, torn>>
  BY DEF Answer, turnHistory
<1>4. turn' = [turn EXCEPT ![w] = r]
  BY DEF Answer
<1>5. /\ now \in Nat /\ lastId \in Nat /\ messages \subseteq Message /\ torn \subseteq Nat
      /\ old.began \in 1..now /\ old.n \in Nat
  BY <1>1 DEF TranscriptTypeOK, TurnGood, Turn
<1>6. PICK q : /\ OwnQuestion(w, q)
               /\ \/ /\ old.pending = {q} /\ OfTurn(old.n) = {}
                     /\ q.created_at = old.began
                  \/ old.pending = {} /\ OfTurn(old.n) = {q}
  BY <1>1 DEF TurnGood
<1>7. /\ q \in Message /\ q.id \in 1..lastId /\ q.conversation = work[w] /\ q.role = "user"
      /\ q.turn = old.n /\ q.saw = old.saw /\ q.created_at <= old.began
  BY <1>6 DEF OwnQuestion
<1> HIDE DEF old
<1>8. u \in Turn /\ u.at = "answered" /\ u.n = old.n /\ u.saw = old.saw /\ u.began = old.began
  BY <1>1 DEF Turn
<1> HIDE DEF u
<1>9. /\ r \in Turn /\ r.at = "answered" /\ r.n = old.n /\ r.saw = old.saw /\ r.pending = {}
      /\ r.began = old.began
  BY <1>8 DEF Turn
<1> HIDE DEF r
<1>10. turn'[w] = r
  BY <1>1, <1>4, <1>9, TurnUpdate
<1>11. messages' = (messages \cup {q}) \cup {a} /\ messages' \subseteq Message
  <2>1. old.pending = {q} \/ (old.pending = {} /\ q \in messages)
    BY <1>6 DEF OfTurn
  <2>2. messages' = (messages \cup {q}) \cup {a}
    BY <1>3, <2>1
  <2> QED
    BY <1>2, <1>5, <1>7, <2>2
<1>12. TranscriptTypeOK' /\ UNCHANGED <<work, bridge, heard>>
  <2>1. now' \in Nat /\ lastId' \in Nat /\ r.at # "off"
    BY <1>3, <1>5, <1>9
  <2>2. torn' \subseteq Nat /\ UNCHANGED <<opened, overlapped, spoken, failed>>
    BY <1>3, <1>5
  <2> QED
    BY <1>1, <1>3, <1>4, <1>9, <1>11, <2>1, <2>2, WorkTypes
<1>13. r.n \notin overlapped => r.saw = Earlier(work[w], r.n)
  BY <1>1, <1>9 DEF TalkInv, PromptsGood, old
<1>14. \A m \in messages : m.turn = old.n => m = q
  BY <1>6 DEF OfTurn
<1>15. TurnGood(w)'
  <2>1. \A m \in OfTurn(turn[w].n)' : m.conversation = work'[w]
    BY <1>2, <1>7, <1>9, <1>10, <1>11, <1>12, <1>14 DEF OfTurn
  <2> QED
    BY <1>1, <1>3, <1>5, <1>9, <1>10, <2>1 DEF TurnGood, old
<1>16. ExchangesGood'
  <2>1. /\ SameThread(q, a) /\ SameThread(a, q) /\ q.role # a.role
        /\ Before(q, a)
    BY <1>2, <1>5, <1>7 DEF SameThread, Before, Message
  <2> SUFFICES ASSUME NEW m \in messages', NEW k \in messages', m.turn = k.turn
               PROVE  /\ SameThread(m, k) /\ (m.role = k.role => m = k)
                      /\ m.role = "user" /\ k.role = "assistant" => Before(m, k)
    BY DEF ExchangesGood, SameThread, Before
  <2>2. CASE m.turn # old.n
    BY <1>2, <1>7, <1>11, <2>2 DEF TalkInv, ExchangesGood
  <2>3. CASE m.turn = old.n
    <3>1. m \in {q, a} /\ k \in {q, a}
      BY <1>11, <1>14, <2>3
    <3>2. SameThread(q, q) /\ SameThread(a, a) /\ q.role = "user" /\ a.role = "assistant"
      BY <1>2, <1>7 DEF SameThread
    <3> QED
      BY <2>1, <3>1, <3>2
  <2> QED
    BY <2>2, <2>3
<1>17. NoHalfExchange'
  <2> SUFFICES ASSUME NEW m \in messages'
               PROVE  \/ \E k \in messages' : k.turn = m.turn /\ k.role # m.role
                      \/ m.role = "user" /\ m.turn \in torn'
    BY DEF NoHalfExchange
  <2>1. CASE m \in {q, a}
    BY <1>2, <1>7, <1>11, <2>1
  <2>2. CASE m \in messages
    BY <1>3, <1>11, <2>2 DEF TalkInv, NoHalfExchange
  <2> QED
    BY <1>11, <2>1, <2>2
<1> DEFINE new == old.pending \cup {a}
<1>18. /\ new \in SUBSET Message /\ messages' = messages \cup new
       /\ \A m \in new : /\ m.turn = r.n /\ m.conversation = work[w] /\ m.id \in 1..lastId'
                         /\ m.created_at >= old.began /\ m.created_at <= now'
                         /\ m.role = "user" /\ r.n \notin overlapped =>
                              m.saw = Earlier(work[w], r.n)
  <2>1. new \in SUBSET Message /\ messages' = messages \cup new
    BY <1>2, <1>3, <1>6, <1>7
  <2>2. ASSUME NEW m \in new
        PROVE  /\ m.turn = r.n /\ m.conversation = work[w] /\ m.id \in 1..lastId'
               /\ m.created_at >= old.began /\ m.created_at <= now'
               /\ m.role = "user" /\ r.n \notin overlapped => m.saw = Earlier(work[w], r.n)
    <3>1. CASE m = a
      BY <1>2, <1>3, <1>5, <1>9, <3>1
    <3>2. CASE m = q /\ q.created_at = old.began
      BY <1>3, <1>5, <1>7, <1>9, <1>13, <3>2
    <3> QED
      BY <1>6, <2>2, <3>1, <3>2
  <2> QED
    BY <2>1, <2>2
<1> HIDE DEF new
<1>19. /\ r.began >= old.began /\ r.began \in 1..now' /\ r.at # "off" /\ torn \subseteq torn'
       /\ now' \in Nat /\ now <= now' /\ lastId' \in Nat /\ lastId <= lastId'
  BY <1>3, <1>5, <1>9
<1> QED
  BY <1>1, <1>3, <1>4, <1>9, <1>12, <1>13, <1>15, <1>16, <1>17, <1>18, <1>19, WorkKeeps
  DEF old
-----------------------------------------------------------------------------
LEMMA OpensKeeps ==
  ASSUME TalkInv, NEW w \in Handlers, Opens(w), work[w] = None, work'[w] \in Conversations,
         \A v \in Handlers \ {w} : work'[v] = work[v], TranscriptTypeOK'
  PROVE  TalkInv'
<1> DEFINE n == opened + 1
           others == {turn[v].n : v \in {u \in Handlers : work[u] = work'[w]}}
<1>1. /\ now \in Nat /\ opened \in Nat /\ messages \subseteq Message /\ None \notin Conversations
      /\ \A v \in Handlers : turn[v] \in Turn /\ (On(v) <=> work[v] # None)
  BY ThreadsAssumption DEF TalkInv, TranscriptTypeOK, On, Conversations
<1>2. /\ now' = now + 1 /\ opened' = n /\ UNCHANGED <<messages, lastId, torn>>
      /\ overlapped \subseteq overlapped'
      /\ \A v \in Handlers \ {w} : On(v) /\ work[v] = work'[w] =>
           {turn[v].n, n} \subseteq overlapped'
  BY DEF Opens
<1>3. /\ turn'[w].at = "loading" /\ turn'[w].n = n /\ turn'[w].began = now'
      /\ turn'[w].pending = {}
  BY DEF Opens, Off, TalkInv, TranscriptTypeOK
<1>4. \A v \in Handlers \ {w} : turn'[v] = turn[v]
  BY DEF Opens, TalkInv, TranscriptTypeOK
<1>5. /\ ~On(w) /\ On(w)'
      /\ \A v \in Handlers \ {w} : On(v)' <=> On(v)
  BY <1>1, <1>3, <1>4 DEF On
<1>6. /\ \A v \in Handlers : On(v) => turn[v].n \in 1..opened /\ TurnGood(v)
      /\ \A m \in messages : m.turn \in 1..opened /\ m.created_at <= now
                             /\ m.created_at \in Nat /\ m.turn \in Nat
  BY <1>1 DEF TalkInv, TurnsGood, TurnGood, RowsGood, Message
<1> HIDE DEF n
<1>7. n \in Nat /\ \A i \in 1..opened : i \in 1..opened' /\ i # n /\ i < n
  BY <1>1, <1>2 DEF n
<1>8. TurnGood(w)'
  <2>1. OfTurn(turn[w].n)' = {}
    BY <1>2, <1>3, <1>6, <1>7 DEF OfTurn
  <2>2. n \in 1..opened' /\ now' \in 1..now'
    BY <1>1, <1>2, <1>7 DEF n
  <2> QED
    BY <1>3, <2>1, <2>2 DEF TurnGood
<1>9. ASSUME NEW v \in Handlers, v # w, On(v) PROVE TurnGood(v)'
  <2>1. TurnGood(v) /\ turn'[v] = turn[v] /\ OfTurn(turn[v].n)' = OfTurn(turn[v].n)
    BY <1>2, <1>4, <1>6, <1>9 DEF OfTurn
  <2>2. \A q : OwnQuestion(v, q) => OwnQuestion(v, q)'
    BY <1>2, <1>9, <2>1 DEF OwnQuestion
  <2>3. turn[v].n \in 1..opened' /\ turn[v].began \in 1..now'
    BY <1>1, <1>2, <1>7, <2>1 DEF TurnGood
  <2> QED
    BY <1>2, <1>9, <2>1, <2>2, <2>3 DEF TurnGood
<1>10. TurnsGood'
  <2>1. \A v, u \in Handlers : v # u /\ On(v) /\ On(u) =>
          /\ turn[v].n # turn[u].n
          /\ work[v] = work[u] => {turn[v].n, turn[u].n} \subseteq overlapped'
    BY <1>2 DEF TalkInv, TurnsGood
  <2>2. \A v \in Handlers \ {w} : On(v) =>
          /\ turn[v].n # n
          /\ work[v] = work'[w] => {turn[v].n, n} \subseteq overlapped'
    BY <1>2, <1>6, <1>7
  <2>3. ASSUME NEW v \in Handlers, NEW u \in Handlers, v # u, On(v)', On(u)'
        PROVE  /\ turn'[v].n # turn'[u].n
               /\ work'[v] = work'[u] => {turn'[v].n, turn'[u].n} \subseteq overlapped'
    <3>1. CASE v # w /\ u # w
      BY <1>4, <1>5, <2>1, <2>3, <3>1
    <3>2. CASE v # w /\ u = w
      BY <1>3, <1>4, <1>5, <2>2, <2>3, <3>2
    <3>3. CASE v = w /\ u # w
      BY <1>3, <1>4, <1>5, <2>2, <2>3, <3>3
    <3> QED
      BY <2>3, <3>1, <3>2, <3>3
  <2> QED
    BY <1>5, <1>8, <1>9, <2>3 DEF TurnsGood
<1>11. RowsGood'
  BY <1>1, <1>2, <1>6, <1>7 DEF TalkInv, RowsGood
<1>12. ExchangesGood' /\ NoHalfExchange'
  BY <1>2 DEF TalkInv, ExchangesGood, NoHalfExchange
<1>13. TurnsApart'
  BY <1>2 DEF TalkInv, TurnsApart
<1>14. RunsAfter'
  <2> SUFFICES ASSUME NEW v \in Handlers, NEW m \in messages, On(v)',
                      m.conversation = work'[v], m.turn # turn'[v].n
               PROVE  \/ {m.turn, turn'[v].n} \subseteq overlapped'
                      \/ m.turn < turn'[v].n /\ m.created_at < turn'[v].began
    BY <1>2 DEF RunsAfter
  <2>1. CASE v # w
    BY <1>2, <1>4, <1>5, <2>1 DEF TalkInv, RunsAfter
  <2>2. CASE v = w
    BY <1>1, <1>2, <1>3, <1>6, <1>7, <2>2
  <2> QED
    BY <2>1, <2>2
<1>15. PromptsGood'
  <2>1. \A c, i : Earlier(c, i)' = Earlier(c, i)
    BY <1>2 DEF Earlier
  <2>2. \A q \in messages' : q.role = "user" /\ q.turn \notin overlapped' =>
          q.saw = Earlier(q.conversation, q.turn)'
    BY <1>2, <2>1 DEF TalkInv, PromptsGood
  <2>3. ASSUME NEW v \in Handlers, On(v)', turn'[v].at # "loading", turn'[v].n \notin overlapped'
        PROVE  turn'[v].saw = Earlier(work'[v], turn'[v].n)
    BY <1>2, <1>3, <1>4, <1>5, <2>3 DEF TalkInv, PromptsGood
  <2> QED
    BY <1>2, <2>1, <2>2, <2>3 DEF PromptsGood, Earlier
<1> QED
  BY <1>10, <1>11, <1>12, <1>13, <1>14, <1>15 DEF TalkInv

LEMMA ClosesKeeps ==
  ASSUME TalkInv, NEW w \in Handlers, Closes(w), work'[w] = None,
         \A v \in Handlers \ {w} : work'[v] = work[v], TranscriptTypeOK'
  PROVE  TalkInv'
<1>1. UNCHANGED <<now, messages, lastId, opened, overlapped, torn>>
  BY DEF Closes, tables, turnHistory
<1>2. turn'[w].at = "off" /\ \A v \in Handlers \ {w} : turn'[v] = turn[v]
  BY DEF Closes, Off, TalkInv, TranscriptTypeOK
<1>3. ~On(w)' /\ \A v \in Handlers \ {w} : On(v)' <=> On(v)
  BY <1>2 DEF On
<1>4. ASSUME NEW v \in Handlers, v # w, On(v) PROVE TurnGood(v)'
  <2>1. TurnGood(v) /\ turn'[v] = turn[v] /\ OfTurn(turn[v].n)' = OfTurn(turn[v].n)
    BY <1>1, <1>2, <1>4 DEF OfTurn, TalkInv, TurnsGood
  <2>2. \A q : OwnQuestion(v, q) => OwnQuestion(v, q)'
    BY <1>1, <1>4, <2>1 DEF OwnQuestion
  <2> QED
    BY <1>1, <1>4, <2>1, <2>2 DEF TurnGood
<1>5. TurnsGood'
  BY <1>1, <1>2, <1>3, <1>4 DEF TalkInv, TurnsGood
<1>6. RowsGood' /\ ExchangesGood' /\ NoHalfExchange' /\ TurnsApart'
  BY <1>1 DEF TalkInv, RowsGood, ExchangesGood, NoHalfExchange, TurnsApart
<1>7. RunsAfter'
  BY <1>1, <1>2, <1>3 DEF TalkInv, RunsAfter
<1>8. PromptsGood'
  <2>1. \A c, i : Earlier(c, i)' = Earlier(c, i)
    BY <1>1 DEF Earlier
  <2> QED
    BY <1>1, <1>2, <1>3, <2>1 DEF TalkInv, PromptsGood, Earlier
<1> QED
  BY <1>5, <1>6, <1>7, <1>8 DEF TalkInv

LEMMA RestKeeps ==
  ASSUME TalkInv, UNCHANGED <<work, tables, turn, turnHistory>>, TranscriptTypeOK'
  PROVE  TalkInv'
<1>1. UNCHANGED <<work, now, messages, lastId, turn, opened, overlapped, torn>>
  BY DEF tables, turnHistory
<1>2. TurnsGood'
  BY <1>1 DEF TalkInv, TurnsGood, On, TurnGood, OfTurn, OwnQuestion
<1>3. RowsGood' /\ ExchangesGood' /\ NoHalfExchange' /\ TurnsApart'
  BY <1>1 DEF TalkInv, RowsGood, ExchangesGood, NoHalfExchange, TurnsApart
<1>4. RunsAfter' /\ PromptsGood'
  BY <1>1 DEF TalkInv, RunsAfter, PromptsGood, On, Earlier
<1> QED
  BY <1>2, <1>3, <1>4 DEF TalkInv
-----------------------------------------------------------------------------
\* The types across the operations of a call and of a text request.
LEMMA CallOpensTypes ==
  ASSUME TranscriptTypeOK, NEW b \in Bridges, CallOpens(b)
  PROVE  /\ TranscriptTypeOK' /\ UNCHANGED <<threadVars, tables, turn, turnHistory>>
         /\ work[b] = None /\ bridge'[b].conversation \in Known
         /\ \A a \in Bridges \ {b} : bridge'[a] = bridge[a]
<1>1. PICK c \in Known : ConnectCall(b, c) /\ UNCHANGED threadVars
  BY DEF CallOpens
<1>2. c \in Conversations \cup {None} /\ CallsTyped
  BY VoiceTypes DEF Known, TranscriptTypeOK
<1>3. /\ CallsTyped' /\ ~bridge[b].busy /\ bridge'[b].conversation = c
      /\ \A a \in Bridges \ {b} : bridge'[a] = bridge[a]
  BY <1>1, <1>2, ConnectTypes
<1>4. ThreadsTypeOK /\ \A a \in Bridges : work[a] # None => bridge[a].busy
  BY VoiceTypes DEF TranscriptTypeOK
<1>5. UNCHANGED <<status, work>>
  BY <1>1 DEF threadVars
<1>6. VoiceTypeOK'
  BY <1>3, <1>4, <1>5 DEF VoiceTypeOK, CallsTyped, ThreadsTypeOK
<1>7. UNCHANGED <<now, messages, lastId, turn, opened, overlapped, torn>>
  BY DEF CallOpens, tables, turnHistory
<1>8. spoken' \in [Bridges -> SUBSET Nat] /\ failed' \in [Bridges -> SUBSET Nat]
  BY DEF CallOpens, TranscriptTypeOK
<1>9. TranscriptTypeOK'
  BY <1>5, <1>6, <1>7, <1>8 DEF TranscriptTypeOK
<1> QED
  BY <1>1, <1>3, <1>4, <1>7, <1>9 DEF tables, turnHistory

LEMMA CallGoesOnTypes ==
  ASSUME TranscriptTypeOK, NEW b \in Bridges, CallGoesOn(b)
  PROVE  /\ TranscriptTypeOK'
         /\ UNCHANGED <<threadVars, tables, turn, turnHistory, spoken, failed>>
         /\ \A a \in Bridges : bridge'[a].conversation = bridge[a].conversation
<1>1. /\ HearFragment(b) \/ StopSpeaking(b) \/ FailBeforeTurn(b) \/ HangUp(b)
      /\ UNCHANGED <<tables, turn, turnHistory, spoken, failed>>
  BY DEF CallGoesOn
<1>2. CallsTyped /\ ThreadsTypeOK /\ \A a \in Bridges : work[a] # None => bridge[a].busy
  BY VoiceTypes DEF TranscriptTypeOK
<1>3. /\ CallsTyped' /\ UNCHANGED threadVars
      /\ \A a \in Bridges : /\ bridge'[a].conversation = bridge[a].conversation
                            /\ work[a] # None => bridge'[a].busy
  <2>1. CASE HearFragment(b) \/ StopSpeaking(b) \/ HangUp(b)
    BY <1>2, <2>1, TalkTypes
  <2>2. CASE FailBeforeTurn(b)
    <3>1. work[b] = None /\ UNCHANGED threadVars /\ ~Speak(b)
      BY <2>2 DEF FailBeforeTurn, Starting, Speak, EndTurn
    <3>2. /\ CallsTyped' /\ bridge'[b].conversation = bridge[b].conversation
          /\ \A a \in Bridges \ {b} : bridge'[a] = bridge[a]
      BY <1>2, <2>2, <3>1, EndTypes
    <3> QED
      BY <1>2, <3>1, <3>2
  <2> QED
    BY <1>1, <2>1, <2>2
<1>4. UNCHANGED <<status, work>>
  BY <1>3 DEF threadVars
<1>5. VoiceTypeOK'
  BY <1>2, <1>3, <1>4 DEF VoiceTypeOK, CallsTyped, ThreadsTypeOK
<1>6. TranscriptTypeOK'
  BY <1>1, <1>4, <1>5 DEF TranscriptTypeOK, tables, turnHistory
<1> QED
  BY <1>1, <1>3, <1>6

LEMMA OpensTypes ==
  ASSUME TranscriptTypeOK, NEW w \in Handlers, NEW c \in Conversations \cup {None},
         BeginTurn(w, c), Opens(w), w \in Bridges => bridge[w].busy, UNCHANGED <<bridge, heard>>,
         spoken' \in [Bridges -> SUBSET Nat], UNCHANGED failed
  PROVE  /\ TranscriptTypeOK'
         /\ work[w] = None /\ work'[w] \in Conversations /\ (Stored(c) => work'[w] = c)
         /\ \A v \in Handlers \ {w} : work'[v] = work[v] /\ turn'[v] = turn[v]
         /\ turn'[w].at = "loading" /\ turn'[w].n = opened'
         /\ \A d \in Conversations : Stored(d) => Stored(d)'
<1>1. ThreadsTypeOK /\ CallsTyped /\ \A a \in Bridges : work[a] # None => bridge[a].busy
  BY VoiceTypes DEF TranscriptTypeOK
<1>2. ThreadsTypeOK' /\ \A d \in Conversations : Stored(d) => Stored(d)'
  BY <1>1, ThreadsStep
<1>3. /\ work[w] = None /\ work'[w] \in Conversations /\ (Stored(c) => work'[w] = c)
      /\ \A v \in Handlers \ {w} : work'[v] = work[v]
  BY <1>1, WorkStep
<1>4. VoiceTypeOK'
  <2>1. \A a \in Bridges : work'[a] # None => bridge[a].busy
    BY <1>1, <1>3, VoiceAssumption
  <2> QED
    BY <1>1, <1>2, <2>1 DEF VoiceTypeOK, CallsTyped
<1>5. /\ now \in Nat /\ opened \in Nat /\ lastId \in Nat /\ messages \subseteq Message
      /\ overlapped \subseteq Nat /\ torn \subseteq Nat /\ failed \in [Bridges -> SUBSET Nat]
      /\ turn \in [Handlers -> Turn]
  BY DEF TranscriptTypeOK
<1> DEFINE n == opened + 1
           d == [Off EXCEPT !.at = "loading"]
           e == [d EXCEPT !.n = n]
           r == [e EXCEPT !.began = now + 1]
<1>6. /\ now' = now + 1 /\ opened' = n /\ UNCHANGED <<messages, lastId, torn>>
      /\ turn' = [turn EXCEPT ![w] = r]
      /\ overlapped' \subseteq overlapped \cup {n} \cup {turn[v].n : v \in Handlers}
  BY DEF Opens
<1>7. n \in Nat /\ now + 1 \in Nat
  BY <1>5
<1> HIDE DEF n
<1>8. Off \in Turn
  BY DEF Off, Turn
<1>9. d \in Turn /\ d.at = "loading"
  BY <1>8 DEF Turn
<1> HIDE DEF d
<1>10. e \in Turn /\ e.at = "loading" /\ e.n = n
  BY <1>7, <1>9 DEF Turn
<1> HIDE DEF e
<1>11. r \in Turn /\ r.at = "loading" /\ r.n = n
  BY <1>7, <1>10 DEF Turn
<1> HIDE DEF r
<1>12. /\ turn' \in [Handlers -> Turn] /\ turn'[w] = r
       /\ \A v \in Handlers \ {w} : turn'[v] = turn[v]
  BY <1>6, <1>11, TurnUpdate
<1>13. overlapped' \subseteq Nat
  <2>1. \A v \in Handlers : turn[v].n \in Nat
    BY <1>5 DEF Turn
  <2> QED
    BY <1>5, <1>6, <1>7, <2>1
<1>14. \A v \in Handlers : turn'[v].at = "off" <=> work'[v] = None
  <2>1. work'[w] # None
    BY <1>3, ThreadsAssumption DEF Conversations
  <2>2. \A v \in Handlers : turn[v].at = "off" <=> work[v] = None
    BY DEF TranscriptTypeOK
  <2> QED
    BY <1>3, <1>11, <1>12, <2>1, <2>2
<1>15. TranscriptTypeOK'
  BY <1>4, <1>5, <1>6, <1>7, <1>12, <1>13, <1>14 DEF TranscriptTypeOK
<1> QED
  BY <1>2, <1>3, <1>6, <1>11, <1>12, <1>15

LEMMA ClosesTypes ==
  ASSUME TranscriptTypeOK, NEW w \in Handlers, Closes(w), EndTurn(w) \/ FailTurn(w),
         CallsTyped', \A a \in Bridges \ {w} : bridge'[a] = bridge[a],
         UNCHANGED spoken, failed' \in [Bridges -> SUBSET Nat]
  PROVE  /\ TranscriptTypeOK'
         /\ work[w] \in Conversations /\ work'[w] = None /\ turn'[w].at = "off"
         /\ \A v \in Handlers \ {w} : work'[v] = work[v] /\ turn'[v] = turn[v]
         /\ \A d \in Conversations : Stored(d) => Stored(d)'
<1>1. ThreadsTypeOK /\ \A a \in Bridges : work[a] # None => bridge[a].busy
  BY VoiceTypes DEF TranscriptTypeOK
<1>2. ThreadsTypeOK' /\ \A d \in Conversations : Stored(d) => Stored(d)'
  BY <1>1, ThreadsStep
<1>3. /\ work[w] \in Conversations /\ work'[w] = None
      /\ \A v \in Handlers \ {w} : work'[v] = work[v]
  BY <1>1, WorkStep
<1>4. VoiceTypeOK'
  <2>1. \A a \in Bridges : work'[a] # None => bridge'[a].busy
    BY <1>1, <1>3, VoiceAssumption
  <2> QED
    BY <1>2, <2>1 DEF VoiceTypeOK, CallsTyped
<1>5. Off \in Turn /\ Off.at = "off"
  BY DEF Off, Turn
<1>6. /\ turn' \in [Handlers -> Turn] /\ turn'[w] = Off
      /\ \A v \in Handlers \ {w} : turn'[v] = turn[v]
  BY <1>5, TurnUpdate DEF Closes
<1>7. UNCHANGED <<now, messages, lastId, opened, overlapped, torn, spoken>>
  BY DEF Closes, tables, turnHistory
<1>8. \A v \in Handlers : turn'[v].at = "off" <=> work'[v] = None
  BY <1>3, <1>5, <1>6 DEF TranscriptTypeOK
<1>9. TranscriptTypeOK'
  BY <1>4, <1>6, <1>7, <1>8 DEF TranscriptTypeOK
<1> QED
  BY <1>2, <1>3, <1>5, <1>6, <1>9

LEMMA VoiceTurnOpensTypes ==
  ASSUME TranscriptTypeOK, NEW b \in Bridges, VoiceTurnOpens(b)
  PROVE  /\ TranscriptTypeOK' /\ UNCHANGED bridge
         /\ work[b] = None /\ work'[b] \in Conversations
         /\ Stored(bridge[b].conversation) => work'[b] = bridge[b].conversation
         /\ \A v \in Handlers \ {b} : work'[v] = work[v] /\ turn'[v] = turn[v]
         /\ turn'[b].at = "loading" /\ turn'[b].n = opened'
         /\ \A d \in Conversations : Stored(d) => Stored(d)'
<1>1. /\ BeginTurn(b, bridge[b].conversation) /\ bridge[b].busy /\ UNCHANGED <<bridge, heard>>
      /\ Opens(b) /\ UNCHANGED failed
  BY DEF VoiceTurnOpens, BeginVoiceTurn, Starting
<1>2. bridge[b].conversation \in Conversations \cup {None}
  BY VoiceTypes DEF TranscriptTypeOK, CallsTyped, Bridge
<1>3. spoken' \in [Bridges -> SUBSET Nat]
  <2>1. spoken \in [Bridges -> SUBSET Nat] /\ opened + 1 \in Nat
    BY DEF TranscriptTypeOK
  <2>2. spoken' = [spoken EXCEPT ![b] = spoken[b] \cup {opened + 1}]
    BY DEF VoiceTurnOpens
  <2> DEFINE n == opened + 1
  <2>3. spoken' = [spoken EXCEPT ![b] = spoken[b] \cup {n}] /\ n \in Nat
    BY <2>1, <2>2
  <2> HIDE DEF n
  <2> QED
    BY <2>1, <2>3
<1>4. b \in Handlers
  BY VoiceAssumption
<1> QED
  BY <1>1, <1>2, <1>3, <1>4, OpensTypes

LEMMA VoiceTurnClosesTypes ==
  ASSUME TranscriptTypeOK, NEW b \in Bridges, VoiceTurnReplies(b) \/ VoiceTurnFails(b)
  PROVE  /\ TranscriptTypeOK' /\ Closes(b)
         /\ work[b] \in Conversations /\ work'[b] = None /\ turn'[b].at = "off"
         /\ \A v \in Handlers \ {b} : work'[v] = work[v] /\ turn'[v] = turn[v]
         /\ \A d \in Conversations : Stored(d) => Stored(d)'
         /\ VoiceTurnReplies(b) => bridge'[b].conversation = work[b] /\ Stored(work[b])
         /\ VoiceTurnFails(b) => bridge'[b].conversation = bridge[b].conversation
         /\ \A a \in Bridges \ {b} : bridge'[a] = bridge[a]
<1>1. b \in Handlers /\ CallsTyped /\ ThreadsTypeOK
  BY VoiceAssumption, VoiceTypes DEF TranscriptTypeOK
<1>2. work[b] \in Conversations \cup {None}
  BY <1>1 DEF ThreadsTypeOK
<1>3. CASE VoiceTurnReplies(b)
  <2>1. Speak(b) /\ Closes(b) /\ EndTurn(b) /\ UNCHANGED <<spoken, failed>> /\ Stored(work[b])
    BY <1>3 DEF VoiceTurnReplies, Speak, EndTurn
  <2>2. /\ CallsTyped' /\ bridge'[b].conversation = work[b]
        /\ \A a \in Bridges \ {b} : bridge'[a] = bridge[a]
    BY <1>1, <1>2, <2>1, EndTypes
  <2>3. failed' \in [Bridges -> SUBSET Nat]
    BY <2>1 DEF TranscriptTypeOK
  <2>4. /\ TranscriptTypeOK' /\ work[b] \in Conversations /\ work'[b] = None
        /\ turn'[b].at = "off"
        /\ \A v \in Handlers \ {b} : work'[v] = work[v] /\ turn'[v] = turn[v]
        /\ \A d \in Conversations : Stored(d) => Stored(d)'
    BY <1>1, <2>1, <2>2, <2>3, ClosesTypes
  <2>5. ~VoiceTurnFails(b) \/ bridge[b].conversation = bridge'[b].conversation
    <3> SUFFICES ASSUME FailVoiceTurn(b) PROVE bridge[b].conversation = bridge'[b].conversation
      BY DEF VoiceTurnFails
    <3>1. FailVoiceTurn(b) /\ bridge' = [bridge EXCEPT ![b].busy = FALSE, ![b].text = <<>>]
      BY DEF FailVoiceTurn
    <3> QED
      BY <1>1, <3>1 DEF CallsTyped, Bridge
  <2> QED
    BY <2>1, <2>2, <2>4, <2>5
<1>4. CASE VoiceTurnFails(b) /\ ~VoiceTurnReplies(b)
  <2>1. FailVoiceTurn(b) /\ Closes(b) /\ FailTurn(b) /\ UNCHANGED spoken
    BY <1>4 DEF VoiceTurnFails, FailVoiceTurn
  <2>2. /\ CallsTyped' /\ bridge'[b].conversation = bridge[b].conversation
        /\ \A a \in Bridges \ {b} : bridge'[a] = bridge[a]
    <3>1. bridge' = [bridge EXCEPT ![b].busy = FALSE, ![b].text = <<>>]
      BY <2>1 DEF FailVoiceTurn
    <3>2. bridge'[b].conversation = bridge[b].conversation
      BY <1>1, <3>1 DEF CallsTyped, Bridge
    <3> QED
      BY <1>1, <1>2, <2>1, <3>2, EndTypes
  <2>3. failed' \in [Bridges -> SUBSET Nat]
    <3>1. failed \in [Bridges -> SUBSET Nat] /\ turn[b].n \in Nat
      BY <1>1 DEF TranscriptTypeOK, Turn
    <3>2. failed' = [failed EXCEPT ![b] = failed[b] \cup {turn[b].n}]
      BY <1>4 DEF VoiceTurnFails
    <3> QED
      BY <3>1, <3>2
  <2>4. /\ TranscriptTypeOK' /\ work[b] \in Conversations /\ work'[b] = None
        /\ turn'[b].at = "off"
        /\ \A v \in Handlers \ {b} : work'[v] = work[v] /\ turn'[v] = turn[v]
        /\ \A d \in Conversations : Stored(d) => Stored(d)'
    BY <1>1, <2>1, <2>2, <2>3, ClosesTypes
  <2> QED
    BY <1>4, <2>1, <2>2, <2>4
<1> QED
  BY <1>3, <1>4

LEMMA TextTurnTypes ==
  ASSUME TranscriptTypeOK, NEW w \in Handlers \ Bridges, TextTurn(w)
  PROVE  /\ TranscriptTypeOK' /\ UNCHANGED <<bridge, spoken, failed>>
         /\ \A v \in Handlers \ {w} : work'[v] = work[v] /\ turn'[v] = turn[v]
         /\ \A d \in Conversations : Stored(d) => Stored(d)'
         /\ \/ /\ Opens(w) /\ work[w] = None /\ work'[w] \in Conversations
               /\ turn'[w].n = opened'
            \/ Closes(w) /\ work'[w] = None /\ turn'[w].at = "off"
<1>1. UNCHANGED <<bridge, heard, spoken, failed>>
  BY DEF TextTurn
<1>2. spoken' \in [Bridges -> SUBSET Nat] /\ failed' \in [Bridges -> SUBSET Nat]
  BY <1>1 DEF TranscriptTypeOK
<1>3. CASE \E c \in Known : BeginTurn(w, c) /\ Opens(w)
  <2>1. PICK c \in Conversations \cup {None} : BeginTurn(w, c) /\ Opens(w)
    BY <1>3 DEF Known
  <2> QED
    BY <1>1, <1>2, <2>1, OpensTypes
<1>4. CASE (EndTurn(w) \/ FailTurn(w)) /\ Closes(w)
  <2>1. CallsTyped'
    BY <1>1, VoiceTypes DEF TranscriptTypeOK, CallsTyped
  <2> QED
    BY <1>1, <1>2, <1>4, <2>1, ClosesTypes
<1> QED
  BY <1>3, <1>4 DEF TextTurn

LEMMA TalkStep ==
  ASSUME TalkInv, [TranscriptNext]_transcriptVars
  PROVE  TalkInv'
<1>1. TranscriptTypeOK /\ Bridges \subseteq Handlers
  BY VoiceAssumption DEF TalkInv
<1>2. ASSUME NEW w \in Handlers, TurnWorks(w) PROVE TalkInv'
  BY <1>2, LoadHistoryKeeps, AskKeeps, CommitInToolKeeps, AnswerKeeps DEF TurnWorks
<1>3. ASSUME NEW b \in Bridges, CallOpens(b) PROVE TalkInv'
  <2>1. TranscriptTypeOK' /\ UNCHANGED <<threadVars, tables, turn, turnHistory>>
    BY <1>1, <1>3, CallOpensTypes
  <2> QED
    BY <2>1, RestKeeps DEF threadVars
<1>4. ASSUME NEW b \in Bridges, CallGoesOn(b) PROVE TalkInv'
  <2>1. TranscriptTypeOK' /\ UNCHANGED <<threadVars, tables, turn, turnHistory>>
    BY <1>1, <1>4, CallGoesOnTypes
  <2> QED
    BY <2>1, RestKeeps DEF threadVars
<1>5. ASSUME NEW b \in Bridges, VoiceTurnOpens(b) PROVE TalkInv'
  <2>1. Opens(b)
    BY <1>5 DEF VoiceTurnOpens
  <2>2. /\ TranscriptTypeOK' /\ work[b] = None /\ work'[b] \in Conversations
        /\ \A v \in Handlers \ {b} : work'[v] = work[v]
    BY <1>1, <1>5, VoiceTurnOpensTypes
  <2> QED
    BY <1>1, <2>1, <2>2, OpensKeeps
<1>6. ASSUME NEW b \in Bridges, VoiceTurnReplies(b) \/ VoiceTurnFails(b) PROVE TalkInv'
  <2>1. /\ TranscriptTypeOK' /\ Closes(b) /\ work'[b] = None
        /\ \A v \in Handlers \ {b} : work'[v] = work[v]
    BY <1>1, <1>6, VoiceTurnClosesTypes
  <2> QED
    BY <1>1, <2>1, ClosesKeeps
<1>7. ASSUME NEW w \in Handlers \ Bridges, TextTurn(w) PROVE TalkInv'
  <2>1. /\ TranscriptTypeOK' /\ \A v \in Handlers \ {w} : work'[v] = work[v]
        /\ \/ Opens(w) /\ work[w] = None /\ work'[w] \in Conversations
           \/ Closes(w) /\ work'[w] = None
    BY <1>1, <1>7, TextTurnTypes
  <2> QED
    BY <2>1, OpensKeeps, ClosesKeeps
<1>8. CASE UNCHANGED transcriptVars
  <2>1. TranscriptTypeOK' /\ UNCHANGED <<work, tables, turn, turnHistory>>
    <3>1. VoiceTypeOK'
      BY <1>1, <1>8 DEF TranscriptTypeOK, VoiceTypeOK, ThreadsTypeOK, transcriptVars, voiceVars,
        threadVars
    <3> QED
      BY <1>1, <1>8, <3>1
      DEF TranscriptTypeOK, transcriptVars, voiceVars, threadVars, tables, turnHistory
  <2> QED
    BY <2>1, RestKeeps
<1> QED
  BY <1>1, <1>2, <1>3, <1>4, <1>5, <1>6, <1>7, <1>8 DEF TranscriptNext, VoiceProgress

LEMMA TalkInit == ASSUME TranscriptInit PROVE TalkInv
<1>1. /\ now = 0 /\ messages = {} /\ lastId = 0 /\ turn = [w \in Handlers |-> Off]
      /\ opened = 0 /\ overlapped = {} /\ torn = {}
      /\ spoken = [b \in Bridges |-> {}] /\ failed = [b \in Bridges |-> {}]
      /\ status = [c \in Conversations |-> "unused"] /\ work = [w \in Handlers |-> None]
      /\ bridge = [b \in Bridges |-> HungUp] /\ heard = [b \in Bridges |-> <<>>]
  BY DEF TranscriptInit, VoiceInit, ThreadsInit
<1>2. VoiceTypeOK
  <2>1. <<>> \in Seq(Nat)
    OBVIOUS
  <2>2. HungUp \in Bridge /\ HungUp.busy = FALSE /\ HungUp.text = <<>>
    BY <2>1 DEF HungUp, Bridge
  <2> QED
    BY <1>1, <2>1, <2>2, VoiceAssumption DEF VoiceTypeOK, ThreadsTypeOK, Statuses
<1>3. Off \in Turn /\ Off.at = "off"
  BY DEF Off, Turn
<1>4. TranscriptTypeOK
  BY <1>1, <1>2, <1>3 DEF TranscriptTypeOK
<1>5. \A w \in Handlers : ~On(w)
  BY <1>1, <1>3 DEF On
<1>6. TurnsGood /\ RunsAfter /\ PromptsGood
  BY <1>1, <1>5 DEF TurnsGood, RunsAfter, PromptsGood
<1>7. RowsGood /\ ExchangesGood /\ TurnsApart /\ NoHalfExchange
  BY <1>1 DEF RowsGood, ExchangesGood, TurnsApart, NoHalfExchange
<1> QED
  BY <1>4, <1>6, <1>7 DEF TalkInv

LEMMA Talk == TranscriptSpec => []TalkInv
BY TalkInit, TalkStep, PTL DEF TranscriptSpec

\* The clock, the rows of messages and the turns of all handlers keep their types, and
\* a handler runs a turn exactly while it has a conversation.
THEOREM TranscriptTypes == TranscriptSpec => []TranscriptTypeOK
<1>1. TalkInv => TranscriptTypeOK
  BY DEF TalkInv
<1> QED
  BY <1>1, Talk, PTL

\* A turn is stored whole or not at all; only a commit in a tool (a refund, a ticket)
\* can leave a question without its answer.
THEOREM ExchangesAreWhole == TranscriptSpec => []NoHalfExchange
<1>1. TalkInv => NoHalfExchange
  BY DEF TalkInv
<1> QED
  BY <1>1, Talk, PTL

\* For any number of calls and tabs: in the order conversation_messages reads, an answer
\* comes after its question, and right after it unless turns of the conversation ran at
\* the same time.
THEOREM AnswersFollow == TranscriptSpec => []AnswerFollowsQuestion
<1>1. TalkInv => AnswerFollowsQuestion
  <2> SUFFICES ASSUME TalkInv, NEW q \in messages, NEW a \in messages, q.turn = a.turn,
                      q.role = "user", a.role = "assistant"
               PROVE  /\ Before(q, a)
                      /\ q.turn \notin overlapped =>
                           ~\E m \in messages : SameThread(m, q) /\ Before(q, m) /\ Before(m, a)
    BY DEF AnswerFollowsQuestion
  <2>1. Before(q, a) /\ SameThread(q, a)
    BY DEF TalkInv, ExchangesGood
  <2>2. ASSUME q.turn \notin overlapped, NEW m \in messages, SameThread(m, q),
               Before(q, m), Before(m, a)
        PROVE  FALSE
    <3>1. /\ q \in Message /\ a \in Message /\ m \in Message
      BY DEF TalkInv, TranscriptTypeOK
    <3>2. /\ q.turn \in Nat /\ m.turn \in Nat /\ m.role \in {"user", "assistant"}
          /\ \A k \in {q, a, m} : k.id \in Nat /\ k.created_at \in Nat
      BY <3>1 DEF Message
    <3>3. CASE m.turn = q.turn
      <4>1. m = q \/ m = a
        BY <3>2, <3>3 DEF TalkInv, ExchangesGood
      <4> QED
        BY <2>2, <3>2, <4>1 DEF Before
    <3>4. CASE m.turn < q.turn
      <4>1. m.created_at < q.created_at
        BY <2>2, <3>4 DEF TalkInv, TurnsApart
      <4> QED
        BY <2>2, <3>2, <4>1 DEF Before
    <3>5. CASE q.turn < m.turn
      <4>1. a.created_at < m.created_at
        BY <2>1, <2>2, <3>5 DEF TalkInv, TurnsApart, SameThread
      <4> QED
        BY <2>2, <3>2, <4>1 DEF Before
    <3> QED
      BY <3>2, <3>3, <3>4, <3>5
  <2> QED
    BY <2>1, <2>2
<1> QED
  BY <1>1, Talk, PTL

\* What the model was shown with a question is exactly what is read above it later,
\* unless turns of the conversation ran at the same time.
THEOREM PromptsPrecede == TranscriptSpec => []PromptIsWhatPrecedes
<1>1. TalkInv => PromptIsWhatPrecedes
  <2> SUFFICES ASSUME TalkInv, NEW q \in messages, q.role = "user", q.turn \notin overlapped
               PROVE  q.saw = {m.id : m \in {k \in messages : SameThread(k, q) /\ Before(k, q)}}
    BY DEF PromptIsWhatPrecedes
  <2>1. ASSUME NEW k \in messages, SameThread(k, q)
        PROVE  k.turn < q.turn <=> Before(k, q)
    <3>1. q \in Message /\ k \in Message
      BY DEF TalkInv, TranscriptTypeOK
    <3>2. /\ q.turn \in Nat /\ k.turn \in Nat /\ k.role \in {"user", "assistant"}
          /\ q.id \in Nat /\ k.id \in Nat /\ q.created_at \in Nat /\ k.created_at \in Nat
      BY <3>1 DEF Message
    <3>3. CASE k.turn = q.turn
      <4>1. k = q \/ Before(q, k)
        BY <3>2, <3>3 DEF TalkInv, ExchangesGood
      <4> QED
        BY <3>2, <3>3, <4>1 DEF Before
    <3>4. CASE k.turn < q.turn
      <4>1. k.created_at < q.created_at
        BY <2>1, <3>4 DEF TalkInv, TurnsApart
      <4> QED
        BY <3>4, <4>1 DEF Before
    <3>5. CASE q.turn < k.turn
      <4>1. q.created_at < k.created_at
        BY <2>1, <3>5 DEF TalkInv, TurnsApart, SameThread
      <4> QED
        BY <3>2, <3>5, <4>1 DEF Before
    <3> QED
      BY <3>2, <3>3, <3>4, <3>5
  <2>2. q.saw = {m.id : m \in {k \in messages : k.conversation = q.conversation /\ k.turn < q.turn}}
    BY DEF TalkInv, PromptsGood, Earlier
  <2>3. {k \in messages : k.conversation = q.conversation /\ k.turn < q.turn} =
          {k \in messages : SameThread(k, q) /\ Before(k, q)}
    BY <2>1 DEF SameThread
  <2> QED
    BY <2>2, <2>3
<1> QED
  BY <1>1, Talk, PTL
-----------------------------------------------------------------------------
\* What others do to the call of b: they store messages of their own turns.
LEMMA OthersKeep ==
  ASSUME NEW b \in Bridges, CallGood(b), TalkInv, TalkInv',
         UNCHANGED <<spoken[b], failed[b], turn[b], work[b]>>,
         bridge'[b].conversation = bridge[b].conversation,
         \A c \in Conversations : Stored(c) => Stored(c)', opened <= opened',
         messages \subseteq messages', \A m \in messages' \ messages : m.turn \notin spoken[b],
         \A w \in Handlers \ {b} : On(w)' => turn'[w].n \notin spoken[b]
  PROVE  CallGood(b)'
<1>1. On(b)' <=> On(b)
  BY DEF On
<1>2. Said(b)' = Said(b) /\ (Escaped(b)' <=> Escaped(b))
  BY DEF Said, Escaped
<1>3. spoken'[b] \subseteq 1..opened'
  <2>1. opened \in Nat /\ opened' \in Nat
    BY DEF TalkInv, TranscriptTypeOK
  <2> QED
    BY <2>1 DEF CallGood
<1>4. bridge[b].conversation # None =>
        Stored(bridge[b].conversation)' /\ (On(b) => work[b] = bridge[b].conversation)
  <2>1. bridge[b].conversation \in Conversations \cup {None}
    BY VoiceTypes DEF TalkInv, TranscriptTypeOK, CallsTyped, Bridge
  <2> QED
    BY <2>1 DEF CallGood, Stored
<1>5. ASSUME NEW a \in messages', Given(b, a)'
      PROVE  /\ a.conversation = bridge[b].conversation
             /\ On(b) /\ turn[b].at # "loading" => a.id \in turn[b].saw
  <2>1. a \in messages /\ Given(b, a)
    BY <1>1, <1>5 DEF Given
  <2> QED
    BY <2>1 DEF CallGood
<1>6. \A q, a \in messages' :
        (/\ {q.turn, a.turn} \subseteq spoken[b] /\ a.turn < q.turn
         /\ q.role = "user" /\ a.role = "assistant" /\ a.turn \notin failed[b])
        => a.id \in q.saw
  BY DEF CallGood
<1>7. \/ Escaped(b)
      \/ \A m \in Said(b) :
           /\ On(b) => m.conversation = work[b]
           /\ ~On(b) => m.conversation = bridge[b].conversation
           /\ bridge[b].conversation = None => On(b) /\ m.turn = turn[b].n
  BY DEF CallGood
<1>8. /\ failed[b] \subseteq spoken[b]
      /\ On(b) => turn[b].n \in spoken[b] \ failed[b] /\ \A n \in spoken[b] : n <= turn[b].n
  BY DEF CallGood
<1> QED
  BY <1>1, <1>2, <1>3, <1>4, <1>5, <1>6, <1>7, <1>8 DEF CallGood

\* A step of the turn the call of b runs, with its new messages.
LEMMA OwnTurnKeeps ==
  ASSUME NEW b \in Bridges, CallGood(b), TalkInv, TalkInv', On(b), On(b)',
         UNCHANGED <<opened, spoken, failed, bridge, work>>, turn'[b].n = turn[b].n,
         \A w \in Handlers \ {b} : turn'[w] = turn[w],
         \A c \in Conversations : Stored(c) => Stored(c)', messages \subseteq messages',
         \A m \in messages' \ messages : /\ m.turn = turn[b].n /\ m.conversation = work[b]
                                         /\ turn[b].at # "loading" /\ m.saw = turn[b].saw,
         turn'[b].at # "loading" => \A a \in messages : Given(b, a) => a.id \in turn'[b].saw
  PROVE  CallGood(b)'
<1>1. /\ spoken[b] \subseteq 1..opened' /\ failed[b] \subseteq spoken[b]
      /\ turn'[b].n \in spoken[b] \ failed[b] /\ \A n \in spoken[b] : n <= turn'[b].n
      /\ \A n \in spoken[b] : n \in Nat
  BY DEF CallGood, TalkInv, TranscriptTypeOK
<1>2. \A w \in Handlers \ {b} : On(w)' => turn'[w].n \notin spoken[b]
  BY DEF CallGood, On
<1>3. bridge[b].conversation # None =>
        Stored(bridge[b].conversation)' /\ work[b] = bridge[b].conversation
  <2>1. bridge[b].conversation \in Conversations \cup {None}
    BY VoiceTypes DEF TalkInv, TranscriptTypeOK, CallsTyped, Bridge
  <2> QED
    BY <2>1 DEF CallGood, Stored
<1>4. \/ Escaped(b)'
      \/ \A m \in Said(b)' :
           /\ m.conversation = work[b]
           /\ bridge[b].conversation = None => m.turn = turn[b].n
  <2>1. CASE Escaped(b)
    BY <2>1 DEF Escaped, Said
  <2>2. CASE ~Escaped(b)
    <3>1. \A m \in messages : m.turn \in spoken[b] =>
            /\ m.conversation = work[b]
            /\ bridge[b].conversation = None => m.turn = turn[b].n
      BY <2>2 DEF CallGood, Said
    <3> QED
      BY <3>1 DEF Said
  <2> QED
    BY <2>1, <2>2
<1>5. ASSUME NEW a \in messages', Given(b, a)'
      PROVE  a \in messages /\ Given(b, a) /\ a.conversation = bridge[b].conversation
  <2>1. a \in messages /\ Given(b, a)
    BY <1>5 DEF Given
  <2> QED
    BY <2>1 DEF CallGood
<1>6. ASSUME NEW q \in messages', NEW a \in messages', {q.turn, a.turn} \subseteq spoken[b],
             a.turn < q.turn, q.role = "user", a.role = "assistant", a.turn \notin failed[b]
      PROVE  a.id \in q.saw
  <2>1. q.turn <= turn[b].n /\ q.turn \in Nat /\ a.turn \in Nat /\ turn[b].n \in Nat
    BY <1>1, <1>6
  <2>2. a.turn # turn[b].n
    BY <1>6, <2>1
  <2>3. a \in messages /\ Given(b, a)
    BY <1>6, <2>2 DEF Given
  <2>4. CASE q \in messages
    BY <1>6, <2>3, <2>4 DEF CallGood
  <2>5. CASE q \notin messages
    BY <2>3, <2>5 DEF CallGood
  <2> QED
    BY <2>4, <2>5
<1> QED
  BY <1>1, <1>2, <1>3, <1>4, <1>5, <1>6 DEF CallGood

LEMMA TurnWorksOn ==
  ASSUME TalkInv, NEW w \in Handlers, TurnWorks(w)
  PROVE  /\ On(w) /\ On(w)' /\ turn'[w].n = turn[w].n /\ turn'[w].at # "loading"
         /\ UNCHANGED <<opened, spoken, failed, bridge, work>>
         /\ \A v \in Handlers \ {w} : turn'[v] = turn[v]
         /\ \A c \in Conversations : Stored(c) => Stored(c)'
         /\ messages \subseteq messages'
         /\ \A m \in messages' \ messages : /\ m.turn = turn[w].n /\ m.conversation = work[w]
                                            /\ turn[w].at # "loading" /\ m.saw = turn[w].saw
         /\ turn[w].at # "loading" => turn'[w].saw = turn[w].saw
         /\ turn[w].at = "loading" =>
              turn'[w].saw = {m.id : m \in {k \in messages : k.conversation = work[w]}}
<1>1. turn \in [Handlers -> Turn] /\ ThreadsTypeOK
  BY DEF TalkInv, TranscriptTypeOK, VoiceTypeOK
<1>2. /\ UNCHANGED <<opened, spoken, failed>>
      /\ Commits(w) \/ UNCHANGED voiceVars
  BY DEF TurnWorks, LoadHistory, Ask, CommitInTool, Answer, turnHistory
<1>3. UNCHANGED <<work, bridge>> /\ (Keep(w) \/ UNCHANGED threadVars)
  BY <1>2 DEF Commits, voiceVars, threadVars, Keep
<1>4. \A c \in Conversations : Stored(c) => Stored(c)'
  BY <1>1, <1>3, ThreadsStep
<1>5. /\ turn[w].at \in {"loading", "thinking", "asked"}
      /\ turn'[w].at \in {"thinking", "asked", "answered"} /\ turn'[w].n = turn[w].n
      /\ \A v \in Handlers \ {w} : turn'[v] = turn[v]
  BY <1>1 DEF TurnWorks, LoadHistory, Ask, CommitInTool, Answer, Turn
<1>6. On(w) /\ On(w)' /\ TurnGood(w)
  BY <1>5 DEF On, TalkInv, TurnsGood
<1>7. CASE LoadHistory(w)
  <2>1. turn[w].at = "loading" /\ messages' = messages
    BY <1>7 DEF LoadHistory, tables
  <2> DEFINE saw == {m.id : m \in {k \in messages : k.conversation = work[w]}}
  <2>2. turn' = [turn EXCEPT ![w].at = "thinking", ![w].saw = saw]
    BY <1>7 DEF LoadHistory
  <2> HIDE DEF saw
  <2>3. turn'[w].saw = saw
    BY <1>1, <2>2 DEF Turn
  <2> QED
    BY <1>2, <1>3, <1>4, <1>5, <1>6, <2>1, <2>3 DEF saw
<1>8. CASE Ask(w)
  <2>1. turn[w].at = "thinking" /\ messages' = messages /\ turn'[w].saw = turn[w].saw
    BY <1>1, <1>8 DEF Ask, Turn
  <2> QED
    BY <1>2, <1>3, <1>4, <1>5, <1>6, <2>1
<1>9. CASE CommitInTool(w) \/ Answer(w)
  <2>1. turn[w].at = "asked" /\ turn'[w].saw = turn[w].saw
    BY <1>1, <1>9 DEF CommitInTool, Answer, Turn
  <2> DEFINE a == Row(w, "assistant")
  <2>2. \A m \in turn[w].pending \cup {a} :
          m.turn = turn[w].n /\ m.conversation = work[w] /\ m.saw = turn[w].saw
    <3>1. \A m \in turn[w].pending : OwnQuestion(w, m)
      BY <1>6, <2>1 DEF TurnGood
    <3>2. a.turn = turn[w].n /\ a.conversation = work[w] /\ a.saw = turn[w].saw
      BY <1>6, RowIs DEF TalkInv
    <3> HIDE DEF a
    <3> QED
      BY <3>1, <3>2 DEF OwnQuestion
  <2>3. messages \subseteq messages' /\ messages' \subseteq messages \cup turn[w].pending \cup {a}
    BY <1>9 DEF CommitInTool, Answer
  <2> HIDE DEF a
  <2> QED
    BY <1>2, <1>3, <1>4, <1>5, <1>6, <2>1, <2>2, <2>3
<1> QED
  BY <1>7, <1>8, <1>9 DEF TurnWorks

LEMMA CallWorks ==
  ASSUME TalkInv, TalkInv', CallInv, NEW w \in Handlers, TurnWorks(w)
  PROVE  CallInv'
<1>1. /\ On(w) /\ On(w)' /\ turn'[w].n = turn[w].n /\ turn'[w].at # "loading"
      /\ UNCHANGED <<opened, spoken, failed, bridge, work>>
      /\ \A v \in Handlers \ {w} : turn'[v] = turn[v]
      /\ \A c \in Conversations : Stored(c) => Stored(c)'
      /\ messages \subseteq messages'
      /\ \A m \in messages' \ messages : /\ m.turn = turn[w].n /\ m.conversation = work[w]
                                         /\ turn[w].at # "loading" /\ m.saw = turn[w].saw
  BY TurnWorksOn
<1>2. ASSUME NEW b \in Bridges, b # w PROVE CallGood(b)'
  <2>1. CallGood(b) /\ b \in Handlers
    BY VoiceAssumption DEF CallInv
  <2>2. turn[w].n \notin spoken[b]
    BY <1>1, <1>2, <2>1 DEF CallGood
  <2>3. \A v \in Handlers \ {b} : On(v)' => turn'[v].n \notin spoken[b]
    BY <1>1, <2>1, <2>2 DEF CallGood, On
  <2>4. opened <= opened' /\ turn'[b] = turn[b]
    BY <1>1, <1>2, <2>1 DEF TalkInv, TranscriptTypeOK
  <2>5. \A m \in messages' \ messages : m.turn \notin spoken[b]
    BY <1>1, <2>2
  <2> QED
    BY <1>1, <2>1, <2>3, <2>4, <2>5, OthersKeep
<1>3. ASSUME w \in Bridges PROVE CallGood(w)'
  <2>1. CallGood(w)
    BY <1>3 DEF CallInv
  <2>2. ASSUME NEW a \in messages, Given(w, a) PROVE a.id \in turn'[w].saw
    <3>1. /\ a.conversation = bridge[w].conversation
          /\ turn[w].at # "loading" => a.id \in turn[w].saw
      BY <1>1, <2>1, <2>2 DEF CallGood
    <3>2. a.conversation \in Conversations
      BY DEF TalkInv, TranscriptTypeOK, Message
    <3>3. a.conversation = work[w]
      BY <1>1, <2>1, <3>1, <3>2, ThreadsAssumption DEF CallGood, Conversations
    <3> QED
      BY <3>1, <3>3, TurnWorksOn
  <2> QED
    BY <1>1, <1>3, <2>1, <2>2, OwnTurnKeeps
<1> QED
  BY <1>2, <1>3 DEF CallInv

LEMMA CallBegins ==
  ASSUME TalkInv, TalkInv', CallInv, NEW a \in Bridges, CallOpens(a)
  PROVE  CallInv'
<1>1. /\ UNCHANGED <<threadVars, tables, turn, turnHistory>> /\ work[a] = None
      /\ bridge'[a].conversation \in Known /\ \A b \in Bridges \ {a} : bridge'[b] = bridge[b]
  BY CallOpensTypes DEF TalkInv
<1>2. UNCHANGED <<status, work, turn, messages, opened>>
  BY <1>1 DEF threadVars, tables, turnHistory
<1>3. /\ spoken'[a] = {} /\ failed'[a] = {}
      /\ \A b \in Bridges \ {a} : spoken'[b] = spoken[b] /\ failed'[b] = failed[b]
  BY DEF CallOpens, TalkInv, TranscriptTypeOK
<1>4. ~On(a) /\ ~On(a)'
  BY <1>1, <1>2, VoiceAssumption DEF On, TalkInv, TranscriptTypeOK
<1>5. CallGood(a)'
  <2>1. bridge'[a].conversation # None => Stored(bridge'[a].conversation)
    BY <1>1 DEF Known
  <2>2. bridge'[a].conversation # None => Stored(bridge[a].conversation)'
    BY <1>2, <2>1 DEF Stored
  <2>3. Said(a)' = {} /\ \A m : ~Given(a, m)'
    BY <1>3 DEF Said, Given
  <2> QED
    BY <1>3, <1>4, <2>2, <2>3 DEF CallGood
<1>6. ASSUME NEW b \in Bridges, b # a PROVE CallGood(b)'
  <2>1. CallGood(b)
    BY DEF CallInv
  <2>2. /\ \A c \in Conversations : Stored(c) => Stored(c)'
        /\ \A w \in Handlers \ {b} : On(w)' => turn'[w].n \notin spoken[b]
    BY <1>2, <2>1 DEF Stored, CallGood, On
  <2>3. opened <= opened' /\ messages \subseteq messages' /\ messages' \ messages = {}
    BY <1>2 DEF TalkInv, TranscriptTypeOK
  <2> QED
    BY <1>1, <1>2, <1>3, <1>6, <2>1, <2>2, <2>3, OthersKeep
<1> QED
  BY <1>5, <1>6 DEF CallInv

\* Steps that leave the messages and every turn of the call alone.
LEMMA CallRests ==
  ASSUME TalkInv, TalkInv', NEW b \in Bridges, CallGood(b),
         UNCHANGED <<messages, spoken[b], failed[b], turn[b], work[b]>>, opened <= opened',
         bridge'[b].conversation = bridge[b].conversation,
         \A c \in Conversations : Stored(c) => Stored(c)',
         \A w \in Handlers \ {b} : On(w)' => turn'[w].n \notin spoken[b]
  PROVE  CallGood(b)'
<1>1. messages \subseteq messages' /\ \A m \in messages' \ messages : m.turn \notin spoken[b]
  OBVIOUS
<1> QED
  BY <1>1, OthersKeep

LEMMA CallAsks ==
  ASSUME TalkInv, TalkInv', CallInv, NEW a \in Bridges, VoiceTurnOpens(a)
  PROVE  CallInv'
<1>1. /\ UNCHANGED bridge /\ work[a] = None /\ work'[a] \in Conversations
      /\ Stored(bridge[a].conversation) => work'[a] = bridge[a].conversation
      /\ \A v \in Handlers \ {a} : work'[v] = work[v] /\ turn'[v] = turn[v]
      /\ turn'[a].at = "loading" /\ turn'[a].n = opened'
      /\ \A c \in Conversations : Stored(c) => Stored(c)'
  BY VoiceTurnOpensTypes DEF TalkInv
<1>2. /\ opened \in Nat /\ opened' = opened + 1 /\ UNCHANGED <<messages, failed>>
      /\ spoken' = [spoken EXCEPT ![a] = spoken[a] \cup {opened'}]
  BY DEF VoiceTurnOpens, Opens, TalkInv, TranscriptTypeOK
<1>3. /\ spoken'[a] = spoken[a] \cup {opened'}
      /\ \A b \in Bridges \ {a} : spoken'[b] = spoken[b]
  BY <1>2 DEF TalkInv, TranscriptTypeOK
<1>4. /\ ~On(a) /\ On(a)' /\ a \in Handlers
      /\ \A v \in Handlers \ {a} : On(v)' <=> On(v)
  BY <1>1, VoiceAssumption DEF On, TalkInv, TranscriptTypeOK
<1>5. \A i \in 1..opened : i \in 1..opened' /\ i # opened' /\ i <= opened'
  BY <1>2
<1>6. \A m \in messages : m.turn \in 1..opened /\ m.conversation \in Conversations
  BY DEF TalkInv, RowsGood, TranscriptTypeOK, Message
<1>7. CallGood(a)'
  <2>1. CallGood(a)
    BY DEF CallInv
  <2>2. /\ spoken'[a] \subseteq 1..opened' /\ failed'[a] \subseteq spoken'[a]
        /\ turn'[a].n \in spoken'[a] \ failed'[a] /\ \A n \in spoken'[a] : n <= turn'[a].n
    BY <1>1, <1>2, <1>3, <1>5, <2>1 DEF CallGood
  <2>3. \A w \in Handlers \ {a} : On(w)' => turn'[w].n \notin spoken'[a]
    <3>1. \A w \in Handlers \ {a} : On(w) => turn[w].n \in 1..opened
      BY DEF TalkInv, TurnsGood, TurnGood
    <3> QED
      BY <1>1, <1>3, <1>4, <1>5, <2>1, <3>1 DEF CallGood
  <2>4. bridge'[a].conversation # None =>
          Stored(bridge[a].conversation)' /\ work'[a] = bridge[a].conversation
    <3>1. bridge[a].conversation \in Conversations \cup {None}
      BY VoiceTypes DEF TalkInv, TranscriptTypeOK, CallsTyped, Bridge
    <3> QED
      BY <1>1, <2>1, <3>1 DEF CallGood, Stored
  <2>5. Said(a)' = Said(a) /\ (Escaped(a)' <=> Escaped(a))
    BY <1>2, <1>3, <1>5, <1>6 DEF Said, Escaped
  <2>6. Escaped(a) \/ \A m \in Said(a) : /\ m.conversation = work'[a]
                                         /\ bridge[a].conversation # None
    BY <1>1, <1>4, <2>1, <2>4 DEF CallGood
  <2>7. ASSUME NEW m \in messages', Given(a, m)'
        PROVE  m.conversation = bridge[a].conversation
    <3>1. m \in messages /\ Given(a, m)
      BY <1>1, <1>2, <1>3, <1>4, <2>7 DEF Given
    <3> QED
      BY <2>1, <3>1 DEF CallGood
  <2>8. \A q, m \in messages' :
          (/\ {q.turn, m.turn} \subseteq spoken'[a] /\ m.turn < q.turn
           /\ q.role = "user" /\ m.role = "assistant" /\ m.turn \notin failed'[a])
          => m.id \in q.saw
    BY <1>2, <1>3, <1>5, <1>6, <2>1 DEF CallGood
  <2> QED
    BY <1>1, <1>4, <2>2, <2>3, <2>4, <2>5, <2>6, <2>7, <2>8 DEF CallGood
<1>8. ASSUME NEW b \in Bridges, b # a PROVE CallGood(b)'
  <2>1. CallGood(b) /\ b \in Handlers
    BY VoiceAssumption DEF CallInv
  <2>2. \A w \in Handlers \ {b} : On(w)' => turn'[w].n \notin spoken[b]
    BY <1>1, <1>4, <1>5, <2>1 DEF CallGood
  <2>3. UNCHANGED <<messages, spoken[b], failed[b], turn[b], work[b]>> /\ opened <= opened'
    BY <1>1, <1>2, <1>3, <1>8, <2>1
  <2> QED
    BY <1>1, <2>1, <2>2, <2>3, CallRests
<1> QED
  BY <1>7, <1>8 DEF CallInv

LEMMA CallTurnEnds ==
  ASSUME TalkInv, TalkInv', CallInv, NEW a \in Bridges, VoiceTurnReplies(a) \/ VoiceTurnFails(a)
  PROVE  CallInv'
<1>1. /\ Closes(a) /\ work[a] \in Conversations /\ work'[a] = None /\ turn'[a].at = "off"
      /\ \A v \in Handlers \ {a} : work'[v] = work[v] /\ turn'[v] = turn[v]
      /\ \A c \in Conversations : Stored(c) => Stored(c)'
      /\ VoiceTurnReplies(a) => bridge'[a].conversation = work[a] /\ Stored(work[a])
      /\ VoiceTurnFails(a) => bridge'[a].conversation = bridge[a].conversation
      /\ \A b \in Bridges \ {a} : bridge'[b] = bridge[b]
  BY VoiceTurnClosesTypes DEF TalkInv
<1>2. /\ UNCHANGED <<messages, opened, spoken>> /\ opened \in Nat
      /\ VoiceTurnReplies(a) => UNCHANGED failed /\ turn[a].at = "answered"
      /\ VoiceTurnFails(a) => failed' = [failed EXCEPT ![a] = failed[a] \cup {turn[a].n}]
  BY <1>1 DEF Closes, tables, turnHistory, VoiceTurnReplies, VoiceTurnFails, TalkInv,
    TranscriptTypeOK
<1>3. /\ VoiceTurnFails(a) => failed'[a] = failed[a] \cup {turn[a].n}
      /\ \A b \in Bridges \ {a} : failed'[b] = failed[b]
  BY <1>2 DEF TalkInv, TranscriptTypeOK
<1>4. /\ On(a) /\ ~On(a)' /\ a \in Handlers
      /\ \A v \in Handlers \ {a} : On(v)' <=> On(v)
  BY <1>1, VoiceAssumption, ThreadsAssumption DEF On, TalkInv, TranscriptTypeOK, Conversations
<1>5. CallGood(a) /\ TurnGood(a)
  BY <1>4 DEF CallInv, TalkInv, TurnsGood
<1>6. \A m \in messages : m.conversation \in Conversations /\ m.conversation # None
  BY ThreadsAssumption DEF TalkInv, TranscriptTypeOK, Message, Conversations
<1>7. \A w \in Handlers \ {a} : On(w)' => turn'[w].n \notin spoken'[a]
  BY <1>1, <1>2, <1>4, <1>5 DEF CallGood
<1>8. Said(a)' = Said(a)
  BY <1>2 DEF Said
<1>9. ASSUME VoiceTurnReplies(a) PROVE CallGood(a)'
  <2>1. /\ spoken'[a] \subseteq 1..opened' /\ failed'[a] \subseteq spoken'[a]
        /\ Escaped(a)' <=> Escaped(a)
    BY <1>2, <1>5, <1>8, <1>9 DEF CallGood, Escaped
  <2>2. Escaped(a) \/ \A m \in Said(a) : m.conversation = work[a]
    BY <1>4, <1>5 DEF CallGood
  <2>3. ASSUME NEW m \in messages', Given(a, m)' PROVE m.conversation = work[a]
    <3>1. m \in messages /\ m.role = "assistant" /\ m.turn \in spoken[a] \ failed[a]
      BY <1>2, <1>9, <2>3 DEF Given
    <3>2. CASE m.turn = turn[a].n
      BY <1>2, <1>5, <1>9, <3>1, <3>2 DEF TurnGood, OfTurn
    <3>3. CASE m.turn # turn[a].n
      <4>1. m.conversation = bridge[a].conversation
        BY <1>5, <3>1, <3>3 DEF CallGood, Given
      <4> QED
        BY <1>4, <1>5, <1>6, <3>1, <4>1 DEF CallGood
    <3> QED
      BY <3>2, <3>3
  <2>4. \A q, m \in messages' :
          (/\ {q.turn, m.turn} \subseteq spoken'[a] /\ m.turn < q.turn
           /\ q.role = "user" /\ m.role = "assistant" /\ m.turn \notin failed'[a])
          => m.id \in q.saw
    BY <1>2, <1>5, <1>9 DEF CallGood
  <2>5. bridge'[a].conversation = work[a] /\ work[a] # None
    BY <1>1, <1>9, ThreadsAssumption DEF Conversations
  <2>6. Stored(bridge[a].conversation)'
    <3>1. PICK c \in Conversations : c = work[a]
      BY <1>1
    <3>2. Stored(c)' /\ bridge'[a].conversation = c
      BY <1>1, <1>9, <3>1
    <3> QED
      BY <3>2 DEF Stored
  <2>7. Escaped(a)' \/ \A m \in Said(a)' : m.conversation = bridge'[a].conversation
    BY <1>8, <2>1, <2>2, <2>5
  <2>8. \A m \in messages' : Given(a, m)' => m.conversation = bridge'[a].conversation
    BY <2>3, <2>5
  <2> QED
    BY <1>4, <1>7, <2>1, <2>4, <2>5, <2>6, <2>7, <2>8 DEF CallGood
<1>10. ASSUME VoiceTurnFails(a) PROVE CallGood(a)'
  <2>1. /\ spoken'[a] \subseteq 1..opened' /\ failed'[a] \subseteq spoken'[a]
        /\ failed[a] \subseteq failed'[a] /\ turn[a].n \in failed'[a]
        /\ bridge'[a].conversation = bridge[a].conversation
    BY <1>1, <1>2, <1>3, <1>4, <1>5, <1>10 DEF CallGood
  <2>2. bridge[a].conversation # None =>
          Stored(bridge[a].conversation)' /\ work[a] = bridge[a].conversation
    <3>1. bridge[a].conversation \in Conversations \cup {None}
      BY VoiceTypes DEF TalkInv, TranscriptTypeOK, CallsTyped, Bridge
    <3> QED
      BY <1>1, <1>4, <1>5, <2>1, <3>1 DEF CallGood, Stored
  <2>3. \/ Escaped(a)'
        \/ \A m \in Said(a) : /\ m.conversation = bridge[a].conversation
                              /\ bridge[a].conversation # None
    <3>1. CASE Escaped(a) \/ \E m \in Said(a) : m.turn = turn[a].n
      BY <1>8, <2>1, <3>1 DEF Escaped
    <3>2. CASE ~Escaped(a) /\ \A m \in Said(a) : m.turn # turn[a].n
      BY <1>4, <1>5, <2>2, <3>2 DEF CallGood
    <3> QED
      BY <3>1, <3>2
  <2>4. ASSUME NEW m \in messages', Given(a, m)' PROVE m.conversation = bridge[a].conversation
    <3>1. m \in messages /\ Given(a, m)
      BY <1>2, <2>1, <2>4 DEF Given
    <3> QED
      BY <1>5, <3>1 DEF CallGood
  <2>5. \A q, m \in messages' :
          (/\ {q.turn, m.turn} \subseteq spoken'[a] /\ m.turn < q.turn
           /\ q.role = "user" /\ m.role = "assistant" /\ m.turn \notin failed'[a])
          => m.id \in q.saw
    BY <1>2, <1>5, <2>1 DEF CallGood
  <2>6. bridge'[a].conversation # None => Stored(bridge[a].conversation)'
    BY <2>1, <2>2
  <2>7. Escaped(a)' \/ \A m \in Said(a)' :
          m.conversation = bridge'[a].conversation /\ bridge'[a].conversation # None
    BY <1>8, <2>1, <2>3
  <2>8. \A m \in messages' : Given(a, m)' => m.conversation = bridge'[a].conversation
    BY <2>1, <2>4
  <2> QED
    BY <1>4, <1>7, <2>1, <2>5, <2>6, <2>7, <2>8 DEF CallGood
<1>11. ASSUME NEW b \in Bridges, b # a PROVE CallGood(b)'
  <2>1. CallGood(b) /\ b \in Handlers
    BY VoiceAssumption DEF CallInv
  <2>2. \A w \in Handlers \ {b} : On(w)' => turn'[w].n \notin spoken[b]
    BY <1>1, <1>4, <2>1 DEF CallGood
  <2>3. UNCHANGED <<messages, spoken[b], failed[b], turn[b], work[b]>> /\ opened <= opened'
    <3>1. UNCHANGED failed[b]
      BY <1>3, <1>11
    <3> QED
      BY <1>1, <1>2, <1>11, <2>1, <3>1
  <2> QED
    BY <1>1, <1>11, <2>1, <2>2, <2>3, CallRests
<1> QED
  BY <1>9, <1>10, <1>11 DEF CallInv

LEMMA TextTurnCalls ==
  ASSUME TalkInv, TalkInv', CallInv, NEW w \in Handlers \ Bridges, TextTurn(w)
  PROVE  CallInv'
<1>1. /\ UNCHANGED <<bridge, spoken, failed>>
      /\ \A v \in Handlers \ {w} : work'[v] = work[v] /\ turn'[v] = turn[v]
      /\ \A c \in Conversations : Stored(c) => Stored(c)'
      /\ \/ Opens(w) /\ turn'[w].n = opened'
         \/ Closes(w) /\ turn'[w].at = "off"
  BY TextTurnTypes DEF TalkInv
<1>2. /\ opened \in Nat /\ opened' \in {opened, opened + 1} /\ UNCHANGED messages
      /\ On(w)' => turn'[w].n = opened + 1
  BY <1>1 DEF Opens, Closes, On, tables, turnHistory, TalkInv, TranscriptTypeOK
<1>3. ASSUME NEW b \in Bridges PROVE CallGood(b)'
  <2>1. CallGood(b) /\ b \in Handlers /\ b # w
    BY VoiceAssumption DEF CallInv
  <2>2. opened <= opened' /\ opened + 1 \notin spoken[b]
    BY <1>2, <2>1 DEF CallGood
  <2>3. \A v \in Handlers \ {b} : On(v)' => turn'[v].n \notin spoken[b]
    BY <1>1, <1>2, <2>1, <2>2 DEF CallGood, On
  <2>4. UNCHANGED <<messages, spoken[b], failed[b], turn[b], work[b]>>
    BY <1>1, <1>2, <2>1
  <2> QED
    BY <1>1, <2>1, <2>2, <2>3, <2>4, CallRests
<1> QED
  BY <1>3 DEF CallInv

LEMMA CallStep ==
  ASSUME TalkInv, TalkInv', CallInv, [TranscriptNext]_transcriptVars
  PROVE  CallInv'
<1>1. CASE \E w \in Handlers : TurnWorks(w)
  BY <1>1, CallWorks
<1>2. ASSUME NEW b \in Bridges,
             CallOpens(b) \/ VoiceTurnOpens(b) \/ VoiceTurnReplies(b) \/ VoiceTurnFails(b)
      PROVE  CallInv'
  BY <1>2, CallBegins, CallAsks, CallTurnEnds
<1>3. CASE \E w \in Handlers \ Bridges : TextTurn(w)
  BY <1>3, TextTurnCalls
<1>4. ASSUME UNCHANGED <<threadVars, tables, turn, turnHistory, spoken, failed>>,
             \A b \in Bridges : bridge'[b].conversation = bridge[b].conversation
      PROVE  CallInv'
  <2>1. UNCHANGED <<status, work, messages, opened, turn, spoken, failed>>
    BY <1>4 DEF threadVars, tables, turnHistory
  <2>2. \A c \in Conversations : Stored(c) => Stored(c)'
    BY <2>1 DEF Stored
  <2>3. ASSUME NEW b \in Bridges PROVE CallGood(b)'
    <3>1. CallGood(b) /\ opened <= opened'
      BY <2>1 DEF CallInv, TalkInv, TranscriptTypeOK
    <3>2. \A v \in Handlers \ {b} : On(v)' => turn'[v].n \notin spoken[b]
      BY <2>1, <3>1 DEF CallGood, On
    <3> QED
      BY <1>4, <2>1, <2>2, <3>1, <3>2, CallRests
  <2> QED
    BY <2>3 DEF CallInv
<1>5. CASE \E b \in Bridges : CallGoesOn(b)
  BY <1>4, <1>5, CallGoesOnTypes DEF TalkInv
<1>6. CASE UNCHANGED transcriptVars
  BY <1>4, <1>6 DEF transcriptVars, voiceVars
<1> QED
  BY <1>1, <1>2, <1>3, <1>5, <1>6, VoiceAssumption DEF TranscriptNext, VoiceProgress

LEMMA Calls == TranscriptSpec => [](TalkInv /\ CallInv)
<1>1. TranscriptInit => TalkInv /\ CallInv
  <2> SUFFICES ASSUME TranscriptInit, NEW b \in Bridges PROVE CallGood(b)
    BY TalkInit DEF CallInv
  <2>1. /\ messages = {} /\ spoken[b] = {} /\ failed[b] = {}
        /\ \A w \in Handlers : turn[w] = Off
        /\ bridge[b] = HungUp
    BY DEF TranscriptInit, VoiceInit
  <2>2. b \in Handlers /\ ~On(b) /\ bridge[b].conversation = None
    BY <2>1, VoiceAssumption DEF On, Off, HungUp
  <2> QED
    BY <2>1, <2>2 DEF CallGood, Said
<1>2. TalkInv /\ CallInv /\ [TranscriptNext]_transcriptVars => (TalkInv /\ CallInv)'
  BY TalkStep, CallStep
<1> QED
  BY <1>1, <1>2, PTL DEF TranscriptSpec

\* Whatever tabs and other calls do to the conversation: the messages of a call are all in
\* one, unless a turn of the call failed after part of it had been committed.
THEOREM CallsStay == TranscriptSpec => []CallStaysInThread
<1>1. TalkInv /\ CallInv => CallStaysInThread
  <2> SUFFICES ASSUME CallInv, NEW b \in Bridges
               PROVE  \/ \A m, n \in Said(b) : SameThread(m, n)
                      \/ Escaped(b)
    BY DEF CallStaysInThread, Said, Escaped
  <2>1. CallGood(b)
    BY DEF CallInv
  <2> QED
    BY <2>1 DEF CallGood, SameThread
<1> QED
  BY <1>1, Calls, PTL

\* Every question of a call is put to the model together with all answers the call was
\* given before.
THEOREM CallsRemembered == TranscriptSpec => []CallIsRemembered
<1>1. TalkInv /\ CallInv => CallIsRemembered
  BY DEF CallInv, CallGood, CallIsRemembered
<1> QED
  BY <1>1, Calls, PTL
-----------------------------------------------------------------------------
\* Calls and text requests behave as VoiceBridge says when their turns also read and
\* write messages, so that what a call says still reaches the agent complete, in order
\* and once.
THEOREM TranscriptKeepsPromise == TranscriptSpec => VoiceSpec /\ SpeechHandedOverInOrder
<1>1. TranscriptInit => VoiceInit
  BY DEF TranscriptInit
<1>2. ASSUME [TranscriptNext]_transcriptVars PROVE [VoiceNext]_voiceVars
  <2>1. ASSUME NEW w \in Handlers, TurnWorks(w) PROVE [VoiceNext]_voiceVars
    <3>1. \/ Keep(w) /\ UNCHANGED <<bridge, heard>>
          \/ UNCHANGED voiceVars
      BY <2>1 DEF TurnWorks, LoadHistory, Ask, CommitInTool, Answer, Commits, voiceVars
    <3> QED
      BY <3>1 DEF VoiceNext, BridgeStep, TextStep
  <2>2. ASSUME NEW b \in Bridges, CallOpens(b) \/ CallGoesOn(b) \/ VoiceTurnOpens(b)
                                  \/ VoiceTurnReplies(b) \/ VoiceTurnFails(b)
        PROVE  BridgeStep(b)
    BY <2>2 DEF CallOpens, CallGoesOn, VoiceTurnOpens, VoiceTurnReplies, VoiceTurnFails, BridgeStep
  <2>3. ASSUME NEW w \in Handlers \ Bridges, TextTurn(w)
        PROVE  TextStep(w) /\ UNCHANGED <<bridge, heard>>
    BY <2>3 DEF TextTurn, TextStep
  <2>4. CASE UNCHANGED transcriptVars
    BY <2>4 DEF transcriptVars
  <2> QED
    BY <1>2, <2>1, <2>2, <2>3, <2>4, VoiceAssumption DEF TranscriptNext, VoiceProgress, VoiceNext
<1>3. TranscriptSpec => VoiceSpec
  BY <1>1, <1>2, PTL DEF TranscriptSpec, VoiceSpec
<1> QED
  BY <1>3, BridgeKeepsPromise, PTL
=============================================================================
