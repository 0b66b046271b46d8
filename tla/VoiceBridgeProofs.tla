-------------------------- MODULE VoiceBridgeProofs --------------------------
(***************************************************************************)
(* The bridge implements Dialogue.  The buffer always is the end of what   *)
(* was heard, and a task has a question exactly while the call is busy, so *)
(* that a pause hands over the next piece and nothing else.                *)
(***************************************************************************)
EXTENDS VoiceBridge, SequenceTheorems, WellFoundedInduction, TLAPS

BridgeFields == {"live", "conversation", "buffer", "busy", "text"}

\* t is the end of s.
EndOf(t, s) ==
  Len(t) <= Len(s) /\ \A i \in 1..Len(t) : t[i] = s[(Len(s) - Len(t)) + i]

\* Bridge r of a call in which h was heard.
GoodBridge(r, h) ==
  /\ DOMAIN r = BridgeFields
  /\ h \in Seq(Nat) /\ r.buffer \in Seq(Nat) /\ r.text \in Seq(Nat)
  /\ r.busy <=> r.text # <<>>
  /\ ~r.live => r.buffer = <<>> /\ h = <<>>
  /\ EndOf(r.buffer, h)

BridgesGood ==
  /\ bridge = [b \in Bridges |-> bridge[b]] /\ heard = [b \in Bridges |-> heard[b]]
  /\ \A b \in Bridges : GoodBridge(bridge[b], heard[b])

TasksBusy ==
  /\ work = [w \in Handlers |-> work[w]]
  /\ \A b \in Bridges : work[b] # None => bridge[b].busy

VoiceInv == BridgesGood /\ TasksBusy

\* The refinement mapping.
Handed == [b \in Bridges |-> Len(heard[b]) - Len(bridge[b].buffer)]
Question == [b \in Bridges |-> bridge[b].text]
-----------------------------------------------------------------------------
LEMMA EndAppend ==
  ASSUME NEW s \in Seq(Nat), NEW t \in Seq(Nat), NEW n \in Nat, EndOf(t, s)
  PROVE  /\ EndOf(Append(t, n), Append(s, n))
         /\ Len(Append(s, n)) - Len(Append(t, n)) = Len(s) - Len(t)
<1> DEFINE a == Len(t)
           d == Len(s) - Len(t)
           tn == Append(t, n)
           sn == Append(s, n)
<1>1. a \in Nat /\ d \in Nat /\ Len(s) = d + a
  BY DEF EndOf
<1>2. /\ Len(tn) = a + 1 /\ Len(sn) = Len(s) + 1
      /\ tn[a + 1] = n /\ sn[Len(s) + 1] = n
      /\ \A i \in 1..a : tn[i] = t[i]
      /\ \A i \in 1..Len(s) : sn[i] = s[i]
  OBVIOUS
<1>3. \A i \in 1..a : t[i] = s[d + i]
  BY DEF EndOf
<1> HIDE DEF a, d, tn, sn
<1>4. Len(sn) - Len(tn) = d /\ Len(tn) <= Len(sn)
  BY <1>1, <1>2
<1>5. ASSUME NEW i \in 1..(a + 1) PROVE tn[i] = sn[d + i]
  <2>1. CASE i = a + 1
    <3>1. d + i = Len(s) + 1
      BY <1>1, <2>1
    <3> QED
      BY <1>2, <2>1, <3>1
  <2>2. CASE i # a + 1
    <3>1. i \in 1..a /\ d + i \in 1..Len(s)
      BY <1>1, <2>2
    <3> QED
      BY <1>2, <1>3, <3>1
  <2> QED
    BY <2>1, <2>2
<1>6. EndOf(tn, sn)
  BY <1>2, <1>4, <1>5 DEF EndOf
<1> QED
  BY <1>4, <1>6 DEF a, d, tn, sn

LEMMA EndIsSubSeq ==
  ASSUME NEW s \in Seq(Nat), NEW t \in Seq(Nat), EndOf(t, s), t # <<>>
  PROVE  /\ Len(s) - Len(t) < Len(s)
         /\ t = SubSeq(s, (Len(s) - Len(t)) + 1, Len(s))
<1> DEFINE a == Len(t)
           d == Len(s) - Len(t)
           u == SubSeq(s, d + 1, Len(s))
<1>1. a \in Nat \ {0} /\ d \in Nat /\ Len(s) = d + a
  BY DEF EndOf
<1>2. \A i \in 1..a : t[i] = s[d + i]
  BY DEF EndOf
<1> HIDE DEF d
<1>3. u \in Seq(Nat) /\ Len(u) = a /\ \A i \in 1..a : u[i] = s[d + i]
  BY <1>1
<1> HIDE DEF a, u
<1>4. t = u
  BY <1>2, <1>3, SeqEqual DEF a
<1> QED
  BY <1>1, <1>4 DEF a, d, u

\* A step that leaves a good bridge changes the mapped state of one call.
LEMMA BridgeUpdate ==
  ASSUME BridgesGood, NEW b \in Bridges, NEW r, NEW h, GoodBridge(r, h),
         bridge' = [bridge EXCEPT ![b] = r], heard' = [heard EXCEPT ![b] = h]
  PROVE  /\ BridgesGood'
         /\ Handed' = [Handed EXCEPT ![b] = Len(h) - Len(r.buffer)]
         /\ Question' = [Question EXCEPT ![b] = r.text]
<1>1. \A c \in Bridges : /\ bridge'[c] = IF c = b THEN r ELSE bridge[c]
                         /\ heard'[c] = IF c = b THEN h ELSE heard[c]
  BY DEF BridgesGood
<1>2. bridge' = [c \in Bridges |-> bridge'[c]] /\ heard' = [c \in Bridges |-> heard'[c]]
  BY DEF BridgesGood
<1>3. BridgesGood'
  BY <1>1, <1>2 DEF BridgesGood
<1>4. Handed' = [Handed EXCEPT ![b] = Len(h) - Len(r.buffer)]
  <2> DEFINE d == Len(h) - Len(r.buffer)
  <2>1. heard'[b] = h /\ bridge'[b].buffer = r.buffer
    BY <1>1
  <2>2. Handed'[b] = d
    BY <2>1 DEF Handed
  <2>3. \A c \in Bridges \ {b} : Handed'[c] = Handed[c]
    BY <1>1 DEF Handed
  <2>4. Handed = [c \in Bridges |-> Handed[c]] /\ Handed' = [c \in Bridges |-> Handed'[c]]
    BY DEF Handed
  <2> HIDE DEF d
  <2>5. Handed' = [Handed EXCEPT ![b] = d]
    BY <2>2, <2>3, <2>4
  <2> QED
    BY <2>5 DEF d
<1>5. Question' = [Question EXCEPT ![b] = r.text]
  <2>1. Question' = [c \in Bridges |-> IF c = b THEN r.text ELSE Question[c]]
    BY <1>1 DEF Question
  <2>2. Question = [c \in Bridges |-> Question[c]]
    BY DEF Question
  <2> QED
    BY <2>1, <2>2
<1> QED
  BY <1>3, <1>4, <1>5

LEMMA HeardStays ==
  ASSUME BridgesGood, NEW b \in Bridges, UNCHANGED heard
  PROVE  heard' = [heard EXCEPT ![b] = heard[b]]
BY DEF BridgesGood

\* Which tasks run a turn.
LEMMA WorkUpdate ==
  ASSUME TasksBusy, NEW w \in Handlers, NEW c, work' = [work EXCEPT ![w] = c]
  PROVE  /\ work' = [v \in Handlers |-> work'[v]]
         /\ \A v \in Handlers : work'[v] = IF v = w THEN c ELSE work[v]
BY DEF TasksBusy
-----------------------------------------------------------------------------
LEMMA HearStep ==
  ASSUME VoiceInv, NEW b \in Bridges, HearFragment(b)
  PROVE  VoiceInv' /\ Promise!Hear(b)
<1> DEFINE n == Len(heard[b]) + 1
           h == Append(heard[b], n)
           r == [bridge[b] EXCEPT !.buffer = Append(bridge[b].buffer, n)]
<1>1. GoodBridge(bridge[b], heard[b]) /\ bridge[b].live
  BY DEF VoiceInv, BridgesGood, HearFragment
<1>2. n \in 1..MaxFragments
  BY <1>1, VoiceAssumption DEF HearFragment, GoodBridge
<1>3. /\ r.buffer = Append(bridge[b].buffer, n) /\ DOMAIN r = BridgeFields
      /\ r.text = bridge[b].text /\ r.busy = bridge[b].busy /\ r.live = bridge[b].live
  BY <1>1 DEF GoodBridge, BridgeFields
<1>4. /\ EndOf(r.buffer, h) /\ Len(h) - Len(r.buffer) = Len(heard[b]) - Len(bridge[b].buffer)
      /\ r.buffer \in Seq(Nat) /\ h \in Seq(Nat)
  <2>1. n \in Nat /\ heard[b] \in Seq(Nat) /\ bridge[b].buffer \in Seq(Nat)
        /\ EndOf(bridge[b].buffer, heard[b])
    BY <1>1, <1>2 DEF GoodBridge
  <2> HIDE DEF n, r
  <2>2. /\ EndOf(Append(bridge[b].buffer, n), h)
        /\ Len(h) - Len(Append(bridge[b].buffer, n)) = Len(heard[b]) - Len(bridge[b].buffer)
    BY <2>1, EndAppend
  <2>3. Append(bridge[b].buffer, n) \in Seq(Nat) /\ h \in Seq(Nat)
    BY <2>1
  <2> DEFINE appended == Append(bridge[b].buffer, n)
  <2>4. r.buffer = appended
    BY <1>3
  <2> HIDE DEF h, appended
  <2> QED
    BY <2>2, <2>3, <2>4 DEF appended
<1>5. GoodBridge(r, h)
  <2> HIDE DEF r, h
  <2> QED
    BY <1>1, <1>3, <1>4 DEF GoodBridge
<1>6. bridge' = [bridge EXCEPT ![b] = r] /\ heard' = [heard EXCEPT ![b] = h]
  BY DEF HearFragment
<1>7. /\ BridgesGood' /\ Question' = [Question EXCEPT ![b] = r.text]
      /\ Handed' = [Handed EXCEPT ![b] = Len(h) - Len(r.buffer)]
  <2> HIDE DEF r, h
  <2> QED
    BY <1>5, <1>6, BridgeUpdate DEF VoiceInv
<1>8. TasksBusy'
  BY <1>3, <1>6 DEF HearFragment, VoiceInv, TasksBusy, threadVars, BridgesGood
<1>9. Len(h) - Len(r.buffer) = Handed[b] /\ r.text = Question[b]
  <2> HIDE DEF r, h
  <2> QED
    BY <1>3, <1>4 DEF Handed, Question
<1>10. UNCHANGED <<Handed, Question>>
  <2> HIDE DEF r, h
  <2> QED
    BY <1>7, <1>9 DEF Handed, Question
<1> QED
  BY <1>2, <1>6, <1>7, <1>8, <1>10 DEF Promise!Hear, Handed, Question, VoiceInv

LEMMA HandOverStep ==
  ASSUME VoiceInv, NEW b \in Bridges, StopSpeaking(b)
  PROVE  VoiceInv' /\ Promise!HandOver(b)
<1> DEFINE old == bridge[b]
           h == heard[b]
           r == [old EXCEPT !.busy = TRUE, !.buffer = <<>>, !.text = old.buffer]
<1>1. GoodBridge(old, h) /\ old.live /\ old.buffer # <<>> /\ ~old.busy
  BY DEF VoiceInv, BridgesGood, StopSpeaking
<1>2. /\ r.buffer = <<>> /\ DOMAIN r = BridgeFields
      /\ r.text = old.buffer /\ r.busy = TRUE /\ r.live = old.live
  BY <1>1 DEF GoodBridge, BridgeFields
<1>3. GoodBridge(r, h)
  <2>1. EndOf(<<>>, h) /\ <<>> \in Seq(Nat)
    BY <1>1 DEF GoodBridge, EndOf
  <2> HIDE DEF r
  <2> QED
    BY <1>1, <1>2, <2>1 DEF GoodBridge
<1>4. bridge' = [bridge EXCEPT ![b] = r] /\ heard' = [heard EXCEPT ![b] = h]
  BY HeardStays DEF StopSpeaking, VoiceInv
<1>5. /\ BridgesGood' /\ Question' = [Question EXCEPT ![b] = old.buffer]
      /\ Handed' = [Handed EXCEPT ![b] = Len(h)]
  <2>1. Len(h) \in Nat /\ Len(r.buffer) = 0
    <3>1. h \in Seq(Nat)
      BY <1>1 DEF GoodBridge
    <3> HIDE DEF r, h
    <3> QED
      BY <1>2, <3>1
  <2> HIDE DEF r, h
  <2>2. /\ BridgesGood' /\ Question' = [Question EXCEPT ![b] = r.text]
        /\ Handed' = [Handed EXCEPT ![b] = Len(h) - Len(r.buffer)]
    BY <1>3, <1>4, BridgeUpdate DEF VoiceInv
  <2> QED
    BY <1>2, <2>1, <2>2
<1>6. TasksBusy'
  BY <1>2, <1>4 DEF StopSpeaking, VoiceInv, TasksBusy, threadVars, BridgesGood
<1>7. Question[b] = <<>> /\ Handed[b] = Len(h) - Len(old.buffer)
  BY <1>1 DEF Question, Handed, GoodBridge
<1>8. Handed[b] < Len(h) /\ old.buffer = SubSeq(h, Handed[b] + 1, Len(h))
  <2>1. old.buffer \in Seq(Nat) /\ h \in Seq(Nat) /\ EndOf(old.buffer, h)
    BY <1>1 DEF GoodBridge
  <2> HIDE DEF old, h
  <2> QED
    BY <1>1, <1>7, <2>1, EndIsSubSeq
<1> QED
  BY <1>5, <1>6, <1>7, <1>8 DEF Promise!HandOver, Handed, Question, VoiceInv, StopSpeaking

LEMMA HangUpStep ==
  ASSUME VoiceInv, NEW b \in Bridges, HangUp(b)
  PROVE  VoiceInv' /\ Promise!HangUp(b)
<1> DEFINE old == bridge[b]
           r == [old EXCEPT !.live = FALSE, !.buffer = <<>>]
<1>1. GoodBridge(old, heard[b])
  BY DEF VoiceInv, BridgesGood
<1>2. /\ r.buffer = <<>> /\ DOMAIN r = BridgeFields
      /\ r.text = old.text /\ r.busy = old.busy /\ r.live = FALSE
  BY <1>1 DEF GoodBridge, BridgeFields
<1>3. GoodBridge(r, <<>>)
  <2>1. EndOf(<<>>, <<>>) /\ <<>> \in Seq(Nat)
    BY DEF EndOf
  <2> HIDE DEF r
  <2> QED
    BY <1>1, <1>2, <2>1 DEF GoodBridge
<1>4. bridge' = [bridge EXCEPT ![b] = r] /\ heard' = [heard EXCEPT ![b] = <<>>]
  BY DEF HangUp
<1>5. /\ BridgesGood' /\ Question' = [Question EXCEPT ![b] = r.text]
      /\ Handed' = [Handed EXCEPT ![b] = 0]
  <2> HIDE DEF r
  <2> DEFINE d == Len(<<>>) - Len(r.buffer)
  <2>1. /\ BridgesGood' /\ Question' = [Question EXCEPT ![b] = r.text]
        /\ Handed' = [Handed EXCEPT ![b] = d]
    BY <1>3, <1>4, BridgeUpdate DEF VoiceInv
  <2>2. d = 0
    BY <1>2
  <2> HIDE DEF d
  <2> QED
    BY <2>1, <2>2
<1>6. TasksBusy'
  BY <1>2, <1>4 DEF HangUp, VoiceInv, TasksBusy, threadVars, BridgesGood
<1>7. UNCHANGED Question
  <2>1. r.text = Question[b]
    BY <1>2 DEF Question
  <2> HIDE DEF r
  <2> QED
    BY <1>5, <2>1 DEF Question
<1> QED
  BY <1>4, <1>5, <1>6, <1>7 DEF Promise!HangUp, Handed, Question, VoiceInv

\* The three ends of a task.
LEMMA FinishStep ==
  ASSUME VoiceInv, NEW b \in Bridges, Speak(b) \/ FailVoiceTurn(b) \/ FailBeforeTurn(b)
  PROVE  VoiceInv' /\ Promise!Finish(b)
<1> DEFINE old == bridge[b]
<1>1. GoodBridge(old, heard[b]) /\ b \in Handlers
  BY VoiceAssumption DEF VoiceInv, BridgesGood
<1>2. old.busy
  BY DEF Speak, FailVoiceTurn, FailBeforeTurn, EndTurn, FailTurn, Starting, VoiceInv, TasksBusy
<1>3. PICK c : bridge' = [bridge EXCEPT ![b] =
                            [old EXCEPT !.busy = FALSE, !.text = <<>>, !.conversation = c]]
  <2>1. CASE Speak(b)
    BY <2>1 DEF Speak
  <2>2. CASE FailVoiceTurn(b) \/ FailBeforeTurn(b)
    <3>1. [old EXCEPT !.busy = FALSE, !.text = <<>>] =
            [old EXCEPT !.busy = FALSE, !.text = <<>>, !.conversation = old.conversation]
      BY <1>1 DEF GoodBridge, BridgeFields
    <3>2. bridge' = [bridge EXCEPT ![b] = [old EXCEPT !.busy = FALSE, !.text = <<>>]]
      BY <2>2 DEF FailVoiceTurn, FailBeforeTurn
    <3> QED
      BY <3>1, <3>2
  <2> QED
    BY <2>1, <2>2
<1> DEFINE r == [old EXCEPT !.busy = FALSE, !.text = <<>>, !.conversation = c]
<1>4. /\ r.buffer = old.buffer /\ DOMAIN r = BridgeFields
      /\ r.text = <<>> /\ r.busy = FALSE /\ r.live = old.live
  BY <1>1 DEF GoodBridge, BridgeFields
<1> HIDE DEF r
<1>5. GoodBridge(r, heard[b])
  BY <1>1, <1>4 DEF GoodBridge
<1>6. bridge' = [bridge EXCEPT ![b] = r] /\ heard' = [heard EXCEPT ![b] = heard[b]]
      /\ UNCHANGED heard
  BY <1>3, HeardStays DEF r, Speak, FailVoiceTurn, FailBeforeTurn, VoiceInv
<1>7. /\ BridgesGood' /\ Question' = [Question EXCEPT ![b] = <<>>]
      /\ Handed' = [Handed EXCEPT ![b] = Handed[b]]
  <2> DEFINE d == Len(heard[b]) - Len(r.buffer)
  <2>1. Handed[b] = d
    BY <1>4 DEF Handed
  <2>2. /\ BridgesGood' /\ Question' = [Question EXCEPT ![b] = r.text]
        /\ Handed' = [Handed EXCEPT ![b] = d]
    BY <1>5, <1>6, BridgeUpdate DEF VoiceInv
  <2> HIDE DEF d
  <2> QED
    BY <1>4, <2>1, <2>2
<1>8. UNCHANGED Handed
  BY <1>7 DEF Handed
<1>9. TasksBusy'
  <2>1. \A a \in Bridges \ {b} : bridge'[a] = bridge[a]
    BY <1>6 DEF VoiceInv, BridgesGood
  <2>2. CASE Speak(b) \/ FailVoiceTurn(b)
    <3>1. work' = [work EXCEPT ![b] = None]
      BY <2>2 DEF Speak, FailVoiceTurn, EndTurn, FailTurn
    <3> QED
      BY <1>1, <2>1, <3>1, VoiceAssumption DEF VoiceInv, TasksBusy
  <2>3. CASE FailBeforeTurn(b)
    BY <2>1, <2>3, VoiceAssumption
    DEF VoiceInv, TasksBusy, FailBeforeTurn, Starting, threadVars
  <2> QED
    BY <2>2, <2>3
<1>10. Question[b] # <<>>
  BY <1>1, <1>2 DEF Question, GoodBridge
<1> QED
  BY <1>6, <1>7, <1>8, <1>9, <1>10 DEF Promise!Finish, Handed, Question, VoiceInv
-----------------------------------------------------------------------------
\* What leaves the mapped state alone.
LEMMA ConnectStep ==
  ASSUME VoiceInv, NEW b \in Bridges, NEW c \in Known, ConnectCall(b, c), UNCHANGED threadVars
  PROVE  VoiceInv' /\ UNCHANGED <<heard, Handed, Question>>
<1> DEFINE old == bridge[b]
           r == [HungUp EXCEPT !.live = TRUE, !.conversation = c]
<1>1. GoodBridge(old, heard[b]) /\ ~old.live /\ ~old.busy
  BY DEF VoiceInv, BridgesGood, ConnectCall
<1>2. /\ r.buffer = <<>> /\ DOMAIN r = BridgeFields
      /\ r.text = <<>> /\ r.busy = FALSE /\ r.live = TRUE
  BY DEF HungUp, BridgeFields
<1>3. heard[b] = <<>> /\ old.buffer = <<>> /\ old.text = <<>>
  BY <1>1 DEF GoodBridge
<1> HIDE DEF r
<1>4. GoodBridge(r, heard[b])
  BY <1>1, <1>2, <1>3 DEF GoodBridge
<1>5. bridge' = [bridge EXCEPT ![b] = r] /\ heard' = [heard EXCEPT ![b] = heard[b]]
      /\ UNCHANGED heard
  BY HeardStays DEF r, ConnectCall, VoiceInv
<1>6. /\ BridgesGood' /\ Question' = [Question EXCEPT ![b] = Question[b]]
      /\ Handed' = [Handed EXCEPT ![b] = Handed[b]]
  <2> DEFINE d == Len(heard[b]) - Len(r.buffer)
  <2>1. Handed[b] = d /\ Question[b] = r.text
    BY <1>2, <1>3 DEF Handed, Question
  <2>2. /\ BridgesGood' /\ Question' = [Question EXCEPT ![b] = r.text]
        /\ Handed' = [Handed EXCEPT ![b] = d]
    BY <1>4, <1>5, BridgeUpdate DEF VoiceInv
  <2> HIDE DEF d
  <2> QED
    BY <2>1, <2>2
<1>7. TasksBusy'
  BY <1>1, <1>5 DEF VoiceInv, TasksBusy, threadVars, BridgesGood
<1> QED
  BY <1>5, <1>6, <1>7 DEF Handed, Question, VoiceInv

LEMMA ThreadStep ==
  ASSUME VoiceInv, UNCHANGED <<bridge, heard>>,
         \/ \E b \in Bridges : BeginVoiceTurn(b) \/ Keep(b)
         \/ \E w \in Handlers \ Bridges : TextStep(w)
         \/ CreateConversation
         \/ \E c \in Conversations : CloseConversation(c)
  PROVE  VoiceInv' /\ UNCHANGED <<heard, Handed, Question>>
<1>1. BridgesGood' /\ UNCHANGED <<heard, Handed, Question>>
  BY DEF VoiceInv, BridgesGood, Handed, Question
<1>2. ASSUME UNCHANGED work PROVE TasksBusy'
  BY <1>2 DEF VoiceInv, TasksBusy
<1>3. ASSUME NEW w \in Handlers, NEW c, work' = [work EXCEPT ![w] = c],
             w \in Bridges => bridge[w].busy
      PROVE  TasksBusy'
  BY <1>3, VoiceAssumption DEF VoiceInv, TasksBusy
<1>4. ASSUME NEW b \in Bridges, BeginVoiceTurn(b) PROVE TasksBusy'
  <2>1. bridge[b].busy /\ b \in Handlers
    BY <1>4, VoiceAssumption DEF BeginVoiceTurn, Starting
  <2>2. \E c : work' = [work EXCEPT ![b] = c]
    BY <1>4 DEF BeginVoiceTurn, BeginTurn
  <2> QED
    BY <1>3, <2>1, <2>2
<1>5. ASSUME NEW w \in Handlers \ Bridges, TextStep(w) PROVE TasksBusy'
  <2>1. UNCHANGED work \/ \E c : work' = [work EXCEPT ![w] = c]
    BY <1>5 DEF TextStep, BeginTurn, Keep, EndTurn, FailTurn
  <2> QED
    BY <1>2, <1>3, <2>1
<1>6. TasksBusy'
  BY <1>2, <1>4, <1>5 DEF Keep, CreateConversation, CloseConversation
<1> QED
  BY <1>1, <1>6 DEF VoiceInv

\* However recognition, pauses, turns and hang-ups interleave, for any number of
\* calls: what a call says reaches the agent complete, in order and once.
THEOREM BridgeKeepsPromise == VoiceSpec => SpeechHandedOverInOrder
<1>1. VoiceInit => VoiceInv /\ Promise!DialogueInit
  <2> SUFFICES ASSUME VoiceInit PROVE VoiceInv /\ Promise!DialogueInit
    OBVIOUS
  <2>1. /\ bridge = [b \in Bridges |-> HungUp] /\ heard = [b \in Bridges |-> <<>>]
        /\ work = [w \in Handlers |-> None]
    BY DEF VoiceInit, ThreadsInit
  <2>2. /\ DOMAIN HungUp = BridgeFields /\ HungUp.buffer = <<>> /\ HungUp.text = <<>>
        /\ HungUp.busy = FALSE
    BY DEF HungUp, BridgeFields
  <2>3. GoodBridge(HungUp, <<>>)
    <3>1. EndOf(<<>>, <<>>) /\ <<>> \in Seq(Nat)
      BY DEF EndOf
    <3> QED
      BY <2>2, <3>1 DEF GoodBridge
  <2>4. VoiceInv
    BY <2>1, <2>3, VoiceAssumption DEF VoiceInv, BridgesGood, TasksBusy
  <2>5. \A b \in Bridges : /\ Len(heard[b]) - Len(bridge[b].buffer) = 0
                           /\ bridge[b].text = <<>>
    BY <2>1, <2>2
  <2> QED
    BY <2>1, <2>4, <2>5 DEF Promise!DialogueInit
<1>2. ASSUME VoiceInv, [VoiceNext]_voiceVars
      PROVE  VoiceInv' /\ [Promise!DialogueNext]_(Promise!dialogueVars)
  <2>1. ASSUME VoiceInv', UNCHANGED <<heard, Handed, Question>>
        PROVE  VoiceInv' /\ [Promise!DialogueNext]_(Promise!dialogueVars)
    BY <2>1 DEF Promise!dialogueVars, Handed, Question
  <2>2. CASE UNCHANGED voiceVars
    BY <1>2, <2>1, <2>2
    DEF voiceVars, threadVars, VoiceInv, BridgesGood, TasksBusy, Handed, Question
  <2>3. ASSUME NEW b \in Bridges, BridgeStep(b)
        PROVE  VoiceInv' /\ [Promise!DialogueNext]_(Promise!dialogueVars)
    <3>1. CASE HearFragment(b) \/ StopSpeaking(b) \/ HangUp(b)
      BY <1>2, <3>1, HearStep, HandOverStep, HangUpStep DEF Promise!DialogueNext
    <3>2. CASE Speak(b) \/ FailVoiceTurn(b) \/ FailBeforeTurn(b)
      BY <1>2, <3>2, FinishStep DEF Promise!DialogueNext
    <3>3. ASSUME NEW c \in Known, ConnectCall(b, c), UNCHANGED threadVars
          PROVE  VoiceInv' /\ [Promise!DialogueNext]_(Promise!dialogueVars)
      BY <1>2, <2>1, <3>3, ConnectStep
    <3>4. CASE BeginVoiceTurn(b) \/ (Keep(b) /\ UNCHANGED <<bridge, heard>>)
      BY <1>2, <2>1, <3>4, ThreadStep DEF BeginVoiceTurn
    <3> QED
      BY <2>3, <3>1, <3>2, <3>3, <3>4 DEF BridgeStep
  <2>4. CASE /\ \/ \E w \in Handlers \ Bridges : TextStep(w)
                \/ CreateConversation
                \/ \E c \in Conversations : CloseConversation(c)
             /\ UNCHANGED <<bridge, heard>>
    BY <1>2, <2>1, <2>4, ThreadStep
  <2> QED
    BY <1>2, <2>2, <2>3, <2>4 DEF VoiceNext
<1> QED
  BY <1>1, <1>2, PTL DEF VoiceSpec, SpeechHandedOverInOrder, Promise!DialogueSpec
-----------------------------------------------------------------------------
\* Conversations: a row that is used next was not used, and a row that is stored stays.
LEMMA NextIsUnused ==
  ASSUME Unused # {} PROVE NextConversation \in Unused
<1> DEFINE R == OpToRel(<, Nat)
<1>1. IsWellFoundedOn(R, Nat)
  BY NatLessThanWellFounded, Zenon
<1>2. Unused \subseteq Nat
  BY DEF Unused, Conversations
<1>3. PICK c \in Unused : \A d \in Unused : <<d, c>> \notin R
  <2> HIDE DEF R
  <2> QED
    BY <1>1, <1>2, WFMin
<1>4. \A d \in Unused : ~(d < c)
  BY <1>2, <1>3 DEF OpToRel
<1>5. \A d \in Unused : c <= d
  BY <1>2, <1>4
<1> QED
  BY <1>5 DEF NextConversation

LEMMA ThreadsStep ==
  ASSUME ThreadsTypeOK,
         \/ \E w \in Handlers : Keep(w) \/ EndTurn(w) \/ FailTurn(w)
         \/ \E w \in Handlers, c \in Conversations \cup {None} : BeginTurn(w, c)
         \/ CreateConversation
         \/ \E c \in Conversations : CloseConversation(c)
         \/ UNCHANGED threadVars
  PROVE  /\ ThreadsTypeOK'
         /\ \A c \in Conversations : Stored(c) => Stored(c)'
<1>1. ASSUME NEW c \in Conversations, NEW s \in Statuses, status' = [status EXCEPT ![c] = s],
             s \in {"active", "closed"} \/ ~Stored(c)
      PROVE  /\ status' \in [Conversations -> Statuses]
             /\ \A d \in Conversations : Stored(d) => Stored(d)'
  BY <1>1 DEF ThreadsTypeOK, Stored
<1>2. ASSUME UNCHANGED status
      PROVE  /\ status' \in [Conversations -> Statuses]
             /\ \A d \in Conversations : Stored(d) => Stored(d)'
  BY <1>2 DEF ThreadsTypeOK, Stored
<1>3. Unused # {} => NextConversation \in Conversations /\ ~Stored(NextConversation)
  BY NextIsUnused DEF Unused, Stored
<1>4. ASSUME NEW w \in Handlers, NEW c \in Conversations \cup {None}, BeginTurn(w, c)
      PROVE  ThreadsTypeOK' /\ \A d \in Conversations : Stored(d) => Stored(d)'
  <2>1. CASE Stored(c) /\ c \in Conversations /\ work' = [work EXCEPT ![w] = c] /\ UNCHANGED status
    BY <1>2, <2>1 DEF ThreadsTypeOK
  <2>2. CASE /\ Unused # {} /\ work' = [work EXCEPT ![w] = NextConversation]
             /\ status' = [status EXCEPT ![NextConversation] = "inserted"]
    BY <1>1, <1>3, <2>2 DEF ThreadsTypeOK, Statuses
  <2>3. Stored(c) => c \in Conversations
    BY DEF Stored
  <2> QED
    BY <1>4, <2>1, <2>2, <2>3 DEF BeginTurn
<1>5. ASSUME NEW w \in Handlers, Keep(w) \/ EndTurn(w) \/ FailTurn(w)
      PROVE  ThreadsTypeOK' /\ \A d \in Conversations : Stored(d) => Stored(d)'
  <2>1. work[w] \in Conversations
    BY <1>5 DEF ThreadsTypeOK, Keep, EndTurn, FailTurn
  <2>2. work' \in [Handlers -> Conversations \cup {None}]
    BY <1>5 DEF ThreadsTypeOK, Keep, EndTurn, FailTurn
  <2>3. CASE Keep(w)
    BY <1>1, <2>1, <2>2, <2>3 DEF Keep, ThreadsTypeOK, Statuses
  <2>4. CASE EndTurn(w)
    BY <1>2, <2>2, <2>4 DEF EndTurn, ThreadsTypeOK
  <2>5. CASE FailTurn(w)
    <3> DEFINE s == IF status[work[w]] = "inserted" THEN "lost" ELSE status[work[w]]
    <3>1. s \in Statuses /\ status' = [status EXCEPT ![work[w]] = s]
      BY <2>1, <2>5 DEF FailTurn, ThreadsTypeOK, Statuses
    <3>2. s \in {"active", "closed"} \/ ~Stored(work[w])
      BY DEF Stored
    <3> HIDE DEF s
    <3> QED
      BY <1>1, <2>1, <2>2, <3>1, <3>2 DEF ThreadsTypeOK
  <2> QED
    BY <1>5, <2>3, <2>4, <2>5
<1>6. ASSUME CreateConversation
      PROVE  ThreadsTypeOK' /\ \A d \in Conversations : Stored(d) => Stored(d)'
  BY <1>1, <1>3, <1>6 DEF CreateConversation, ThreadsTypeOK, Statuses
<1>7. ASSUME NEW c \in Conversations, CloseConversation(c)
      PROVE  ThreadsTypeOK' /\ \A d \in Conversations : Stored(d) => Stored(d)'
  BY <1>1, <1>7 DEF CloseConversation, ThreadsTypeOK, Statuses
<1>8. CASE UNCHANGED threadVars
  BY <1>2, <1>8 DEF ThreadsTypeOK, threadVars
<1> QED
  BY <1>4, <1>5, <1>6, <1>7, <1>8

\* Whose turn a step begins or ends.
LEMMA WorkStep ==
  ASSUME ThreadsTypeOK, NEW w \in Handlers
  PROVE  /\ \A c \in Conversations \cup {None} : BeginTurn(w, c) =>
              /\ work[w] = None /\ work'[w] \in Conversations /\ (Stored(c) => work'[w] = c)
              /\ \A v \in Handlers \ {w} : work'[v] = work[v]
         /\ EndTurn(w) \/ FailTurn(w) =>
              /\ work[w] \in Conversations /\ work'[w] = None
              /\ \A v \in Handlers \ {w} : work'[v] = work[v]
<1>1. ASSUME NEW c \in Conversations \cup {None}, BeginTurn(w, c)
      PROVE  /\ work[w] = None /\ work'[w] \in Conversations /\ (Stored(c) => work'[w] = c)
             /\ \A v \in Handlers \ {w} : work'[v] = work[v]
  <2>1. Stored(c) => c \in Conversations
    BY DEF Stored
  <2>2. Unused # {} => NextConversation \in Conversations
    BY NextIsUnused DEF Unused
  <2> QED
    BY <1>1, <2>1, <2>2 DEF BeginTurn, ThreadsTypeOK
<1>2. EndTurn(w) \/ FailTurn(w) =>
        /\ work[w] \in Conversations /\ work'[w] = None
        /\ \A v \in Handlers \ {w} : work'[v] = work[v]
  BY DEF EndTurn, FailTurn, ThreadsTypeOK
<1> QED
  BY <1>1, <1>2
-----------------------------------------------------------------------------
\* Calls: what each operation of the bridge leaves.
CallsTyped ==
  /\ bridge \in [Bridges -> Bridge] /\ heard \in [Bridges -> Seq(Nat)]
  /\ \A b \in Bridges : bridge[b].busy <=> bridge[b].text # <<>>

LEMMA VoiceTypes ==
  VoiceTypeOK <=> /\ ThreadsTypeOK /\ CallsTyped
                  /\ \A b \in Bridges : work[b] # None => bridge[b].busy
BY DEF VoiceTypeOK, CallsTyped

LEMMA CallUpdate ==
  ASSUME CallsTyped, NEW b \in Bridges, NEW r \in Bridge, NEW h \in Seq(Nat),
         r.busy <=> r.text # <<>>, bridge' = [bridge EXCEPT ![b] = r],
         heard' = [heard EXCEPT ![b] = h]
  PROVE  /\ CallsTyped' /\ bridge'[b] = r
         /\ \A a \in Bridges \ {b} : bridge'[a] = bridge[a]
<1>1. /\ bridge' \in [Bridges -> Bridge] /\ bridge'[b] = r
      /\ \A a \in Bridges \ {b} : bridge'[a] = bridge[a]
  BY DEF CallsTyped
<1>2. heard' \in [Bridges -> Seq(Nat)]
  BY DEF CallsTyped
<1> QED
  BY <1>1, <1>2 DEF CallsTyped

LEMMA ConnectTypes ==
  ASSUME CallsTyped, NEW b \in Bridges, NEW c \in Conversations \cup {None}, ConnectCall(b, c)
  PROVE  /\ CallsTyped' /\ ~bridge[b].busy /\ bridge'[b].conversation = c
         /\ bridge'[b].live /\ ~bridge'[b].busy
         /\ \A a \in Bridges \ {b} : bridge'[a] = bridge[a]
<1> DEFINE u == [HungUp EXCEPT !.live = TRUE]
           r == [u EXCEPT !.conversation = c]
<1>1. HungUp \in Bridge /\ HungUp.busy = FALSE /\ HungUp.text = <<>>
  BY DEF HungUp, Bridge
<1>2. u \in Bridge /\ u.busy = FALSE /\ u.text = <<>> /\ u.live
  BY <1>1 DEF Bridge
<1>3. bridge' = [bridge EXCEPT ![b] = r] /\ ~bridge[b].busy
      /\ heard' = [heard EXCEPT ![b] = heard[b]] /\ heard[b] \in Seq(Nat)
  BY DEF ConnectCall, CallsTyped
<1> HIDE DEF u
<1>4. r \in Bridge /\ r.busy = FALSE /\ r.text = <<>> /\ r.live /\ r.conversation = c
  BY <1>2 DEF Bridge
<1> HIDE DEF r
<1> QED
  BY <1>3, <1>4, CallUpdate

LEMMA TalkTypes ==
  ASSUME CallsTyped, NEW b \in Bridges, HearFragment(b) \/ StopSpeaking(b) \/ HangUp(b)
  PROVE  /\ CallsTyped' /\ UNCHANGED threadVars
         /\ \A a \in Bridges : /\ bridge'[a].conversation = bridge[a].conversation
                               /\ bridge[a].busy => bridge'[a].busy
                               /\ bridge'[a].live => bridge[a].live
<1> DEFINE old == bridge[b]
<1>1. old \in Bridge /\ old.buffer \in Seq(Nat) /\ heard[b] \in Seq(Nat)
      /\ (old.busy <=> old.text # <<>>)
  BY DEF CallsTyped, Bridge
<1>2. ASSUME NEW r \in Bridge, NEW h \in Seq(Nat), r.busy <=> r.text # <<>>,
             r.conversation = old.conversation, old.busy => r.busy, r.live => old.live,
             bridge' = [bridge EXCEPT ![b] = r], heard' = [heard EXCEPT ![b] = h]
      PROVE  /\ CallsTyped'
             /\ \A a \in Bridges : /\ bridge'[a].conversation = bridge[a].conversation
                                   /\ bridge[a].busy => bridge'[a].busy
                                   /\ bridge'[a].live => bridge[a].live
  <2>1. /\ CallsTyped' /\ bridge'[b] = r
        /\ \A a \in Bridges \ {b} : bridge'[a] = bridge[a]
    BY <1>2, CallUpdate
  <2> QED
    BY <1>2, <2>1
<1> HIDE DEF old
<1>3. CASE HearFragment(b)
  <2> DEFINE n == Len(heard[b]) + 1
             s == Append(old.buffer, n)
             r == [old EXCEPT !.buffer = s]
  <2>1. n \in Nat /\ s \in Seq(Nat) /\ Append(heard[b], n) \in Seq(Nat)
    BY <1>1
  <2>2. bridge' = [bridge EXCEPT ![b] = r] /\ heard' = [heard EXCEPT ![b] = Append(heard[b], n)]
    BY <1>3 DEF HearFragment, old
  <2> HIDE DEF n, s
  <2>3. /\ r \in Bridge /\ r.busy = old.busy /\ r.text = old.text /\ r.live = old.live
        /\ r.conversation = old.conversation
    BY <1>1, <2>1 DEF Bridge
  <2> HIDE DEF r
  <2> QED
    BY <1>1, <1>2, <1>3, <2>1, <2>2, <2>3 DEF HearFragment
<1>4. CASE StopSpeaking(b)
  <2> DEFINE u == [old EXCEPT !.busy = TRUE]
             v == [u EXCEPT !.buffer = <<>>]
             r == [v EXCEPT !.text = old.buffer]
  <2>1. /\ bridge' = [bridge EXCEPT ![b] = r] /\ heard' = [heard EXCEPT ![b] = heard[b]]
        /\ old.buffer # <<>> /\ UNCHANGED threadVars
    BY <1>4 DEF StopSpeaking, CallsTyped, old
  <2>2. u \in Bridge /\ u.busy = TRUE /\ u.live = old.live /\ u.conversation = old.conversation
    BY <1>1 DEF Bridge
  <2> HIDE DEF u
  <2>3. <<>> \in Seq(Nat)
    OBVIOUS
  <2>4. v \in Bridge /\ v.busy = TRUE /\ v.live = old.live /\ v.conversation = old.conversation
    BY <2>2, <2>3 DEF Bridge
  <2> HIDE DEF v
  <2>5. /\ r \in Bridge /\ r.busy = TRUE /\ r.live = old.live /\ r.text = old.buffer
        /\ r.conversation = old.conversation
    BY <1>1, <2>4 DEF Bridge
  <2> HIDE DEF r
  <2> QED
    BY <1>1, <1>2, <2>1, <2>5
<1>5. CASE HangUp(b)
  <2> DEFINE u == [old EXCEPT !.live = FALSE]
             r == [u EXCEPT !.buffer = <<>>]
  <2>1. /\ bridge' = [bridge EXCEPT ![b] = r] /\ heard' = [heard EXCEPT ![b] = <<>>]
        /\ UNCHANGED threadVars
    BY <1>5 DEF HangUp, old
  <2>2. <<>> \in Seq(Nat)
    OBVIOUS
  <2>3. /\ u \in Bridge /\ u.busy = old.busy /\ u.live = FALSE /\ u.text = old.text
        /\ u.conversation = old.conversation
    BY <1>1 DEF Bridge
  <2> HIDE DEF u
  <2>4. /\ r \in Bridge /\ r.busy = old.busy /\ r.live = FALSE /\ r.text = old.text
        /\ r.conversation = old.conversation
    BY <2>3, <2>2 DEF Bridge
  <2> HIDE DEF r
  <2> QED
    BY <1>1, <1>2, <2>1, <2>4, <2>2
<1> QED
  BY <1>3, <1>4, <1>5

LEMMA EndTypes ==
  ASSUME CallsTyped, NEW b \in Bridges, work[b] \in Conversations \cup {None},
         Speak(b) \/ FailVoiceTurn(b) \/ FailBeforeTurn(b)
  PROVE  /\ CallsTyped' /\ ~bridge'[b].busy /\ bridge'[b].live = bridge[b].live
         /\ bridge'[b].conversation \in {work[b], bridge[b].conversation}
         /\ Speak(b) => bridge'[b].conversation = work[b]
         /\ ~Speak(b) => bridge'[b].conversation = bridge[b].conversation
         /\ \A a \in Bridges \ {b} : bridge'[a] = bridge[a]
<1> DEFINE old == bridge[b]
           u == [old EXCEPT !.busy = FALSE]
           v == [u EXCEPT !.text = <<>>]
<1>1. old \in Bridge /\ heard[b] \in Seq(Nat)
      /\ heard' = [heard EXCEPT ![b] = heard[b]] /\ <<>> \in Seq(Nat)
  BY DEF CallsTyped, Speak, FailVoiceTurn, FailBeforeTurn
<1>2. /\ Speak(b) => bridge' = [bridge EXCEPT ![b] = [v EXCEPT !.conversation = work[b]]]
      /\ ~Speak(b) => bridge' = [bridge EXCEPT ![b] = v]
  BY DEF Speak, FailVoiceTurn, FailBeforeTurn
<1> HIDE DEF old
<1>3. u \in Bridge /\ u.busy = FALSE /\ u.live = old.live /\ u.conversation = old.conversation
  BY <1>1 DEF Bridge
<1> HIDE DEF u
<1>4. /\ v \in Bridge /\ v.busy = FALSE /\ v.live = old.live /\ v.text = <<>>
      /\ v.conversation = old.conversation
  BY <1>1, <1>3 DEF Bridge
<1> HIDE DEF v
<1>5. CASE Speak(b)
  <2> DEFINE r == [v EXCEPT !.conversation = work[b]]
  <2>1. /\ r \in Bridge /\ r.busy = FALSE /\ r.live = old.live /\ r.text = <<>>
        /\ r.conversation = work[b]
    BY <1>4 DEF Bridge
  <2>2. bridge' = [bridge EXCEPT ![b] = r]
    BY <1>2, <1>5
  <2> HIDE DEF r
  <2> QED
    BY <1>1, <1>5, <2>1, <2>2, CallUpdate DEF old
<1>6. CASE ~Speak(b)
  BY <1>1, <1>2, <1>4, <1>6, CallUpdate DEF old
<1> QED
  BY <1>5, <1>6
=============================================================================
