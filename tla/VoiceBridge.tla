----------------------------- MODULE VoiceBridge -----------------------------
(***************************************************************************)
(* Voice calls (voice/agent_bridge.py, voice/live.py, api/routes/voice.py) *)
(* and text requests on the same conversations.                            *)
(*                                                                         *)
(* Speech recognition delivers a sentence in fragments, possibly after the *)
(* pause that ends it was reported; the pause may be reported twice.  The  *)
(* turn runs as a task beside the audio and outlives its call.             *)
(***************************************************************************)
EXTENDS Threads, Sequences

CONSTANTS
  Bridges,       \* the calls, one AgentBridge each
  MaxFragments   \* bound on the fragments heard in a call

ASSUME VoiceAssumption == Bridges \subseteq Handlers /\ MaxFragments \in Nat

VARIABLES
  bridge,  \* the AgentBridge of each call
  heard    \* history: what was recognised in the call that is live

voiceVars == <<threadVars, bridge, heard>>
-----------------------------------------------------------------------------
Bridge == [live : BOOLEAN, conversation : Conversations \cup {None},
           buffer : Seq(Nat), busy : BOOLEAN,
           text : Seq(Nat)]   \* the argument of the task _handle

HungUp == [live |-> FALSE, conversation |-> None, buffer |-> <<>>, busy |-> FALSE,
           text |-> <<>>]

LiveCalls == {b \in Bridges : bridge[b].live}

\* The tasks that have not reached run_chat_turn yet.
Starting == {b \in Bridges : bridge[b].busy /\ work[b] = None}

VoiceInit ==
  /\ ThreadsInit
  /\ bridge = [b \in Bridges |-> HungUp]
  /\ heard = [b \in Bridges |-> <<>>]

\* A call continues the conversation of the page, or begins without one.
ConnectCall(b, c) ==
  /\ ~bridge[b].live /\ ~bridge[b].busy
  /\ bridge' = [bridge EXCEPT ![b] = [HungUp EXCEPT !.live = TRUE, !.conversation = c]]
  /\ UNCHANGED heard

\* Fragments are numbered, to tell whether one is lost, repeated or out of order.
HearFragment(b) ==
  /\ bridge[b].live /\ Len(heard[b]) < MaxFragments
  /\ bridge' = [bridge EXCEPT ![b].buffer = Append(bridge[b].buffer, Len(heard[b]) + 1)]
  /\ heard' = [heard EXCEPT ![b] = Append(heard[b], Len(heard[b]) + 1)]
  /\ UNCHANGED threadVars

\* Mutant: the buffer is handed over without regard to the turn that is running.
StopSpeakingWhileBusy(b) ==
  /\ bridge[b].live /\ bridge[b].buffer # <<>>
  /\ bridge' = [bridge EXCEPT ![b].busy = TRUE, ![b].buffer = <<>>,
                              ![b].text = bridge[b].buffer]
  /\ UNCHANGED <<threadVars, heard>>

\* Mutant: a pause reported twice starts a turn on nothing.
StopSpeakingUnheard(b) ==
  /\ bridge[b].live /\ ~bridge[b].busy
  /\ bridge' = [bridge EXCEPT ![b].busy = TRUE, ![b].buffer = <<>>,
                              ![b].text = bridge[b].buffer]
  /\ UNCHANGED <<threadVars, heard>>

\* A stop frame.  It does nothing while the buffer is empty (a second report of the
\* same pause) or a turn is running: what is buffered then waits for the next pause.
StopSpeaking(b) ==
  /\ bridge[b].live /\ bridge[b].buffer # <<>> /\ ~bridge[b].busy
  /\ bridge' = [bridge EXCEPT ![b].busy = TRUE, ![b].buffer = <<>>,
                              ![b].text = bridge[b].buffer]
  /\ UNCHANGED <<threadVars, heard>>

\* The task reaches run_chat_turn.
BeginVoiceTurn(b) ==
  /\ b \in Starting
  /\ BeginTurn(b, bridge[b].conversation)
  /\ UNCHANGED <<bridge, heard>>

\* Mutant: the conversation id is not kept for the next turn.
SpeakAndForget(b) ==
  /\ EndTurn(b)
  /\ bridge' = [bridge EXCEPT ![b].busy = FALSE, ![b].text = <<>>]
  /\ UNCHANGED heard

\* The id is stored (by _run_turn), the reply is sent and spoken, then the flag is reset.
\* One step: only the next _handle reads the id, and the flag keeps it from starting; speech,
\* a pause or a hang-up in between has the effect it has just before this step.
Speak(b) ==
  /\ EndTurn(b)
  /\ bridge' = [bridge EXCEPT ![b].busy = FALSE, ![b].text = <<>>,
                              ![b].conversation = work[b]]
  /\ UNCHANGED heard

\* Mutant: the flag is not reset in a finally clause.
FailVoiceTurnBusy(b) == FailTurn(b) /\ UNCHANGED <<bridge, heard>>

\* The exception is logged and the customer told nothing; the conversation id stays
\* what it was, even if the turn had inserted and committed one.
FailVoiceTurn(b) ==
  /\ FailTurn(b)
  /\ bridge' = [bridge EXCEPT ![b].busy = FALSE, ![b].text = <<>>]
  /\ UNCHANGED heard

\* The task fails before it has a conversation.
FailBeforeTurn(b) ==
  /\ b \in Starting
  /\ bridge' = [bridge EXCEPT ![b].busy = FALSE, ![b].text = <<>>]
  /\ UNCHANGED <<threadVars, heard>>

\* The client is gone: the pipeline is cancelled, a running turn is not.
HangUp(b) ==
  /\ bridge[b].live
  /\ bridge' = [bridge EXCEPT ![b].live = FALSE, ![b].buffer = <<>>]
  /\ heard' = [heard EXCEPT ![b] = <<>>]
  /\ UNCHANGED threadVars
-----------------------------------------------------------------------------
BridgeStep(b) ==
  \/ \E c \in Known : ConnectCall(b, c) /\ UNCHANGED threadVars
  \/ HearFragment(b) \/ StopSpeaking(b) \/ HangUp(b)
  \/ BeginVoiceTurn(b) \/ Speak(b) \/ FailVoiceTurn(b) \/ FailBeforeTurn(b)
  \/ Keep(b) /\ UNCHANGED <<bridge, heard>>

\* Requests of POST /chat and of the other chat routes.
TextStep(w) ==
  \/ \E c \in Known : Accepts(c) /\ BeginTurn(w, c)
  \/ Keep(w) \/ EndTurn(w) \/ FailTurn(w)

VoiceNext ==
  \/ \E b \in Bridges : BridgeStep(b)
  \/ /\ \/ \E w \in Handlers \ Bridges : TextStep(w)
        \/ CreateConversation
        \/ \E c \in Conversations : CloseConversation(c)
     /\ UNCHANGED <<bridge, heard>>

VoiceSpec == VoiceInit /\ [][VoiceNext]_voiceVars
-----------------------------------------------------------------------------
VoiceTypeOK ==
  /\ ThreadsTypeOK
  /\ bridge \in [Bridges -> Bridge]
  /\ heard \in [Bridges -> Seq(Nat)]
  /\ \A b \in Bridges :
       /\ bridge[b].busy <=> bridge[b].text # <<>>
       /\ work[b] # None => bridge[b].busy

\* The bridge keeps the promise of Dialogue: what was handed over is what was heard
\* less what is in the buffer, and the question is the text of the task.
Promise == INSTANCE Dialogue WITH
  Calls <- Bridges, Fragments <- 1..MaxFragments,
  handed <- [b \in Bridges |-> Len(heard[b]) - Len(bridge[b].buffer)],
  question <- [b \in Bridges |-> bridge[b].text]

SpeechHandedOverInOrder == Promise!DialogueSpec
=============================================================================
