------------------------------- MODULE Dialogue -------------------------------
(***************************************************************************)
(* What a voice call promises its speaker, whatever the timing of speech   *)
(* recognition, pauses and turns: everything heard is handed to the agent  *)
(* piece by piece, in the order it was spoken, no fragment twice and none  *)
(* skipped, and one piece at a time.  VoiceBridge implements it.           *)
(***************************************************************************)
EXTENDS Integers, Sequences

CONSTANTS Calls, Fragments

VARIABLES
  heard,     \* the fragments of speech recognised so far, per call
  handed,    \* how many of them the agent was given
  question   \* the piece the agent works on, or empty

dialogueVars == <<heard, handed, question>>

DialogueInit ==
  /\ heard = [b \in Calls |-> <<>>]
  /\ handed = [b \in Calls |-> 0]
  /\ question = [b \in Calls |-> <<>>]

\* The speaker hangs up: speech not yet handed over is dropped, a question that was
\* is still worked on.
HangUp(b) ==
  /\ heard' = [heard EXCEPT ![b] = <<>>]
  /\ handed' = [handed EXCEPT ![b] = 0]
  /\ UNCHANGED question

Hear(b) ==
  /\ \E fragment \in Fragments :
       heard' = [heard EXCEPT ![b] = Append(heard[b], fragment)]
  /\ UNCHANGED <<handed, question>>

HandOver(b) ==
  /\ question[b] = <<>> /\ handed[b] < Len(heard[b])
  /\ question' = [question EXCEPT ![b] =
                    SubSeq(heard[b], handed[b] + 1, Len(heard[b]))]
  /\ handed' = [handed EXCEPT ![b] = Len(heard[b])]
  /\ UNCHANGED heard

\* The agent has answered the piece, or failed to.
Finish(b) ==
  /\ question[b] # <<>>
  /\ question' = [question EXCEPT ![b] = <<>>]
  /\ UNCHANGED <<heard, handed>>

DialogueNext == \E b \in Calls : HangUp(b) \/ Hear(b) \/ HandOver(b) \/ Finish(b)

DialogueSpec == DialogueInit /\ [][DialogueNext]_dialogueVars
=============================================================================
