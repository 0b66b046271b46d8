------------------------------- MODULE Threads -------------------------------
(***************************************************************************)
(* Conversations as the chat routes (api/routes/chat.py), the runner       *)
(* (agent/runner.py) and voice calls share them: who works on which, and   *)
(* what becomes of a conversation row.                                     *)
(*                                                                         *)
(* What a turn does to orders and tickets is in ChatTurn, what it does to  *)
(* messages in Transcript; here a turn begins, commits, ends or fails.     *)
(***************************************************************************)
EXTENDS Integers, FiniteSets

CONSTANTS
  Handlers,          \* the tasks that may run a turn at one time
  MaxConversations,  \* bound on the rows of conversations
  None

ASSUME ThreadsAssumption == MaxConversations \in Nat /\ None \notin Nat

VARIABLES
  status,  \* conversations.status, or where the row is in its life
  work     \* the conversation of the turn each handler runs

threadVars == <<status, work>>
-----------------------------------------------------------------------------
Conversations == 1..MaxConversations
Statuses == {"unused", "inserted", "active", "closed", "lost"}

Stored(c) == c # None /\ status[c] \in {"active", "closed"}
Known == {c \in Conversations : Stored(c)} \cup {None}
Unused == {c \in Conversations : status[c] = "unused"}
NextConversation == CHOOSE c \in Unused : \A d \in Unused : c <= d

ThreadsInit ==
  /\ status = [c \in Conversations |-> "unused"]
  /\ work = [w \in Handlers |-> None]

\* POST /conversations.
CreateConversation ==
  /\ Unused # {}
  /\ status' = [status EXCEPT ![NextConversation] = "active"]
  /\ UNCHANGED work

\* POST /conversations/{id}/close; closing twice changes nothing.
CloseConversation(c) ==
  /\ status[c] = "active"
  /\ status' = [status EXCEPT ![c] = "closed"]
  /\ UNCHANGED work

\* Mutant: the route does not look at the status.
AcceptsAny(c) == TRUE

\* POST /chat answers 409 for a closed conversation; the voice bridge never asks.
Accepts(c) == Stored(c) => status[c] # "closed"

\* _load_or_create_conversation: an id that is not stored gets a new conversation.
BeginTurn(w, c) ==
  /\ work[w] = None
  /\ \/ /\ Stored(c)
        /\ work' = [work EXCEPT ![w] = c]
        /\ UNCHANGED status
     \/ /\ ~Stored(c) /\ Unused # {}
        /\ work' = [work EXCEPT ![w] = NextConversation]
        /\ status' = [status EXCEPT ![NextConversation] = "inserted"]

\* The first commit of a turn makes the conversation it inserted visible.
Keep(w) ==
  /\ work[w] # None /\ status[work[w]] = "inserted"
  /\ status' = [status EXCEPT ![work[w]] = "active"]
  /\ UNCHANGED work

\* The reply.  The answer was committed before.
EndTurn(w) ==
  /\ work[w] # None /\ Stored(work[w])
  /\ work' = [work EXCEPT ![w] = None]
  /\ UNCHANGED status

\* An exception at any await rolls back what is not committed, a conversation
\* inserted by the turn included; its id is not used again.
FailTurn(w) ==
  /\ work[w] # None
  /\ work' = [work EXCEPT ![w] = None]
  /\ status' = [status EXCEPT ![work[w]] = IF @ = "inserted" THEN "lost" ELSE @]
-----------------------------------------------------------------------------
ThreadsTypeOK ==
  /\ status \in [Conversations -> Statuses]
  /\ work \in [Handlers -> Conversations \cup {None}]
=============================================================================
