------------------------------- MODULE ChatPage -------------------------------
(***************************************************************************)
(* The customer's chat page (frontend/src/pages/ChatPage.tsx with the      *)
(* composer and hooks/useVoice.ts) on top of the chat routes and voice     *)
(* calls.                                                                  *)
(*                                                                         *)
(* The page remembers one conversation id.  Requests are answered whenever *)
(* the server is done, and the page applies what arrives without asking    *)
(* whether the customer has moved on in the meantime.                      *)
(***************************************************************************)
EXTENDS VoiceBridge

VARIABLES
  page,     \* the state of the component
  request,  \* what the page awaits from each text handler
  minting,  \* POST /conversations is on its way
  loading,  \* GET messages of a conversation: asked for, or read and on its way back
  closing,  \* POST close: on its way, done and on its way back, or given up ("lost")
  crossed   \* history: the thread changed while something else was on its way

awaited == <<request, minting, loading, closing>>
pageVars == <<voiceVars, page, awaited, crossed>>
-----------------------------------------------------------------------------
Tabs == Handlers \ Bridges

Page == [id : Conversations \cup {None}, typing : BOOLEAN, closed : BOOLEAN,
         greeting : BOOLEAN,             \* nothing but the greeting is shown
         shown : SUBSET Conversations]   \* the threads the messages shown belong to

NewPage == [id |-> None, typing |-> FALSE, closed |-> FALSE, greeting |-> TRUE,
            shown |-> {}]

Request == [at : {"none", "sent", "open"}, conversation : Conversations \cup {None}]
NoRequest == [at |-> "none", conversation |-> None]

Loading == [at : {"none", "asked", "read"}, conversation : Conversations \cup {None},
            closed : BOOLEAN]   \* the status the server read
NotLoading == [at |-> "none", conversation |-> None, closed |-> FALSE]

Closing == [at : {"none", "sent", "done", "lost"}, conversation : Conversations \cup {None}]
NotClosing == [at |-> "none", conversation |-> None]

InFlight == {w \in Tabs : request[w].at # "none"}
OnItsWay == InFlight # {} \/ minting \/ LiveCalls # {} \/ closing.at # "none"

\* Bound: a message, a minting and a spoken turn are asked for only while there is
\* a conversation for each of them to insert.
RoomToInsert ==
  Cardinality(Unused) >
    Cardinality(Starting) + Cardinality({w \in Tabs : request[w].at = "sent"})
      + (IF minting THEN 1 ELSE 0)
-----------------------------------------------------------------------------
PageInit ==
  /\ VoiceInit
  /\ page = NewPage
  /\ request = [w \in Tabs |-> NoRequest]
  /\ minting = FALSE /\ loading = NotLoading /\ closing = NotClosing /\ crossed = FALSE

\* handleSend, by the composer, a chip or the starter.
Send(w) ==
  /\ ~page.closed /\ ~page.typing
  /\ request[w].at = "none" /\ work[w] = None /\ RoomToInsert
  /\ page' = [page EXCEPT !.typing = TRUE, !.greeting = FALSE]
  /\ request' = [request EXCEPT ![w] = [at |-> "sent", conversation |-> page.id]]
  /\ UNCHANGED <<voiceVars, minting, loading, closing, crossed>>

Arrive(w) ==
  /\ request[w].at = "sent" /\ Accepts(request[w].conversation)
  /\ BeginTurn(w, request[w].conversation)
  /\ request' = [request EXCEPT ![w].at = "open"]
  /\ UNCHANGED <<bridge, heard, page, minting, loading, closing, crossed>>

\* Mutant: the page does not take over the id of a conversation its message began.
ReplyArrivesNoId(w) ==
  /\ request[w].at = "open" /\ EndTurn(w)
  /\ page' = [page EXCEPT !.typing = FALSE, !.greeting = FALSE,
                          !.shown = page.shown \cup {work[w]}]
  /\ request' = [request EXCEPT ![w] = NoRequest]
  /\ UNCHANGED <<bridge, heard, minting, loading, closing, crossed>>

\* The reply reaches the page as the handler ends.
ReplyArrives(w) ==
  /\ request[w].at = "open" /\ EndTurn(w)
  /\ page' = [page EXCEPT !.id = work[w], !.typing = FALSE, !.greeting = FALSE,
                          !.shown = page.shown \cup {work[w]}]
  /\ request' = [request EXCEPT ![w] = NoRequest]
  /\ UNCHANGED <<bridge, heard, minting, loading, closing, crossed>>

\* Mutant: an error leaves the typing indicator on.
ShowSorryTyping(w) ==
  /\ page' = [page EXCEPT !.greeting = FALSE]
  /\ request' = [request EXCEPT ![w] = NoRequest]
  /\ UNCHANGED <<bridge, heard, minting, loading, closing, crossed>>

\* "Sorry - something went wrong": the page stops waiting.
ShowSorry(w) ==
  /\ page' = [page EXCEPT !.typing = FALSE, !.greeting = FALSE]
  /\ request' = [request EXCEPT ![w] = NoRequest]
  /\ UNCHANGED <<bridge, heard, minting, loading, closing, crossed>>

Refused(w) ==
  /\ request[w].at = "sent" /\ ~Accepts(request[w].conversation)
  /\ ShowSorry(w)
  /\ UNCHANGED threadVars

TurnFails(w) == request[w].at = "open" /\ FailTurn(w) /\ ShowSorry(w)

\* The connection breaks: before the request is through, or while the turn runs on.
ConnectionLost(w) == w \in InFlight /\ ShowSorry(w) /\ UNCHANGED threadVars

\* A turn nobody waits for any more.
AbandonedTurn(w) ==
  /\ request[w].at = "none" /\ (EndTurn(w) \/ FailTurn(w))
  /\ UNCHANGED <<bridge, heard, page, awaited, crossed>>
-----------------------------------------------------------------------------
\* handleEndChat, also while a reply is awaited.  Until the answer is there the page stays
\* as it is: composer, chips and call can be used.  Bound: one close request at a time.
EndChat ==
  /\ page.id # None /\ ~page.closed /\ closing.at = "none"
  /\ closing' = [at |-> "sent", conversation |-> page.id]
  /\ UNCHANGED <<voiceVars, page, request, minting, loading, crossed>>

\* The server closes the conversation, or finds it closed.
CloseArrives ==
  /\ closing.at \in {"sent", "lost"}
  /\ LET c == closing.conversation
     IN  CloseConversation(c) \/ (status[c] = "closed" /\ UNCHANGED threadVars)
  /\ closing' = IF closing.at = "sent" THEN [closing EXCEPT !.at = "done"] ELSE NotClosing
  /\ UNCHANGED <<bridge, heard, page, request, minting, loading, crossed>>

\* The answer: the composer is gone, and the voice client with it; the server learns that
\* the call is over when it sees the hang-up.
CloseAnswered ==
  /\ closing.at = "done"
  /\ page' = [page EXCEPT !.closed = TRUE]
  /\ closing' = NotClosing
  /\ UNCHANGED <<voiceVars, request, minting, loading, crossed>>

\* No answer: the page shows the chat as closed all the same.  The request may never have
\* been sent, may have been served, or may be served yet.
CloseFails ==
  /\ closing.at \in {"sent", "done"}
  /\ page' = [page EXCEPT !.closed = TRUE]
  /\ \/ closing' = NotClosing
     \/ closing.at = "sent" /\ closing' = [closing EXCEPT !.at = "lost"]
  /\ UNCHANGED <<voiceVars, request, minting, loading, crossed>>

\* handleNewChat, offered on a closed chat: nothing on its way is cancelled.
NewChat ==
  /\ page.closed
  /\ page' = NewPage
  /\ crossed' = (OnItsWay \/ loading.at # "none")
  /\ UNCHANGED <<voiceVars, awaited>>

\* The microphone, with a conversation at hand.  Bound: one call at a time.
StartVoice(b) ==
  /\ ~page.closed /\ LiveCalls = {} /\ page.id # None
  /\ ConnectCall(b, page.id)
  /\ UNCHANGED <<threadVars, page, awaited, crossed>>

\* Without one it is minted first (ensureConversation).
StartMinting ==
  /\ ~page.closed /\ LiveCalls = {} /\ page.id = None /\ ~minting /\ RoomToInsert
  /\ minting' = TRUE
  /\ UNCHANGED <<voiceVars, page, request, loading, closing, crossed>>

\* The minted conversation replaces whatever the page has by now.
Minted(b) ==
  /\ minting
  /\ CreateConversation /\ ConnectCall(b, NextConversation)
  /\ page' = [page EXCEPT !.id = NextConversation]
  /\ minting' = FALSE
  /\ crossed' = (crossed \/ InFlight # {} \/ page.id # None)
  /\ UNCHANGED <<request, loading, closing>>

\* Minting fails: the call begins a conversation the page never learns of.
MintFails(b) ==
  /\ minting /\ ConnectCall(b, None)
  /\ minting' = FALSE /\ crossed' = TRUE
  /\ UNCHANGED <<threadVars, page, request, loading, closing>>

\* An order with an open ticket is tapped in the starter of a fresh chat: its thread
\* is reopened.  Bound: one thread at a time.
TapOrder(c) ==
  /\ page.greeting /\ page.id = None /\ ~page.closed /\ loading.at = "none"
  /\ Stored(c)
  /\ loading' = [NotLoading EXCEPT !.at = "asked", !.conversation = c]
  /\ UNCHANGED <<voiceVars, page, request, minting, closing, crossed>>

\* The server reads messages and status (conversation_messages).
LoadRead ==
  /\ loading.at = "asked"
  /\ loading' = [loading EXCEPT !.at = "read",
                                !.closed = status[loading.conversation] = "closed"]
  /\ UNCHANGED <<voiceVars, page, request, minting, closing, crossed>>

\* Mutant: a reopened chat is always open.
LoadArrivesOpen ==
  /\ loading.at = "read"
  /\ page' = [page EXCEPT !.id = loading.conversation, !.closed = FALSE,
                          !.greeting = FALSE, !.shown = {loading.conversation}]
  /\ loading' = NotLoading
  /\ crossed' = (crossed \/ OnItsWay)
  /\ UNCHANGED <<voiceVars, request, minting, closing>>

\* What was read arrives: the page shows the thread as it was then.
LoadArrives ==
  /\ loading.at = "read"
  /\ page' = [page EXCEPT !.id = loading.conversation, !.closed = loading.closed,
                          !.greeting = FALSE, !.shown = {loading.conversation}]
  /\ loading' = NotLoading
  /\ crossed' = (crossed \/ OnItsWay)
  /\ UNCHANGED <<voiceVars, request, minting, closing>>

LoadFails ==
  /\ loading.at # "none" /\ loading' = NotLoading
  /\ UNCHANGED <<voiceVars, page, request, minting, closing, crossed>>
-----------------------------------------------------------------------------
\* What is heard and answered in a live call is added to the page.
CallStep(b) ==
  /\ \/ HearFragment(b) /\ page' = [page EXCEPT !.greeting = FALSE]
     \/ Speak(b) /\ page' = IF ~bridge[b].live THEN page
                            ELSE [page EXCEPT !.shown = page.shown \cup {work[b]}]
     \/ /\ \/ RoomToInsert /\ StopSpeaking(b)
           \/ BeginVoiceTurn(b) \/ FailVoiceTurn(b) \/ FailBeforeTurn(b) \/ HangUp(b)
        /\ UNCHANGED page
  /\ UNCHANGED <<awaited, crossed>>

Commit(w) == Keep(w) /\ UNCHANGED <<bridge, heard, page, awaited, crossed>>

\* What the server does next with the request of a tab.
TabProgress(w) == Arrive(w) \/ Refused(w) \/ Commit(w) \/ ReplyArrives(w)

PageNext ==
  \/ \E w \in Tabs : \/ Send(w) \/ TabProgress(w)
                     \/ TurnFails(w) \/ ConnectionLost(w) \/ AbandonedTurn(w)
  \/ \E b \in Bridges : \/ StartVoice(b) \/ Minted(b) \/ MintFails(b)
                        \/ CallStep(b) \/ Commit(b)
  \/ EndChat \/ CloseArrives \/ CloseAnswered \/ CloseFails
  \/ NewChat \/ StartMinting
  \/ \E c \in Conversations : TapOrder(c)
  \/ LoadRead \/ LoadArrives \/ LoadFails

PageSpec == PageInit /\ [][PageNext]_pageVars

FairPageSpec == PageSpec /\ \A w \in Tabs : WF_pageVars(TabProgress(w))
-----------------------------------------------------------------------------
PageTypeOK ==
  /\ VoiceTypeOK
  /\ page \in Page
  /\ request \in [Tabs -> Request]
  /\ minting \in BOOLEAN /\ crossed \in BOOLEAN
  /\ loading \in Loading /\ closing \in Closing

\* The page shows one thread, the one it will send the next message to, and voice
\* and text continue the same one -- unless the page was given another conversation
\* (new chat, a reopened order, a minted conversation) with an answer on its way.
PageShowsOneThread == crossed \/ page.shown \subseteq {page.id}

\* Under the same proviso the page offers to write to a closed conversation only while
\* the answer to its own close request is on the way: whatever chat.py refuses then "only
\* fires on a stale ... request".
PageKnowsClosed ==
  (page.id # None /\ ~page.closed /\ ~crossed /\ status[page.id] = "closed")
    => closing.at = "done" /\ closing.conversation = page.id

\* A chat that has ended is left alone: no text turn begins in it, and a spoken one only
\* while its call is being ended -- it was hung up, the page has let go of it, or the page
\* is about to learn that the chat is closed.
EndedChatIsLeftAlone ==
  [][ \A w \in Handlers :
        (work[w] # work'[w] /\ work'[w] # None /\ ~crossed
           /\ status[work'[w]] = "closed")
        => w \in Bridges /\ (~bridge[w].live \/ page.closed \/ closing.at = "done")
    ]_pageVars

\* The customer is not left waiting: whatever becomes of a request, the typing
\* indicator, which blocks the next message, goes away.
TypingEnds == page.typing ~> ~page.typing
=============================================================================
