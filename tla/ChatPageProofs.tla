---------------------------- MODULE ChatPageProofs ----------------------------
(***************************************************************************)
(* Theorems about ChatPage.  As long as nothing crossed, everything on its *)
(* way belongs to the conversation of the page: the one request it awaits, *)
(* the close request, the call that is live and the turns of all of them;  *)
(* only a thread that is being reopened is another one.                    *)
(***************************************************************************)
EXTENDS ChatPage, VoiceBridgeProofs

\* What the page knows of is stored.
IdsStored ==
  /\ page.id # None => Stored(page.id)
  /\ loading.at # "none" => Stored(loading.conversation)
  /\ closing.at # "none" => Stored(closing.conversation)

\* The page awaits at most one request, one on its own conversation.
RequestsBelong ==
  /\ \A w \in InFlight : page.typing /\ \A v \in InFlight : v = w
  /\ \A w \in Tabs : request[w].at = "sent" => request[w].conversation = page.id
  /\ \A w \in Tabs : request[w].at = "open" =>
       IF page.id = None THEN work[w] # None /\ status[work[w]] # "closed"
       ELSE work[w] = page.id

CallsBelong ==
  \A b \in LiveCalls : /\ page.id # None /\ bridge[b].conversation = page.id
                       /\ work[b] \in {None, page.id}

ThreadBelongs ==
  /\ page.shown \subseteq {page.id}
  /\ page.id # None /\ ~page.closed /\ status[page.id] = "closed" => closing.at = "done"

ClosingBelongs ==
  closing.at # "none" => /\ closing.conversation = page.id
                         /\ closing.at = "lost" => page.closed

\* A thread that is being reopened is not the one of the page, so nothing the page does
\* meanwhile can close it: what was read of it is still true when it arrives.
LoadingApart ==
  loading.at # "none" =>
    /\ page.id # loading.conversation
    /\ \A w \in Tabs : request[w].at = "open" => work[w] # loading.conversation
    /\ loading.at = "read" /\ ~loading.closed => status[loading.conversation] # "closed"

PageInv ==
  /\ PageTypeOK /\ IdsStored
  /\ page.greeting => ~page.typing
  /\ ~crossed => /\ RequestsBelong /\ CallsBelong /\ ThreadBelongs
                 /\ ClosingBelongs /\ LoadingApart
-----------------------------------------------------------------------------
LEMMA PageTypes ==
  PageTypeOK <=> /\ ThreadsTypeOK /\ CallsTyped
                 /\ \A b \in Bridges : work[b] # None => bridge[b].busy
                 /\ page \in Page /\ request \in [Tabs -> Request]
                 /\ minting \in BOOLEAN /\ crossed \in BOOLEAN
                 /\ loading \in Loading /\ closing \in Closing
BY VoiceTypes DEF PageTypeOK

LEMMA AwaitedTypes ==
  ASSUME PageTypeOK
  PROVE  /\ page.id \in Conversations \cup {None}
         /\ loading.conversation \in Conversations \cup {None}
         /\ closing.conversation \in Conversations \cup {None}
         /\ \A w \in Tabs : request[w].conversation \in Conversations \cup {None}
BY DEF PageTypeOK, Page, Loading, Closing, Request

\* No step but CloseArrives closes a conversation.
LEMMA OpenStays ==
  ASSUME ThreadsTypeOK,
         \/ \E w \in Handlers : Keep(w) \/ EndTurn(w) \/ FailTurn(w)
         \/ \E w \in Handlers, c \in Conversations \cup {None} : BeginTurn(w, c)
         \/ CreateConversation
         \/ UNCHANGED threadVars
  PROVE  \A c \in Conversations : status'[c] = "closed" => status[c] = "closed"
<1>1. Unused # {} => NextConversation \in Conversations
  BY NextIsUnused DEF Unused
<1>2. ASSUME NEW w \in Handlers, Keep(w) \/ EndTurn(w) \/ FailTurn(w)
      PROVE  \A c \in Conversations : status'[c] = "closed" => status[c] = "closed"
  BY <1>2 DEF Keep, EndTurn, FailTurn, ThreadsTypeOK
<1>3. ASSUME NEW w \in Handlers, NEW c \in Conversations \cup {None}, BeginTurn(w, c)
      PROVE  \A d \in Conversations : status'[d] = "closed" => status[d] = "closed"
  BY <1>1, <1>3 DEF BeginTurn, ThreadsTypeOK
<1>4. CASE CreateConversation
  BY <1>1, <1>4 DEF CreateConversation, ThreadsTypeOK
<1>5. CASE UNCHANGED threadVars
  BY <1>5 DEF threadVars
<1> QED
  BY <1>2, <1>3, <1>4, <1>5

\* The threads across every step of a handler.
ThreadsGoOn ==
  /\ ThreadsTypeOK'
  /\ \A c \in Conversations : /\ Stored(c) => Stored(c)'
                              /\ status'[c] = "closed" => status[c] = "closed"

LEMMA ThreadsGo ==
  ASSUME ThreadsTypeOK,
         \/ \E w \in Handlers : Keep(w) \/ EndTurn(w) \/ FailTurn(w)
         \/ \E w \in Handlers, c \in Conversations \cup {None} : BeginTurn(w, c)
         \/ CreateConversation
         \/ UNCHANGED threadVars
  PROVE  ThreadsGoOn
BY ThreadsStep, OpenStays DEF ThreadsGoOn

\* What the page knows of stays stored.
LEMMA IdsStay ==
  ASSUME PageTypeOK, IdsStored, UNCHANGED <<loading, closing>>,
         \A c \in Conversations : Stored(c) => Stored(c)',
         page'.id = page.id \/ status'[page'.id] \in {"active", "closed"}
  PROVE  IdsStored'
BY AwaitedTypes DEF IdsStored, Stored

\* What is on its way aside from messages, while the page keeps its conversation or is
\* given its first one.
LEMMA AsideStays ==
  ASSUME PageInv, ~crossed, UNCHANGED <<loading, closing>>, page'.closed = page.closed,
         \A c \in Conversations : status'[c] = "closed" => status[c] = "closed",
         \/ page'.id = page.id
         \/ page.id = None /\ (loading.at # "none" => page'.id # loading.conversation),
         \A w \in Tabs : request'[w].at = "open" =>
           \/ request[w].at = "open" /\ work'[w] = work[w]
           \/ loading.at # "none" => work'[w] # loading.conversation
  PROVE  ClosingBelongs' /\ LoadingApart'
<1>1. PageTypeOK /\ IdsStored /\ ClosingBelongs /\ LoadingApart
  BY DEF PageInv
<1>2. page.id = None => closing.at = "none"
  BY <1>1 DEF IdsStored, ClosingBelongs, Stored
<1>3. ClosingBelongs'
  BY <1>1, <1>2 DEF ClosingBelongs
<1>4. LoadingApart'
  BY <1>1, AwaitedTypes DEF LoadingApart, IdsStored, Stored
<1> QED
  BY <1>3, <1>4
-----------------------------------------------------------------------------
\* A step that gives the page no other conversation and touches nothing on its way.
LEMMA RestKeeps ==
  ASSUME PageInv, PageTypeOK', ThreadsGoOn, UNCHANGED <<request, loading, closing>>,
         crossed => crossed',
         page'.id = page.id, page'.closed = page.closed, page'.typing = page.typing,
         page'.greeting => page.greeting,
         ~crossed' => /\ CallsBelong' /\ page'.shown \subseteq page.shown \cup {page.id}
                      /\ \A w \in Tabs : request[w].at = "open" => work'[w] = work[w]
  PROVE  PageInv'
<1>1. PageTypeOK /\ page.id \in Conversations \cup {None}
  BY AwaitedTypes DEF PageInv
<1>2. IdsStored'
  BY <1>1, IdsStay DEF PageInv, ThreadsGoOn
<1>3. ASSUME ~crossed' PROVE RequestsBelong' /\ CallsBelong' /\ ThreadBelongs'
  <2>1. ~crossed /\ RequestsBelong /\ ThreadBelongs /\ InFlight' = InFlight
    BY <1>3 DEF PageInv, InFlight
  <2>2. \A c \in Conversations : status'[c] = "closed" => status[c] = "closed"
    BY DEF ThreadsGoOn
  <2>3. \A w \in Tabs : work[w] # None => work[w] \in Conversations
    BY DEF Tabs, PageInv, PageTypeOK, VoiceTypeOK, ThreadsTypeOK
  <2>4. RequestsBelong'
    BY <1>3, <2>1, <2>2, <2>3 DEF RequestsBelong
  <2>5. ThreadBelongs'
    BY <1>1, <1>3, <2>1, <2>2 DEF ThreadBelongs
  <2> QED
    BY <1>3, <2>4, <2>5
<1>4. ASSUME ~crossed' PROVE ClosingBelongs' /\ LoadingApart'
  BY <1>4, AsideStays DEF ThreadsGoOn
<1> QED
  BY <1>2, <1>3, <1>4 DEF PageInv
-----------------------------------------------------------------------------
LEMMA RequestUpdate ==
  ASSUME PageTypeOK, NEW w \in Tabs, NEW r \in Request, request' = [request EXCEPT ![w] = r]
  PROVE  /\ request' \in [Tabs -> Request] /\ request'[w] = r
         /\ \A v \in Tabs \ {w} : request'[v] = request[v]
BY DEF PageTypeOK

\* A turn begins in the conversation it was given, or in a fresh one.
LEMMA BeginsIn ==
  ASSUME ThreadsTypeOK, NEW w \in Handlers, NEW c \in Conversations \cup {None}, BeginTurn(w, c)
  PROVE  \/ Stored(c) /\ work'[w] = c
         \/ ~Stored(c) /\ status[work'[w]] = "unused" /\ status'[work'[w]] = "inserted"
<1>1. CASE Stored(c)
  BY <1>1, WorkStep
<1>2. CASE ~Stored(c)
  <2>1. /\ NextConversation \in Unused /\ work' = [work EXCEPT ![w] = NextConversation]
        /\ status' = [status EXCEPT ![NextConversation] = "inserted"]
    BY <1>2, NextIsUnused DEF BeginTurn
  <2>2. work'[w] = NextConversation
    BY <2>1 DEF ThreadsTypeOK
  <2>3. NextConversation \in Conversations /\ status[NextConversation] = "unused"
    BY <2>1 DEF Unused
  <2>4. status'[NextConversation] = "inserted"
    BY <2>1, <2>3 DEF ThreadsTypeOK
  <2> QED
    BY <1>2, <2>2, <2>3, <2>4
<1> QED
  BY <1>1, <1>2

LEMMA SendKeeps ==
  ASSUME PageInv, NEW w \in Tabs, Send(w)
  PROVE  PageInv'
<1> DEFINE r == [at |-> "sent", conversation |-> page.id]
<1>1. PageTypeOK /\ page \in Page /\ page.id \in Conversations \cup {None}
  BY DEF PageInv, PageTypeOK, Page
<1>2. /\ request' = [request EXCEPT ![w] = r] /\ ~page.typing
      /\ UNCHANGED <<voiceVars, minting, loading, closing, crossed>>
  BY DEF Send
<1>3. r \in Request /\ r.at = "sent" /\ r.conversation = page.id
  BY <1>1 DEF Request
<1> HIDE DEF r
<1>4. /\ request' \in [Tabs -> Request] /\ request'[w] = r
      /\ \A v \in Tabs \ {w} : request'[v] = request[v]
  BY <1>1, <1>2, <1>3, RequestUpdate
<1>5. /\ page' \in Page /\ page'.id = page.id /\ page'.closed = page.closed
      /\ page'.typing = TRUE /\ page'.shown = page.shown /\ page'.greeting = FALSE
  BY <1>1 DEF Send, Page
<1>6. UNCHANGED <<status, work, bridge, heard>>
  BY <1>2 DEF voiceVars, threadVars
<1>7. PageTypeOK'
  BY <1>1, <1>2, <1>4, <1>5, <1>6 DEF PageTypeOK, VoiceTypeOK, ThreadsTypeOK
<1>8. IdsStored'
  BY <1>2, <1>5, <1>6 DEF PageInv, IdsStored, Stored
<1>9. ASSUME ~crossed' PROVE ClosingBelongs' /\ LoadingApart'
  BY <1>2, <1>3, <1>4, <1>5, <1>6, <1>9, AsideStays
<1>10. ASSUME ~crossed' PROVE RequestsBelong' /\ CallsBelong' /\ ThreadBelongs'
  <2>1. RequestsBelong /\ CallsBelong /\ ThreadBelongs
    BY <1>2, <1>10 DEF PageInv
  <2>2. \A v \in Tabs : request[v].at = "none"
    BY <1>2, <2>1 DEF RequestsBelong, InFlight
  <2>3. InFlight' = {w}
    BY <1>3, <1>4, <2>2 DEF InFlight
  <2>4. RequestsBelong'
    BY <1>3, <1>4, <1>5, <2>2, <2>3 DEF RequestsBelong
  <2>5. CallsBelong' /\ ThreadBelongs'
    BY <1>2, <1>5, <1>6, <2>1 DEF CallsBelong, LiveCalls, ThreadBelongs
  <2> QED
    BY <2>4, <2>5
<1> QED
  BY <1>5, <1>7, <1>8, <1>9, <1>10 DEF PageInv

LEMMA ArriveKeeps ==
  ASSUME PageInv, NEW w \in Tabs, Arrive(w)
  PROVE  PageInv'
<1> DEFINE r == [request[w] EXCEPT !.at = "open"]
           c == request[w].conversation
<1>1. /\ PageTypeOK /\ ThreadsTypeOK /\ w \in Handlers \ Bridges
      /\ request[w] \in Request /\ c \in Conversations \cup {None}
  BY PageTypes DEF PageInv, Tabs, PageTypeOK, Request
<1>2. /\ request' = [request EXCEPT ![w] = r] /\ request[w].at = "sent" /\ BeginTurn(w, c)
      /\ UNCHANGED <<bridge, heard, page, minting, loading, closing, crossed>>
  BY DEF Arrive
<1>3. r \in Request /\ r.at = "open"
  BY <1>1 DEF Request
<1> HIDE DEF r, c
<1>4. /\ request' \in [Tabs -> Request] /\ request'[w] = r
      /\ \A v \in Tabs \ {w} : request'[v] = request[v]
  BY <1>1, <1>2, <1>3, RequestUpdate
<1>5. /\ work'[w] \in Conversations
      /\ \A v \in Handlers \ {w} : work'[v] = work[v]
      /\ ThreadsGoOn
      /\ \/ Stored(c) /\ work'[w] = c
         \/ ~Stored(c) /\ status[work'[w]] = "unused" /\ status'[work'[w]] = "inserted"
  BY <1>1, <1>2, WorkStep, ThreadsGo, BeginsIn
<1>6. PageTypeOK'
  <2>1. \A b \in Bridges : work'[b] # None => bridge[b].busy
    BY <1>1, <1>5, VoiceAssumption DEF PageTypeOK, VoiceTypeOK
  <2> QED
    BY <1>1, <1>2, <1>4, <1>5, <2>1 DEF PageTypeOK, VoiceTypeOK, ThreadsGoOn
<1>7. page.id \in Conversations \cup {None} /\ loading.conversation \in Conversations \cup {None}
  BY <1>1, AwaitedTypes
<1>8. IdsStored'
  BY <1>1, <1>2, <1>5, IdsStay DEF PageInv, ThreadsGoOn
<1>9. ASSUME ~crossed'
      PROVE  /\ RequestsBelong' /\ CallsBelong' /\ ThreadBelongs'
             /\ ClosingBelongs' /\ LoadingApart'
  <2>1. RequestsBelong /\ CallsBelong /\ ThreadBelongs
    BY <1>2, <1>9 DEF PageInv
  <2>2. InFlight = {w} /\ page.typing /\ c = page.id
    BY <1>2, <2>1 DEF RequestsBelong, InFlight, c
  <2>3. InFlight' = {w} /\ \A v \in Tabs \ {w} : request'[v].at = "none"
    BY <1>3, <1>4, <2>2 DEF InFlight
  <2>4. RequestsBelong'
    <3>1. CASE page.id = None
      <4>1. status'[work'[w]] # "closed" /\ work'[w] # None
        BY <1>5, <2>2, <3>1, ThreadsAssumption DEF Stored, Conversations
      <4> QED
        BY <1>2, <1>3, <1>4, <2>2, <2>3, <3>1, <4>1 DEF RequestsBelong
    <3>2. CASE page.id # None
      <4>1. work'[w] = page.id
        BY <1>5, <2>2, <3>2 DEF PageInv, IdsStored
      <4> QED
        BY <1>2, <1>3, <1>4, <2>2, <2>3, <3>2, <4>1 DEF RequestsBelong
    <3> QED
      BY <3>1, <3>2
  <2>5. CallsBelong'
    BY <1>1, <1>2, <1>5, <2>1, VoiceAssumption DEF CallsBelong, LiveCalls
  <2>6. ThreadBelongs'
    BY <1>2, <1>5, <1>7, <2>1 DEF ThreadBelongs, ThreadsGoOn
  <2>7. loading.at # "none" => work'[w] # loading.conversation
    BY <1>2, <1>5, <1>9, <2>2 DEF PageInv, IdsStored, LoadingApart, Stored
  <2>8. ClosingBelongs' /\ LoadingApart'
    BY <1>2, <1>5, <1>9, <2>3, <2>7, AsideStays DEF ThreadsGoOn
  <2> QED
    BY <2>4, <2>5, <2>6, <2>8
<1> QED
  BY <1>2, <1>6, <1>8, <1>9 DEF PageInv

LEMMA ReplyKeeps ==
  ASSUME PageInv, NEW w \in Tabs, ReplyArrives(w)
  PROVE  PageInv'
<1>1. /\ PageTypeOK /\ ThreadsTypeOK /\ w \in Handlers \ Bridges /\ page \in Page
      /\ \A b \in Bridges : work[b] # None => bridge[b].busy
  BY PageTypes DEF PageInv, Tabs, PageTypeOK
<1>2. /\ request' = [request EXCEPT ![w] = NoRequest] /\ request[w].at = "open" /\ EndTurn(w)
      /\ Stored(work[w]) /\ UNCHANGED <<status, bridge, heard, minting, loading, closing, crossed>>
  BY DEF ReplyArrives, EndTurn
<1>3. NoRequest \in Request /\ NoRequest.at = "none"
  BY DEF Request, NoRequest
<1>4. /\ request' \in [Tabs -> Request] /\ request'[w] = NoRequest
      /\ \A v \in Tabs \ {w} : request'[v] = request[v]
  BY <1>1, <1>2, <1>3, RequestUpdate
<1>5. /\ work[w] \in Conversations /\ work'[w] = None
      /\ \A v \in Handlers \ {w} : work'[v] = work[v]
      /\ ThreadsTypeOK'
  BY <1>1, <1>2, WorkStep, ThreadsStep
<1>6. /\ page' \in Page /\ page'.id = work[w] /\ page'.closed = page.closed
      /\ page'.typing = FALSE /\ page'.greeting = FALSE
      /\ page'.shown = page.shown \cup {work[w]}
  BY <1>1, <1>5 DEF ReplyArrives, Page
<1>7. PageTypeOK'
  <2>1. \A b \in Bridges : work'[b] # None => bridge[b].busy
    BY <1>1, <1>5, VoiceAssumption
  <2> QED
    BY <1>1, <1>2, <1>4, <1>5, <1>6, <2>1 DEF PageTypeOK, VoiceTypeOK
<1>8. IdsStored'
  <2>1. \A c \in Conversations : Stored(c) => Stored(c)'
    BY <1>2 DEF Stored
  <2>2. status'[page'.id] \in {"active", "closed"}
    BY <1>2, <1>6 DEF Stored
  <2> QED
    BY <1>1, <1>2, <2>1, <2>2, IdsStay DEF PageInv
<1>9. ASSUME ~crossed'
      PROVE  /\ RequestsBelong' /\ CallsBelong' /\ ThreadBelongs'
             /\ ClosingBelongs' /\ LoadingApart'
  <2>1. RequestsBelong /\ CallsBelong /\ ThreadBelongs /\ IdsStored
    BY <1>2, <1>9 DEF PageInv
  <2>2. InFlight = {w}
    BY <1>2, <2>1 DEF RequestsBelong, InFlight
  <2>3. \A v \in Tabs : request'[v].at = "none"
    BY <1>3, <1>4, <2>2 DEF InFlight
  <2>4. RequestsBelong'
    BY <2>3 DEF RequestsBelong, InFlight
  <2>5. page.id \in {None, work[w]} /\ (page.id = None => status[work[w]] # "closed")
    BY <1>2, <2>1 DEF RequestsBelong
  <2>6. CallsBelong'
    <3>1. LiveCalls' = LiveCalls
      BY <1>2 DEF LiveCalls
    <3>2. \A b \in LiveCalls : page.id = work[w] /\ work'[b] = work[b]
      BY <1>1, <1>5, <2>1, <2>5, VoiceAssumption DEF CallsBelong, LiveCalls
    <3> QED
      BY <1>2, <1>5, <1>6, <2>1, <3>1, <3>2 DEF CallsBelong
  <2>7. ThreadBelongs'
    <3>1. page.shown \subseteq {work[w]}
      <4>1. CASE page.id = None
        BY <1>1, <2>1, <4>1, ThreadsAssumption DEF ThreadBelongs, Page, Conversations
      <4>2. CASE page.id = work[w]
        BY <2>1, <4>2 DEF ThreadBelongs
      <4> QED
        BY <2>5, <4>1, <4>2
    <3> QED
      BY <1>2, <1>5, <1>6, <2>1, <2>5, <3>1 DEF ThreadBelongs
  <2>8. \/ page'.id = page.id
        \/ page.id = None /\ (loading.at # "none" => page'.id # loading.conversation)
    BY <1>2, <1>6, <1>9, <2>5 DEF PageInv, LoadingApart
  <2>9. ClosingBelongs' /\ LoadingApart'
    BY <1>2, <1>6, <1>9, <2>3, <2>8, AsideStays
  <2> QED
    BY <2>4, <2>6, <2>7, <2>9
<1> QED
  BY <1>6, <1>7, <1>8, <1>9 DEF PageInv

LEMMA SorryKeeps ==
  ASSUME PageInv, NEW w \in Tabs, Refused(w) \/ TurnFails(w) \/ ConnectionLost(w)
  PROVE  PageInv'
<1>1. /\ PageTypeOK /\ ThreadsTypeOK /\ w \in Handlers \ Bridges /\ page \in Page
      /\ \A b \in Bridges : work[b] # None => bridge[b].busy
  BY PageTypes DEF PageInv, Tabs, PageTypeOK
<1>2. /\ request' = [request EXCEPT ![w] = NoRequest] /\ w \in InFlight
      /\ FailTurn(w) \/ UNCHANGED threadVars
      /\ page' = [page EXCEPT !.typing = FALSE, !.greeting = FALSE]
      /\ UNCHANGED <<bridge, heard, minting, loading, closing, crossed>>
  BY DEF Refused, TurnFails, ConnectionLost, ShowSorry, InFlight
<1>3. NoRequest \in Request /\ NoRequest.at = "none"
  BY DEF Request, NoRequest
<1>4. /\ request' \in [Tabs -> Request] /\ request'[w] = NoRequest
      /\ \A v \in Tabs \ {w} : request'[v] = request[v]
  BY <1>1, <1>2, <1>3, RequestUpdate
<1>5. ThreadsGoOn /\ \A v \in Handlers \ {w} : work'[v] = work[v]
  BY <1>1, <1>2, WorkStep, ThreadsGo DEF threadVars
<1>6. /\ page' \in Page /\ page'.id = page.id /\ page'.closed = page.closed
      /\ page'.shown = page.shown /\ page'.greeting = FALSE
  BY <1>1, <1>2 DEF Page
<1>7. PageTypeOK'
  <2>1. \A b \in Bridges : work'[b] # None => bridge[b].busy
    BY <1>1, <1>5, VoiceAssumption
  <2> QED
    BY <1>1, <1>2, <1>4, <1>5, <1>6, <2>1 DEF PageTypeOK, VoiceTypeOK, ThreadsGoOn
<1>8. page.id \in Conversations \cup {None}
  BY <1>1, AwaitedTypes
<1>9. IdsStored'
  BY <1>1, <1>2, <1>5, <1>6, IdsStay DEF PageInv, ThreadsGoOn
<1>10. ASSUME ~crossed'
       PROVE  /\ RequestsBelong' /\ CallsBelong' /\ ThreadBelongs'
              /\ ClosingBelongs' /\ LoadingApart'
  <2>1. RequestsBelong /\ CallsBelong /\ ThreadBelongs
    BY <1>2, <1>10 DEF PageInv
  <2>2. \A v \in Tabs : request'[v].at = "none"
    BY <1>2, <1>3, <1>4, <2>1 DEF RequestsBelong, InFlight
  <2>3. RequestsBelong'
    BY <2>2 DEF RequestsBelong, InFlight
  <2>4. CallsBelong'
    BY <1>1, <1>2, <1>5, <1>6, <2>1, VoiceAssumption DEF CallsBelong, LiveCalls
  <2>5. ThreadBelongs'
    BY <1>2, <1>5, <1>6, <1>8, <2>1 DEF ThreadBelongs, ThreadsGoOn
  <2>6. ClosingBelongs' /\ LoadingApart'
    BY <1>2, <1>5, <1>6, <1>10, <2>2, AsideStays DEF ThreadsGoOn
  <2> QED
    BY <2>3, <2>4, <2>5, <2>6
<1> QED
  BY <1>6, <1>7, <1>9, <1>10 DEF PageInv
-----------------------------------------------------------------------------
\* The page asks for something, or is told of a thread that it does not show yet.
LEMMA AskKeeps ==
  ASSUME PageInv, \/ EndChat \/ StartMinting \/ LoadRead \/ LoadFails
                  \/ \E c \in Conversations : TapOrder(c)
  PROVE  PageInv'
<1>1. PageTypeOK /\ IdsStored
  BY DEF PageInv
<1>2. UNCHANGED <<status, work, bridge, heard, page, request, crossed>>
  BY DEF EndChat, StartMinting, LoadRead, LoadFails, TapOrder, voiceVars, threadVars
<1>3. /\ minting' \in BOOLEAN
      /\ \/ UNCHANGED closing
         \/ /\ closing' \in Closing /\ closing.at = "none" /\ closing'.at = "sent"
            /\ closing'.conversation = page.id /\ page.id # None
  <2>1. CASE EndChat
    BY <1>1, <2>1, AwaitedTypes DEF EndChat, PageTypeOK, Closing
  <2>2. CASE StartMinting
    BY <2>2 DEF StartMinting
  <2>3. CASE LoadRead \/ LoadFails \/ \E c \in Conversations : TapOrder(c)
    <3>1. UNCHANGED <<minting, closing>>
      BY <2>3 DEF LoadRead, LoadFails, TapOrder
    <3> QED
      BY <1>1, <3>1 DEF PageTypeOK
  <2> QED
    BY <2>1, <2>2, <2>3
<1>4. \/ UNCHANGED loading
      \/ loading' \in Loading /\ loading'.at = "none"
      \/ /\ loading' \in Loading /\ loading'.at = "asked" /\ page.greeting /\ page.id = None
         /\ loading'.conversation \in Conversations /\ Stored(loading'.conversation)
      \/ /\ loading' \in Loading /\ loading'.conversation = loading.conversation
         /\ loading.at # "none"
         /\ ~loading'.closed => status[loading.conversation] # "closed"
  <2>1. CASE EndChat \/ StartMinting
    BY <2>1 DEF EndChat, StartMinting
  <2>2. CASE LoadFails
    BY <2>2 DEF LoadFails, NotLoading, Loading
  <2>3. ASSUME NEW c \in Conversations, TapOrder(c)
        PROVE  /\ loading' \in Loading /\ loading'.at = "asked" /\ page.greeting /\ page.id = None
               /\ loading'.conversation \in Conversations /\ Stored(loading'.conversation)
    BY <2>3 DEF TapOrder, NotLoading, Loading
  <2>4. CASE LoadRead
    <3> DEFINE closed == status[loading.conversation] = "closed"
    <3>1. closed \in BOOLEAN
      OBVIOUS
    <3>2. /\ loading' = [loading EXCEPT !.at = "read", !.closed = closed]
          /\ loading.at # "none" /\ loading \in Loading
      BY <1>1, <2>4 DEF LoadRead, PageTypeOK
    <3>3. ~closed => status[loading.conversation] # "closed"
      OBVIOUS
    <3> HIDE DEF closed
    <3> QED
      BY <3>1, <3>2, <3>3 DEF Loading
  <2> QED
    BY <2>1, <2>2, <2>3, <2>4
<1>5. PageTypeOK'
  BY <1>1, <1>2, <1>3, <1>4 DEF PageTypeOK, VoiceTypeOK, ThreadsTypeOK
<1>6. IdsStored'
  BY <1>1, <1>2, <1>3, <1>4 DEF IdsStored, Stored
<1>7. ASSUME ~crossed'
      PROVE  /\ RequestsBelong' /\ CallsBelong' /\ ThreadBelongs'
             /\ ClosingBelongs' /\ LoadingApart'
  <2>1. /\ RequestsBelong /\ CallsBelong /\ ThreadBelongs /\ ClosingBelongs /\ LoadingApart
        /\ page.greeting => ~page.typing
    BY <1>2, <1>7 DEF PageInv
  <2>2. RequestsBelong' /\ CallsBelong'
    BY <1>2, <2>1 DEF RequestsBelong, InFlight, CallsBelong, LiveCalls
  <2>3. ThreadBelongs' /\ ClosingBelongs'
    BY <1>2, <1>3, <2>1 DEF ThreadBelongs, ClosingBelongs
  <2>4. page.greeting => \A w \in Tabs : request[w].at # "open"
    BY <2>1 DEF RequestsBelong, InFlight
  <2>5. LoadingApart'
    BY <1>2, <1>4, <2>1, <2>4, ThreadsAssumption DEF LoadingApart, Conversations
  <2> QED
    BY <2>2, <2>3, <2>5
<1> QED
  BY <1>2, <1>5, <1>6, <1>7 DEF PageInv

\* Nothing but the conversation of the page is closed.
LEMMA CloseArrivesKeeps ==
  ASSUME PageInv, CloseArrives
  PROVE  PageInv'
<1> DEFINE c == closing.conversation
<1>1. PageTypeOK /\ ThreadsTypeOK /\ IdsStored /\ c \in Conversations \cup {None}
  BY AwaitedTypes DEF PageInv, PageTypeOK, VoiceTypeOK
<1>2. /\ CloseConversation(c) \/ UNCHANGED threadVars
      /\ UNCHANGED <<work, bridge, heard, page, request, minting, loading, crossed>>
      /\ closing.at \in {"sent", "lost"} /\ Stored(c) /\ c \in Conversations
  BY <1>1 DEF CloseArrives, CloseConversation, threadVars, IdsStored, Stored
<1>3. /\ closing' \in Closing
      /\ closing.at = "sent" => closing'.at = "done" /\ closing'.conversation = c
      /\ closing.at = "lost" => closing'.at = "none"
  BY <1>1, <1>2 DEF CloseArrives, PageTypeOK, Closing, NotClosing
<1> HIDE DEF c
<1>4. /\ ThreadsTypeOK'
      /\ \A d \in Conversations : /\ Stored(d) => Stored(d)'
                                  /\ d # c => status'[d] = status[d]
  BY <1>1, <1>2 DEF CloseConversation, threadVars, ThreadsTypeOK, Statuses, Stored
<1>5. PageTypeOK'
  BY <1>1, <1>2, <1>3, <1>4 DEF PageTypeOK, VoiceTypeOK
<1>6. IdsStored'
  <2>1. /\ page.id # None => page.id \in Conversations
        /\ loading.conversation # None => loading.conversation \in Conversations
    BY <1>1, AwaitedTypes
  <2> QED
    BY <1>1, <1>2, <1>3, <1>4, <2>1 DEF IdsStored, Stored
<1>7. ASSUME ~crossed'
      PROVE  /\ RequestsBelong' /\ CallsBelong' /\ ThreadBelongs'
             /\ ClosingBelongs' /\ LoadingApart'
  <2>1. RequestsBelong /\ CallsBelong /\ ThreadBelongs /\ ClosingBelongs /\ LoadingApart
    BY <1>2, <1>7 DEF PageInv
  <2>2. c = page.id /\ page.id # None /\ (closing.at = "lost" => page.closed)
    BY <1>2, <2>1 DEF ClosingBelongs, c, Stored
  <2>3. RequestsBelong' /\ CallsBelong'
    BY <1>2, <2>1, <2>2 DEF RequestsBelong, InFlight, CallsBelong, LiveCalls
  <2>4. ThreadBelongs' /\ ClosingBelongs'
    BY <1>2, <1>3, <2>1, <2>2 DEF ThreadBelongs, ClosingBelongs
  <2>5. LoadingApart'
    <3>1. loading.at # "none" => /\ loading.conversation \in Conversations
                                /\ loading.conversation # c
      BY <1>1, <2>1, <2>2, AwaitedTypes DEF LoadingApart, IdsStored, Stored
    <3> QED
      BY <1>2, <1>4, <2>1, <3>1 DEF LoadingApart
  <2> QED
    BY <2>3, <2>4, <2>5
<1> QED
  BY <1>2, <1>5, <1>6, <1>7 DEF PageInv

\* The page takes the chat for closed.
LEMMA CloseKnownKeeps ==
  ASSUME PageInv, CloseAnswered \/ CloseFails
  PROVE  PageInv'
<1>1. PageTypeOK /\ IdsStored /\ page \in Page
  BY DEF PageInv, PageTypeOK
<1>2. /\ UNCHANGED <<status, work, bridge, heard, request, minting, loading, crossed>>
      /\ page' = [page EXCEPT !.closed = TRUE]
  BY DEF CloseAnswered, CloseFails, voiceVars, threadVars
<1>3. /\ page' \in Page /\ page'.closed = TRUE /\ page'.id = page.id
      /\ page'.typing = page.typing /\ page'.greeting = page.greeting
      /\ page'.shown = page.shown
  BY <1>1, <1>2 DEF Page
<1>4. /\ closing' \in Closing
      /\ closing'.at = "none" \/ (closing.at # "none" /\ closing'.conversation = closing.conversation)
  BY <1>1 DEF CloseAnswered, CloseFails, PageTypeOK, Closing, NotClosing
<1>5. PageTypeOK'
  BY <1>1, <1>2, <1>3, <1>4 DEF PageTypeOK, VoiceTypeOK, ThreadsTypeOK
<1>6. IdsStored'
  BY <1>1, <1>2, <1>3, <1>4 DEF IdsStored, Stored
<1>7. ASSUME ~crossed'
      PROVE  /\ RequestsBelong' /\ CallsBelong' /\ ThreadBelongs'
             /\ ClosingBelongs' /\ LoadingApart'
  <2>1. RequestsBelong /\ CallsBelong /\ ThreadBelongs /\ ClosingBelongs /\ LoadingApart
    BY <1>2, <1>7 DEF PageInv
  <2>2. RequestsBelong' /\ CallsBelong' /\ LoadingApart'
    BY <1>2, <1>3, <2>1 DEF RequestsBelong, InFlight, CallsBelong, LiveCalls, LoadingApart
  <2>3. ThreadBelongs' /\ ClosingBelongs'
    BY <1>3, <1>4, <2>1 DEF ThreadBelongs, ClosingBelongs
  <2> QED
    BY <2>2, <2>3
<1> QED
  BY <1>3, <1>5, <1>6, <1>7 DEF PageInv

\* The page is given another thread, or none.
LEMMA NewThreadKeeps ==
  ASSUME PageInv, NewChat \/ LoadArrives
  PROVE  PageInv'
<1>1. PageTypeOK /\ IdsStored /\ page \in Page /\ loading \in Loading
  BY DEF PageInv, PageTypeOK
<1>2. UNCHANGED <<status, work, bridge, heard, request, minting, closing>>
  BY DEF NewChat, LoadArrives, awaited, voiceVars, threadVars
<1>3. /\ page' \in Page /\ loading' \in Loading /\ crossed' \in BOOLEAN
      /\ page'.id # None => Stored(page'.id)
      /\ page'.greeting => ~page'.typing
      /\ loading' \in {loading, NotLoading}
      /\ page'.shown \subseteq {page'.id}
      /\ ~crossed' => /\ InFlight = {} /\ LiveCalls = {} /\ closing.at = "none"
                      /\ loading'.at = "none"
                      /\ page'.id # None /\ ~page'.closed => status[page'.id] # "closed"
  <2>1. CASE NewChat
    <3>1. /\ page' = NewPage /\ UNCHANGED loading
          /\ crossed' = (OnItsWay \/ loading.at # "none")
      BY <2>1 DEF NewChat, awaited
    <3>2. /\ NewPage \in Page /\ NewPage.id = None /\ NewPage.typing = FALSE
          /\ NewPage.shown = {}
      BY DEF NewPage, Page
    <3> QED
      BY <1>1, <3>1, <3>2 DEF OnItsWay
  <2>2. CASE LoadArrives
    <3>1. /\ page' = [page EXCEPT !.id = loading.conversation, !.closed = loading.closed,
                                  !.greeting = FALSE, !.shown = {loading.conversation}]
          /\ loading' = NotLoading /\ loading.at = "read" /\ crossed' = (crossed \/ OnItsWay)
      BY <2>2 DEF LoadArrives
    <3>2. loading.conversation \in Conversations /\ Stored(loading.conversation)
      BY <1>1, <3>1, AwaitedTypes DEF IdsStored, Stored
    <3>3. /\ page' \in Page /\ page'.id = loading.conversation
          /\ page'.closed = loading.closed /\ page'.greeting = FALSE
          /\ page'.shown = {loading.conversation}
      BY <1>1, <3>1, <3>2 DEF Page, Loading
    <3>4. NotLoading \in Loading /\ NotLoading.at = "none"
      BY DEF NotLoading, Loading
    <3>5. ~crossed' => /\ InFlight = {} /\ LiveCalls = {} /\ closing.at = "none"
                       /\ ~loading.closed => status[loading.conversation] # "closed"
      BY <3>1 DEF OnItsWay, PageInv, LoadingApart
    <3>6. crossed' \in BOOLEAN
      BY <3>1
    <3> QED
      BY <3>1, <3>2, <3>3, <3>4, <3>5, <3>6
  <2> QED
    BY <2>1, <2>2
<1>4. PageTypeOK'
  BY <1>1, <1>2, <1>3 DEF PageTypeOK, VoiceTypeOK, ThreadsTypeOK
<1>5. IdsStored'
  <2>1. NotLoading.at = "none"
    BY DEF NotLoading
  <2> QED
    BY <1>1, <1>2, <1>3, <2>1 DEF IdsStored, Stored
<1>6. ASSUME ~crossed'
      PROVE  /\ RequestsBelong' /\ CallsBelong' /\ ThreadBelongs'
             /\ ClosingBelongs' /\ LoadingApart'
  <2>1. \A w \in Tabs : request'[w].at = "none"
    BY <1>2, <1>3, <1>6 DEF InFlight
  <2>2. LiveCalls' = {}
    BY <1>2, <1>3, <1>6 DEF LiveCalls
  <2>3. RequestsBelong' /\ CallsBelong'
    BY <2>1, <2>2 DEF RequestsBelong, InFlight, CallsBelong
  <2>4. ThreadBelongs' /\ ClosingBelongs' /\ LoadingApart'
    BY <1>2, <1>3, <1>6 DEF ThreadBelongs, ClosingBelongs, LoadingApart
  <2> QED
    BY <2>3, <2>4
<1> QED
  BY <1>3, <1>4, <1>5, <1>6 DEF PageInv

LEMMA MintedKeeps ==
  ASSUME PageInv, NEW b \in Bridges, Minted(b)
  PROVE  PageInv'
<1> DEFINE c == NextConversation
<1>1. /\ PageTypeOK /\ ThreadsTypeOK /\ CallsTyped /\ page \in Page
      /\ page.id \in Conversations \cup {None}
      /\ \A a \in Bridges : work[a] # None => bridge[a].busy
  BY PageTypes DEF PageInv, PageTypeOK, Page
<1>2. /\ CreateConversation /\ ConnectCall(b, c) /\ Unused # {}
      /\ page' = [page EXCEPT !.id = c] /\ minting' = FALSE
      /\ crossed' = (crossed \/ InFlight # {} \/ page.id # None)
      /\ status' = [status EXCEPT ![c] = "active"] /\ UNCHANGED <<work, request, loading, closing>>
  BY DEF Minted, CreateConversation
<1>3. c \in Conversations
  BY <1>2, NextIsUnused DEF Unused
<1>4. status[c] = "unused"
  BY <1>2, NextIsUnused DEF Unused
<1> HIDE DEF c
<1>5. /\ ThreadsTypeOK' /\ status'[c] = "active" /\ c # None
      /\ \A d \in Conversations : Stored(d) => Stored(d)'
  BY <1>1, <1>2, <1>3, ThreadsStep, ThreadsAssumption DEF ThreadsTypeOK, Conversations
<1>6. /\ CallsTyped' /\ ~bridge[b].busy /\ bridge'[b].conversation = c
      /\ \A a \in Bridges \ {b} : bridge'[a] = bridge[a]
  BY <1>1, <1>2, <1>3, ConnectTypes
<1>7. /\ page' \in Page /\ page'.id = c /\ page'.closed = page.closed
      /\ page'.typing = page.typing /\ page'.shown = page.shown
      /\ page'.greeting = page.greeting
  BY <1>1, <1>2, <1>3 DEF Page
<1>8. PageTypeOK'
  <2>1. VoiceTypeOK'
    BY <1>1, <1>2, <1>5, <1>6 DEF VoiceTypeOK, CallsTyped
  <2>2. crossed' \in BOOLEAN
    BY <1>1, <1>2 DEF PageTypeOK
  <2> QED
    BY <1>1, <1>2, <1>7, <2>1, <2>2 DEF PageTypeOK
<1>9. IdsStored'
  <2>1. status'[page'.id] \in {"active", "closed"}
    BY <1>5, <1>7
  <2> QED
    BY <1>1, <1>2, <1>5, <2>1, IdsStay DEF PageInv
<1>10. ASSUME ~crossed'
      PROVE  /\ RequestsBelong' /\ CallsBelong' /\ ThreadBelongs'
             /\ ClosingBelongs' /\ LoadingApart'
  <2>1. /\ CallsBelong /\ ThreadBelongs /\ InFlight = {} /\ page.id = None
    BY <1>2, <1>10 DEF PageInv
  <2>2. \A w \in Tabs : request'[w].at = "none"
    BY <1>2, <2>1 DEF InFlight
  <2>3. RequestsBelong'
    BY <2>2 DEF RequestsBelong, InFlight
  <2>4. \A d \in Conversations : status'[d] = "closed" => status[d] = "closed"
    BY <1>1, <1>2 DEF ThreadsTypeOK
  <2>5. CallsBelong'
    <3>1. LiveCalls' \subseteq {b}
      BY <1>6, <2>1 DEF CallsBelong, LiveCalls
    <3>2. work'[b] = None
      BY <1>1, <1>2, <1>6
    <3> QED
      BY <1>5, <1>6, <1>7, <3>1, <3>2 DEF CallsBelong
  <2>6. ThreadBelongs'
    BY <1>1, <1>5, <1>7, <2>1, ThreadsAssumption DEF ThreadBelongs, Page, Conversations
  <2>7. loading.at # "none" => page'.id # loading.conversation
    BY <1>4, <1>7 DEF PageInv, IdsStored, Stored
  <2>8. ClosingBelongs' /\ LoadingApart'
    BY <1>2, <1>7, <1>10, <2>1, <2>2, <2>4, <2>7, AsideStays
  <2> QED
    BY <2>3, <2>5, <2>6, <2>8
<1> QED
  BY <1>7, <1>8, <1>9, <1>10 DEF PageInv
-----------------------------------------------------------------------------
\* A call that is connected without the page getting another conversation.
LEMMA VoiceKeeps ==
  ASSUME PageInv, NEW b \in Bridges, StartVoice(b) \/ MintFails(b)
  PROVE  PageInv'
<1>1. /\ PageTypeOK /\ ThreadsTypeOK /\ CallsTyped /\ page.id \in Conversations \cup {None}
      /\ \A a \in Bridges : work[a] # None => bridge[a].busy
  BY PageTypes DEF PageInv, PageTypeOK, Page
<1>2. /\ StartVoice(b) => /\ ConnectCall(b, page.id) /\ UNCHANGED crossed
                          /\ ~page.closed /\ LiveCalls = {} /\ page.id # None
      /\ MintFails(b) => ConnectCall(b, None) /\ crossed' = TRUE
      /\ UNCHANGED <<status, work, page, request, loading, closing>> /\ minting' \in BOOLEAN
  BY <1>1 DEF StartVoice, MintFails, awaited, threadVars, PageTypeOK
<1>3. ThreadsGoOn
  BY <1>1, <1>2 DEF ThreadsGoOn, ThreadsTypeOK, Stored
<1>4. /\ CallsTyped' /\ ~bridge[b].busy
      /\ StartVoice(b) => bridge'[b].conversation = page.id
      /\ \A a \in Bridges \ {b} : bridge'[a] = bridge[a]
  BY <1>1, <1>2, ConnectTypes
<1>5. PageTypeOK'
  <2>1. VoiceTypeOK'
    BY <1>1, <1>2, <1>3, <1>4 DEF VoiceTypeOK, CallsTyped, ThreadsGoOn
  <2>2. crossed' \in BOOLEAN
    BY <1>1, <1>2 DEF PageTypeOK
  <2> QED
    BY <1>1, <1>2, <2>1, <2>2 DEF PageTypeOK
<1>6. ~crossed' => CallsBelong'
  <2> SUFFICES ASSUME ~crossed', StartVoice(b) PROVE CallsBelong'
    BY <1>2
  <2>1. LiveCalls' \subseteq {b}
    BY <1>2, <1>4 DEF LiveCalls
  <2>2. work'[b] = None
    BY <1>1, <1>2, <1>4
  <2> QED
    BY <1>2, <1>4, <2>1, <2>2 DEF CallsBelong
<1> QED
  BY <1>2, <1>3, <1>5, <1>6, RestKeeps

\* A step of the calls or of the threads alone, beside the page.
LEMMA TurnsKeep ==
  ASSUME PageInv, VoiceTypeOK', ThreadsGoOn, UNCHANGED <<awaited, crossed>>, page' \in Page,
         page'.id = page.id, page'.closed = page.closed, page'.typing = page.typing,
         page'.greeting => page.greeting,
         ~crossed => page'.shown \subseteq page.shown \cup {page.id},
         \A w \in Tabs : request[w].at = "open" => work'[w] = work[w],
         ~crossed => \A b \in LiveCalls' :
           /\ b \in LiveCalls /\ bridge'[b].conversation \in {bridge[b].conversation, page.id}
           /\ work'[b] \in {work[b], None, page.id}
  PROVE  PageInv'
<1>1. UNCHANGED <<request, minting, loading, closing, crossed>>
  BY DEF awaited
<1>2. PageTypeOK'
  BY <1>1 DEF PageInv, PageTypeOK
<1>3. ~crossed' => CallsBelong'
  BY <1>1 DEF PageInv, CallsBelong
<1> QED
  BY <1>1, <1>2, <1>3, RestKeeps

LEMMA CallStepKeeps ==
  ASSUME PageInv, NEW b \in Bridges, CallStep(b)
  PROVE  PageInv'
<1>1. /\ PageTypeOK /\ ThreadsTypeOK /\ CallsTyped /\ page \in Page /\ b \in Handlers
      /\ page.id \in Conversations \cup {None}
      /\ bridge[b].conversation \in Conversations \cup {None}
      /\ work[b] \in Conversations \cup {None}
      /\ \A a \in Bridges : work[a] # None => bridge[a].busy
  BY VoiceAssumption, PageTypes
  DEF PageInv, PageTypeOK, Page, CallsTyped, Bridge, ThreadsTypeOK
<1>2. UNCHANGED <<awaited, crossed>>
  BY DEF CallStep
<1>3. ~crossed => CallsBelong /\ (b \in LiveCalls => page.id # None /\ Stored(page.id))
  BY DEF PageInv, CallsBelong, IdsStored
<1>4. CASE HearFragment(b) \/ StopSpeaking(b) \/ HangUp(b)
  <2>1. /\ CallsTyped' /\ UNCHANGED <<status, work>>
        /\ \A a \in Bridges : /\ bridge'[a].conversation = bridge[a].conversation
                              /\ bridge[a].busy => bridge'[a].busy
                              /\ bridge'[a].live => bridge[a].live
    BY <1>1, <1>4, TalkTypes DEF threadVars
  <2>2. VoiceTypeOK' /\ ThreadsGoOn
    BY <1>1, <2>1 DEF VoiceTypeOK, CallsTyped, ThreadsTypeOK, ThreadsGoOn, Stored
  <2>3. /\ page' \in Page /\ page'.id = page.id /\ page'.closed = page.closed
        /\ page'.typing = page.typing /\ page'.shown = page.shown
        /\ page'.greeting => page.greeting
    <3>1. page' \in {page, [page EXCEPT !.greeting = FALSE]}
      <4>1. ~Speak(b) \/ UNCHANGED page
        <5>1. ~EndTurn(b)
          BY <1>4, <2>1, <1>1, ThreadsAssumption DEF EndTurn, Conversations, ThreadsTypeOK
        <5> QED
          BY <5>1 DEF Speak
      <4> QED
        BY <4>1 DEF CallStep
    <3> QED
      BY <1>1, <3>1 DEF Page
  <2>4. LiveCalls' \subseteq LiveCalls
    BY <2>1 DEF LiveCalls
  <2> QED
    BY <1>2, <2>1, <2>2, <2>3, <2>4, TurnsKeep DEF LiveCalls
<1>5. CASE BeginVoiceTurn(b) /\ UNCHANGED page
  <2>1. BeginTurn(b, bridge[b].conversation) /\ bridge[b].busy /\ UNCHANGED <<bridge, heard>>
    BY <1>5 DEF BeginVoiceTurn, Starting
  <2>2. /\ ThreadsGoOn
        /\ Stored(bridge[b].conversation) => work'[b] = bridge[b].conversation
        /\ \A v \in Handlers \ {b} : work'[v] = work[v]
    BY <1>1, <2>1, ThreadsGo, WorkStep
  <2>3. VoiceTypeOK'
    BY <1>1, <2>1, <2>2, VoiceAssumption DEF VoiceTypeOK, CallsTyped, ThreadsGoOn
  <2>4. LiveCalls' = LiveCalls
    BY <2>1 DEF LiveCalls
  <2>5. ~crossed => \A a \in LiveCalls' :
          /\ a \in LiveCalls /\ bridge'[a].conversation \in {bridge[a].conversation, page.id}
          /\ work'[a] \in {work[a], None, page.id}
    BY <1>3, <2>1, <2>2, <2>4, VoiceAssumption DEF CallsBelong, LiveCalls
  <2> QED
    BY <1>1, <1>2, <1>5, <2>2, <2>3, <2>5, TurnsKeep DEF Tabs
<1>6. CASE \/ Speak(b) /\ page' = IF ~bridge[b].live THEN page
                                  ELSE [page EXCEPT !.shown = page.shown \cup {work[b]}]
           \/ (FailVoiceTurn(b) \/ FailBeforeTurn(b)) /\ UNCHANGED page
  <2>1. EndTurn(b) \/ FailTurn(b) \/ (work[b] = None /\ UNCHANGED threadVars)
    BY <1>6 DEF Speak, FailVoiceTurn, FailBeforeTurn, Starting
  <2>2. /\ ThreadsGoOn /\ work'[b] = None
        /\ \A v \in Handlers \ {b} : work'[v] = work[v]
    BY <1>1, <2>1, ThreadsGo, WorkStep DEF threadVars
  <2>3. /\ CallsTyped' /\ bridge'[b].live = bridge[b].live
        /\ bridge'[b].conversation \in {work[b], bridge[b].conversation}
        /\ Speak(b) => work[b] \in Conversations
        /\ ~Speak(b) => bridge'[b].conversation = bridge[b].conversation
        /\ \A a \in Bridges \ {b} : bridge'[a] = bridge[a]
    BY <1>1, <1>6, EndTypes DEF Speak, EndTurn
  <2>4. VoiceTypeOK'
    BY <1>1, <2>2, <2>3, VoiceAssumption DEF VoiceTypeOK, CallsTyped, ThreadsGoOn
  <2>5. /\ ~crossed /\ b \in LiveCalls /\ Speak(b) => work[b] = page.id
        /\ LiveCalls' = LiveCalls
    BY <1>3, <2>3, ThreadsAssumption DEF CallsBelong, LiveCalls, Conversations
  <2>6. ~crossed => \A a \in LiveCalls' :
          /\ a \in LiveCalls /\ bridge'[a].conversation \in {bridge[a].conversation, page.id}
          /\ work'[a] \in {work[a], None, page.id}
    BY <2>2, <2>3, <2>5, VoiceAssumption DEF LiveCalls
  <2>7. /\ page' \in Page /\ page'.id = page.id /\ page'.closed = page.closed
        /\ page'.typing = page.typing /\ (page'.greeting => page.greeting)
        /\ ~crossed => page'.shown \subseteq page.shown \cup {page.id}
    <3>1. CASE UNCHANGED page
      BY <1>1, <3>1
    <3>2. CASE Speak(b) /\ bridge[b].live
               /\ page' = [page EXCEPT !.shown = page.shown \cup {work[b]}]
      <4>1. work[b] \in Conversations /\ (~crossed => work[b] = page.id)
        BY <2>3, <2>5, <3>2 DEF LiveCalls
      <4> QED
        BY <1>1, <3>2, <4>1 DEF Page
    <3> QED
      BY <1>6, <3>1, <3>2
  <2> QED
    BY <1>2, <2>2, <2>4, <2>6, <2>7, TurnsKeep DEF Tabs
<1> QED
  BY <1>4, <1>5, <1>6 DEF CallStep

\* Commits and ends of turns the page does not see.
LEMMA UnseenKeeps ==
  ASSUME PageInv, \/ \E w \in Handlers : Commit(w)
                  \/ \E w \in Tabs : AbandonedTurn(w)
  PROVE  PageInv'
<1>1. /\ PageTypeOK /\ ThreadsTypeOK /\ CallsTyped /\ page \in Page
      /\ \A a \in Bridges : work[a] # None => bridge[a].busy
  BY PageTypes DEF PageInv, PageTypeOK
<1>2. ASSUME NEW w \in Handlers, Commit(w) \/ (w \in Tabs /\ AbandonedTurn(w))
      PROVE  PageInv'
  <2>1. /\ Keep(w) \/ (w \in Tabs /\ request[w].at = "none" /\ (EndTurn(w) \/ FailTurn(w)))
        /\ UNCHANGED <<bridge, heard, page, awaited, crossed>>
    BY <1>2 DEF Commit, AbandonedTurn
  <2>2. /\ ThreadsGoOn
        /\ UNCHANGED work \/ (w \in Tabs /\ request[w].at = "none" /\ work'[w] = None
                              /\ \A v \in Handlers \ {w} : work'[v] = work[v])
    BY <1>1, <2>1, ThreadsGo, WorkStep DEF Keep
  <2>3. /\ \A b \in Bridges : work'[b] = work[b]
        /\ \A v \in Tabs : request[v].at = "open" => work'[v] = work[v]
    BY <2>2, VoiceAssumption DEF Tabs
  <2>4. VoiceTypeOK' /\ LiveCalls' = LiveCalls /\ LiveCalls \subseteq Bridges
    BY <1>1, <2>1, <2>2, <2>3 DEF VoiceTypeOK, CallsTyped, ThreadsGoOn, LiveCalls
  <2> QED
    BY <1>1, <2>1, <2>2, <2>3, <2>4, TurnsKeep
<1> QED
  BY <1>2 DEF Tabs

LEMMA PageStep ==
  ASSUME PageInv, [PageNext]_pageVars
  PROVE  PageInv'
<1>1. ASSUME NEW w \in Tabs, \/ Send(w) \/ TabProgress(w)
                             \/ TurnFails(w) \/ ConnectionLost(w) \/ AbandonedTurn(w)
      PROVE  PageInv'
  <2>1. CASE Send(w) \/ Arrive(w) \/ ReplyArrives(w)
    BY <2>1, SendKeeps, ArriveKeeps, ReplyKeeps
  <2>2. CASE Refused(w) \/ TurnFails(w) \/ ConnectionLost(w)
    BY <2>2, SorryKeeps
  <2>3. CASE Commit(w) \/ AbandonedTurn(w)
    BY <2>3, UnseenKeeps DEF Tabs
  <2> QED
    BY <1>1, <2>1, <2>2, <2>3 DEF TabProgress
<1>2. ASSUME NEW b \in Bridges, \/ StartVoice(b) \/ Minted(b) \/ MintFails(b)
                                \/ CallStep(b) \/ Commit(b)
      PROVE  PageInv'
  BY <1>2, VoiceKeeps, MintedKeeps, CallStepKeeps, UnseenKeeps, VoiceAssumption
<1>3. CASE CloseArrives \/ CloseAnswered \/ CloseFails \/ NewChat \/ LoadArrives
  BY <1>3, CloseArrivesKeeps, CloseKnownKeeps, NewThreadKeeps
<1>4. CASE \/ EndChat \/ StartMinting \/ LoadRead \/ LoadFails
           \/ \E c \in Conversations : TapOrder(c)
  BY <1>4, AskKeeps
<1>5. CASE UNCHANGED pageVars
  BY <1>5 DEF pageVars, voiceVars, threadVars, awaited, PageInv, PageTypeOK, VoiceTypeOK,
    ThreadsTypeOK, IdsStored, Stored, RequestsBelong, InFlight, CallsBelong, LiveCalls,
    ThreadBelongs, ClosingBelongs, LoadingApart
<1> QED
  BY <1>1, <1>2, <1>3, <1>4, <1>5 DEF PageNext

LEMMA PageBegins == ASSUME PageInit PROVE PageInv
<1>1. /\ status = [c \in Conversations |-> "unused"] /\ work = [w \in Handlers |-> None]
      /\ bridge = [b \in Bridges |-> HungUp] /\ heard = [b \in Bridges |-> <<>>]
      /\ page = NewPage /\ request = [w \in Tabs |-> NoRequest]
      /\ minting = FALSE /\ loading = NotLoading /\ closing = NotClosing /\ crossed = FALSE
  BY DEF PageInit, VoiceInit, ThreadsInit
<1>2. VoiceTypeOK /\ LiveCalls = {}
  <2>1. <<>> \in Seq(Nat)
    OBVIOUS
  <2>2. HungUp \in Bridge /\ HungUp.busy = FALSE /\ HungUp.text = <<>> /\ HungUp.live = FALSE
    BY <2>1 DEF HungUp, Bridge
  <2> QED
    BY <1>1, <2>1, <2>2, VoiceAssumption DEF VoiceTypeOK, ThreadsTypeOK, Statuses, LiveCalls
<1>3. NewPage \in Page /\ NewPage.id = None /\ NewPage.typing = FALSE /\ NewPage.shown = {}
  BY DEF NewPage, Page
<1>4. /\ NoRequest \in Request /\ NoRequest.at = "none"
      /\ NotLoading \in Loading /\ NotLoading.at = "none"
      /\ NotClosing \in Closing /\ NotClosing.at = "none"
  BY DEF NoRequest, Request, NotLoading, Loading, NotClosing, Closing
<1>5. PageTypeOK
  BY <1>1, <1>2, <1>3, <1>4 DEF PageTypeOK
<1>6. \A w \in Tabs : request[w].at = "none"
  BY <1>1, <1>4
<1> QED
  BY <1>1, <1>2, <1>3, <1>4, <1>5, <1>6
  DEF PageInv, IdsStored, RequestsBelong, InFlight, CallsBelong, ThreadBelongs,
    ClosingBelongs, LoadingApart

LEMMA PageHolds == PageSpec => []PageInv
BY PageBegins, PageStep, PTL DEF PageSpec

\* The page, what it awaits, the calls and the conversations keep their types.
THEOREM PageTypeCorrect == PageSpec => []PageTypeOK
<1>1. PageInv => PageTypeOK
  BY DEF PageInv
<1> QED
  BY <1>1, PageHolds, PTL

\* For any number of requests and calls: unless the page changed its conversation while
\* something was on its way, it shows one thread, the one its next message goes to.
THEOREM OneThread == PageSpec => []PageShowsOneThread
<1>1. PageInv => PageShowsOneThread
  BY DEF PageInv, ThreadBelongs, PageShowsOneThread
<1> QED
  BY <1>1, PageHolds, PTL

\* Under the same proviso the page knows that its conversation is closed, but for the time
\* the answer to its own close request takes.
THEOREM ClosedIsKnown == PageSpec => []PageKnowsClosed
<1>1. PageInv => PageKnowsClosed
  BY DEF PageInv, ThreadBelongs, ClosingBelongs, PageKnowsClosed
<1> QED
  BY <1>1, PageHolds, PTL

\* Who has a turn that was not there before got it from the route or from the bridge.
LEMMA TurnBegins ==
  ASSUME PageInv, PageNext, NEW w \in Handlers, work[w] # work'[w], work'[w] # None
  PROVE  (w \in Tabs /\ Arrive(w)) \/ (w \in Bridges /\ BeginVoiceTurn(w))
<1>1. ThreadsTypeOK
  BY DEF PageInv, PageTypeOK, VoiceTypeOK
<1>2. ~UNCHANGED work
  OBVIOUS
<1>3. ASSUME NEW v \in Handlers, EndTurn(v) \/ FailTurn(v) PROVE FALSE
  BY <1>1, <1>3, WorkStep
<1>4. ASSUME NEW v \in Handlers, NEW c \in Conversations \cup {None}, BeginTurn(v, c) PROVE v = w
  BY <1>1, <1>4, WorkStep
<1>5. ASSUME NEW v \in Tabs, \/ Send(v) \/ TabProgress(v)
                             \/ TurnFails(v) \/ ConnectionLost(v) \/ AbandonedTurn(v)
      PROVE  w \in Tabs /\ Arrive(w)
  <2>1. v \in Handlers /\ request[v].conversation \in Conversations \cup {None}
    BY DEF Tabs, PageInv, PageTypeOK, Request
  <2>2. CASE Arrive(v)
    BY <1>4, <2>1, <2>2 DEF Arrive
  <2>3. CASE ReplyArrives(v) \/ TurnFails(v) \/ AbandonedTurn(v)
    BY <1>3, <2>1, <2>3 DEF ReplyArrives, TurnFails, AbandonedTurn
  <2>4. CASE Send(v) \/ Refused(v) \/ ConnectionLost(v) \/ Commit(v)
    BY <1>2, <2>4 DEF Send, Refused, ConnectionLost, Commit, Keep, voiceVars, threadVars
  <2> QED
    BY <1>5, <2>2, <2>3, <2>4 DEF TabProgress
<1>6. ASSUME NEW b \in Bridges, \/ StartVoice(b) \/ Minted(b) \/ MintFails(b)
                                \/ CallStep(b) \/ Commit(b)
      PROVE  w \in Bridges /\ BeginVoiceTurn(w)
  <2>1. b \in Handlers /\ bridge[b].conversation \in Conversations \cup {None}
    BY VoiceAssumption DEF PageInv, PageTypeOK, VoiceTypeOK, Bridge
  <2>2. CASE BeginVoiceTurn(b)
    BY <1>4, <2>1, <2>2 DEF BeginVoiceTurn
  <2>3. CASE Speak(b) \/ FailVoiceTurn(b)
    BY <1>3, <2>1, <2>3 DEF Speak, FailVoiceTurn
  <2>4. CASE StartVoice(b) \/ Minted(b) \/ MintFails(b) \/ Commit(b)
    BY <1>2, <2>4 DEF StartVoice, Minted, MintFails, Commit, CreateConversation, Keep, threadVars
  <2>5. CASE HearFragment(b) \/ StopSpeaking(b) \/ FailBeforeTurn(b) \/ HangUp(b)
    BY <1>2, <2>5 DEF HearFragment, StopSpeaking, FailBeforeTurn, HangUp, threadVars
  <2> QED
    BY <1>6, <2>2, <2>3, <2>4, <2>5 DEF CallStep
<1>7. CASE \/ EndChat \/ CloseArrives \/ CloseAnswered \/ CloseFails
           \/ NewChat \/ StartMinting \/ (\E c \in Conversations : TapOrder(c))
           \/ LoadRead \/ LoadArrives \/ LoadFails
  BY <1>2, <1>7 DEF EndChat, CloseArrives, CloseAnswered, CloseFails, NewChat, StartMinting,
    TapOrder, LoadRead, LoadArrives, LoadFails, CloseConversation, voiceVars, threadVars
<1> QED
  BY <1>5, <1>6, <1>7 DEF PageNext

\* A chat that has ended is left alone: the only turn that still begins in it is one of a
\* call that is being ended -- hung up, let go of by the page, or about to be.
THEOREM EndedLeftAlone == PageSpec => EndedChatIsLeftAlone
<1> DEFINE LeftAlone ==
      \A w \in Handlers :
        (work[w] # work'[w] /\ work'[w] # None /\ ~crossed
           /\ status[work'[w]] = "closed")
        => w \in Bridges /\ (~bridge[w].live \/ page.closed \/ closing.at = "done")
<1>1. ASSUME PageInv, [PageNext]_pageVars PROVE [LeftAlone]_pageVars
  <2> SUFFICES ASSUME PageNext, NEW w \in Handlers, work[w] # work'[w], work'[w] # None,
                      ~crossed, status[work'[w]] = "closed"
               PROVE  w \in Bridges /\ (~bridge[w].live \/ page.closed \/ closing.at = "done")
    BY <1>1
  <2>1. ThreadsTypeOK /\ CallsBelong /\ ThreadBelongs
    BY <1>1 DEF PageInv, PageTypeOK, VoiceTypeOK
  <2>2. ~(w \in Tabs /\ Arrive(w))
    <3> SUFFICES ASSUME w \in Tabs, Arrive(w) PROVE FALSE
      OBVIOUS
    <3>1. request[w].conversation \in Conversations \cup {None}
      BY <1>1 DEF PageInv, PageTypeOK, Request
    <3>2. BeginTurn(w, request[w].conversation) /\ Accepts(request[w].conversation)
      BY DEF Arrive
    <3> QED
      BY <2>1, <3>1, <3>2, BeginsIn DEF Accepts
  <2>3. w \in Bridges /\ BeginVoiceTurn(w)
    BY <1>1, <2>2, TurnBegins
  <2>4. ~bridge[w].live \/ page.closed \/ closing.at = "done"
    <3> SUFFICES ASSUME bridge[w].live, ~page.closed PROVE closing.at = "done"
      OBVIOUS
    <3>1. w \in LiveCalls /\ page.id # None /\ bridge[w].conversation = page.id
      BY <2>1, <2>3 DEF CallsBelong, LiveCalls
    <3>2. BeginTurn(w, page.id) /\ page.id \in Conversations \cup {None} /\ Stored(page.id)
      BY <1>1, <2>3, <3>1 DEF BeginVoiceTurn, PageInv, PageTypeOK, Page, IdsStored
    <3>3. work'[w] = page.id
      BY <2>1, <3>2, WorkStep
    <3> QED
      BY <2>1, <3>1, <3>3 DEF ThreadBelongs
  <2> QED
    BY <2>3, <2>4
<1> QED
  BY <1>1, PageHolds, PTL DEF PageSpec, EndedChatIsLeftAlone
=============================================================================
