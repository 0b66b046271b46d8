# Verification of the refund support agent

TLA+ models of the AI customer support agent in this repository, the TLC runs that check
them and the TLAPS proofs about them. Line numbers are of the sources under `backend/app`
unless a path says otherwise.

## 1. The system

A customer talks to a language-model agent, by text (`POST /chat`) or voice. The agent
identifies the customer, checks an order against the refund policy, and refunds it, refuses
or opens a ticket for a manager. Managers resolve tickets on the admin page, which also shows
each case with its reasoning trace, live. State is in PostgreSQL, and every request has a
session of its own; nothing but the event bus lives in the process.

| component | code | state it keeps | operations | must be correct |
|---|---|---|---|---|
| policy engine | `policy/engine.py` | none (`policy_config.json`) | five checks, one verdict | the verdict is the one `policy.md` gives; checks and reason are true; a stranger is told the ownership reason |
| refund service | `refunds/service.py` | `orders.refunded_at`, `refund_requests`, `escalations`, `conversations.verdict` | `issue_refund`, `escalate_to_manager`, `resolve_escalation` | refunds within policy; answers harden; no second refund or ticket; tickets, requests and refunds agree |
| database session | `db/database.py`, `db/models.py` | identity map of a request | load, flush, commit, rollback | what a decision reads and what its commit overwrites |
| agent tools | `agent/tools.py` | `ToolContext` (customer, conversation, `now`) | nine tools | the model can do nothing beyond them |
| agent loop | `agent/loop.py` | messages, verdict, steps of one turn | model call with retries, tool dispatch, step cap | it ends; the verdict is the last one decided |
| turn runner | `agent/runner.py` | one turn | load, run the loop, store, ticket, backstop | an ESCALATE answer has a ticket |
| conversation routes | `api/routes/chat.py` | `conversations`, `messages` | chat, create, read, close | a closed conversation is final |
| trace and bus | `agent/tracing.py`, `events/bus.py`, `api/routes/admin.py` | `agent_steps`, subscriber queues | record, publish, subscribe | the live and the stored trace agree |
| case service | `cases/service.py` | `conversations.ai_summary` | list, detail, summarise | the page shows the summary that is stored |
| voice bridge | `voice/agent_bridge.py`, `voice/live.py` | speech buffer, busy flag, conversation id | transcript and stop frames | all speech is handed over once, in order; the call stays in its thread |
| orders, login | `orders/service.py`, `api/routes/auth.py` | none | reads | |
| chat page | `frontend/src/pages/ChatPage.tsx`, `hooks/useVoice.ts` | messages shown, conversation id, typing | send, load, end, new | replies land in their thread |
| admin page | `frontend/src/pages/AdminPage.tsx`, `lib/adminTrace.ts`, `hooks/useSSE.ts` | selected case, steps | select, stream, resolve, summarise | what is shown belongs to the case selected |

Calls go page -> route -> runner -> loop -> tools -> service -> policy. Components meet in
three places: the database (turns, managers and close requests write the same rows, with no
row lock, version column or unique constraint), the event bus (turns publish, admin streams
consume) and the conversation id a page remembers.

What is hard: two requests that decide on rows the other is about to change; rows a session
keeps from the start of a turn that may last minutes; commits in the middle of a turn, after
which the rest may fail; a model that may call any tool at any time; the order in which late
answers reach a page. `PROJECT.json` lists these hazards at their lines, with the properties
that cover each, or the reason why none does.

## 2. Modules

| module | models | extends |
|---|---|---|
| `PolicyEngine` | the policy as operators | |
| `PolicyOverTime` | one order and a customer asking about it while time passes and it is refunded | `PolicyEngine` |
| `RefundService` | the service layer and the database under concurrent turns and managers | `PolicyEngine` |
| `ChatTurn` | route, runner, loop and tools of a chat turn, step by step | `RefundService` |
| `Threads` | conversation rows and who works on which | |
| `Dialogue` | abstract: what a call promises its speaker | |
| `VoiceBridge` | voice calls and text requests on the same conversations | `Threads` |
| `Transcript` | the rows of `messages` that text and voice turns read and write | `VoiceBridge` |
| `ChatPage` | the customer's page over the routes and calls | `VoiceBridge` |
| `TraceStream` | tracer, `agent_steps`, event bus and stream | |
| `AdminPage` | the admin's page over the stream and the case service | `TraceStream` |
| `MC...` | constants for TLC | |
| `PolicyProofs` | theorems about `PolicyOverTime` | `PolicyOverTime` |
| `RefundServiceProofs` | types and refunds | `RefundService` |
| `RefundTicketProofs` | tickets, requests and stamps | `RefundServiceProofs` |
| `ChatTurnProofs` | `ChatTurn` implements `RefundService`; the backstop, the limits of the loop, the case file | `ChatTurn`, `RefundTicketProofs` |
| `VoiceBridgeProofs` | `VoiceBridge` implements `Dialogue` | `VoiceBridge` |
| `TranscriptProofs` | what is stored of a conversation, and a call's memory of it | `Transcript`, `VoiceBridgeProofs` |
| `ChatPageProofs` | the customer's page and its thread | `ChatPage`, `VoiceBridgeProofs` |
| `AdminPageProofs` | the stored trace and the admin's page | `AdminPage` |

The system is cut in three, by what its parts share. `RefundService` and `ChatTurn` are about
money and tickets; `Threads`, `VoiceBridge`, `Transcript` and `ChatPage` about conversations,
where a turn only begins, commits, replies or fails; `TraceStream` and `AdminPage` about the
trace. What one cut leaves out of a turn, another has.

### PolicyEngine, PolicyOverTime

An operator per `_check_*` function, and the whole `EligibilityResult`: verdict, reason and the
list of checks, each with its name, whether it passed and what its detail tells. Time is an
integer number of ticks, `TicksPerDay` of them in a day, so that the floor of `timedelta.days`
is visible; money is integer paise. A reason is named by the check it comes from, a detail is
the values its text is made of. `PolicyOverTime` lets the clock run, the agent and a manager
refund the order and the customer change, and compares the engine's result with `policy.md`
(`VerdictMatchesPolicy` states the deadline in ticks, not in days; `ReasonsAreTrue` is about
the list and the reason). It is about the engine, for the row and the time it is given; which
row and time a chat turn gives it is `Answer` of `RefundService`.

`ReasonsAreTrue` says that a stranger is told the ownership reason, whatever else is wrong.
It does not say that a stranger learns nothing: the list of checks, which the tool returns in
full (`agent/tools.py:103`), tells the model of somebody else's order whether it was refunded,
its age, condition and amount.

### RefundService

Tables are variables: `refundedAt` is the only column of `orders` ever written; `requests`
and `escalations` are sequences indexed by id; `convVerdict` is `conversations.verdict`. Each
turn has a `session` (customer, `ctx.now`, the verdict it loaded), `pin` (the order rows its
identity map keeps) and `call` (a service call between its decision and its commit). Each
manager has a `desk` that goes through the four queries of `resolve_escalation` one by one.
`payouts` and `openings` are history: every refund committed and, per ticket, what its dedupe
query could see.

`Answer` is what `check_refund_eligibility` answers in a turn: from the row the identity map
gives, or the committed one, and at `ctx.now`. Two turns that overlap may therefore answer the
same question differently, and in the wrong order: one that started earlier may approve what
the other has just denied. `AnswersOnlyHarden` says what does hold. An answer is the one of a
single moment of the ledger (the refunds committed when the row was read) and a single time,
and it is a denial or the same as any answer of an earlier moment and time -- so within one
turn, and from a turn to one that starts after it, answers only harden.

Decisions about the database, which the actions rest on:

- One session per request, READ COMMITTED. A query sees what is committed when it runs.
- `session.get` answers from the identity map, which holds its rows weakly. Only
  `lookup_customer` makes orders stay: it loads them with the customer, and `ctx.customer`
  keeps them. Other orders are read anew by each tool call. When the customer is replaced the
  old rows may or may not have been collected (`LookupCustomer` chooses).
- A commit writes the columns whose value differs from the loaded one (`Written`);
  `expire_on_commit=False` leaves the instances as they are.
- Flush and commit are one step: a blocked update only waits. A deadlock victim, an exception
  and a killed process all end the session without its uncommitted changes (`CloseSession`,
  `ResolveAbort`).
- Reading the conversation and fixing `ctx.now` are one step (`OpenSession`).

Texts, amounts of requests, `resolved_at` and assignees are left out: nothing reads them.

### ChatTurn

Adds to each turn the state of its runner and loop (`loop`), the other columns of its
conversation (`thread`) and its instance of that row (`draft`, as loaded and as modified). The
model may, whenever it is called, raise, answer or ask for any tools with any arguments; an
order id that does not exist is `None`. Tools that change nothing are one action, except that
a call with an order id sets the order `_focused_order` will find. Every commit inside a tool
makes the draft durable, as the shared session does: a column is written if a tool changed it
from what was loaded or written before (`Assigned`, `Commits`), so two turns of one conversation
overwrite each other's columns or leave them. `Crash` may happen at any step. A turn begins by
`POST /chat`, which asks `AcceptsChat` first (`ChatRequest`), or by voice, which does not
(`VoiceTurn`). A conversation nobody used stands for one created by its first message.

Left out: the rows of `messages` and `agent_steps`, which feed only the prompt and the admin
pages (`Transcript`, `TraceStream`), and the quick replies, a function of the final row.

### Threads, VoiceBridge, Dialogue

`status` is `conversations.status`, extended with the life of the row: unused, inserted by a
turn that has not committed, lost by rollback. `work` is the conversation of the turn a task
runs. Every way into a turn goes through `BeginTurn` (`_load_or_create_conversation`); only
`POST /chat` asks `Accepts` before. The end of a spoken turn (`Speak`) is one step although the
task awaits the reply being sent: until its busy flag is reset the stored id is read by nobody.

`bridge` is the `AgentBridge` of each call and the argument of its task. Fragments of speech
are numbered, so that loss, repetition and disorder show. Stop frames may come at any time,
twice for one pause, or before the last fragment. The task of a turn is separate from the
call: it goes on after `HangUp`, and `FailVoiceTurn` leaves the conversation id as it was.
`Dialogue` is the promise in three variables: heard, handed over, under work. The refinement
maps what is handed over to what was heard less the buffer.

### Transcript

A turn is opened by its first query, which starts the transaction that stamps its rows
(`created_at` is `now()` of PostgreSQL); it loads the history, flushes the question, may commit
once in the middle (a tool that refunds or escalates; another such commit would only move the
stamp of the answer), and commits the answer. `messages` holds committed rows, `Before` is the
order `conversation_messages` and `_load_history` read them in. `saw`, `overlapped`, `torn`,
`spoken` and `failed` are history. No two transactions start in the same microsecond.

### ChatPage

`page` is the state of the component; `request`, `minting`, `loading` and `closing` are what it
awaits. Answers are applied as in the code: to whatever the page shows when they arrive. Ending
a chat is four steps: the click sends the request and changes nothing else (`EndChat`), the
server closes the conversation (`CloseArrives`), the answer takes the composer away
(`CloseAnswered`) or an error does (`CloseFails`: the request may still be served later, or
never), and the bridge of a live call hears of it only when the socket is seen to be closed
(`HangUp`, at any time). Reopening a thread is three: asked for, read by the server
(`LoadRead`), and shown as it was read (`LoadArrives`).

`crossed` records that the page was given another conversation while something else was on its
way; the properties hold up to that and not beyond. What to take from the module:

- Between the server's close and the answer the page offers to write to a closed chat, and a
  call that is live can begin a turn in it; so can a call whose hang-up has not been seen yet
  (`agent_bridge.py:106` does not ask). `PageKnowsClosed` and `EndedChatIsLeftAlone` say that
  nothing else can: no text turn ever begins in a closed chat, and every spoken one is of a
  call that is being ended.
- A reply that arrives after End chat and New chat puts the old, closed conversation into the
  new page (`ChatPage.tsx:168`); the next message is refused with 409, which `chat.py:34-35`
  expects only of "a stale/forged request".
- The microphone used while the first message is on its way makes a second conversation,
  although `ensureConversation` is there to share one (`ChatPage.tsx:134`).
- When minting fails the call goes on without an id and the page never learns its thread.

Simplified: a reply reaches the page as the handler ends, and one mint, one load and one close
are awaited at a time. One page is modelled: nobody else closes its conversations.

### TraceStream, AdminPage

A step is flushed and published in one step (there is no await between that could let another
task run) and becomes durable with the next commit of its turn. `Subscribe`, `Take` and
`Unsubscribe` are the generator of the stream. A step keeps its id, number, conversation, turn
and type; retries, errors and decisions are `"other"`.

`AdminPage` has one page: the selected case, the detail read, the streamed events, and what it
awaits (`fetch`, `request`, `deciding`). `missed` are steps published while the stream was
down; nothing fetches them until the case is read again. `astray` is the counterpart of
`crossed`: since the last selection made while nothing was awaited, two answers were awaited
at a time or one was lost. Beyond it the page may show one case under the name of another
(`AdminPage.tsx:74`, `84`, `107` apply their answers without asking what is selected), and a
late read may replace a newer one. `get_case_detail` reads in one step.

`DurableStepsAreSeen` speaks of a page whose selection has been read. While a case newly
selected is being read, the page shows what it showed before; coming back to a case in that
time shows its old detail without the steps that became durable since. That takes one click
more than run `admin` allows and came up in the proof.

## 3. Runs

| run | question | result |
|---|---|---|
| `policy_over_time` | Is the engine the policy, and is the reason it gives true? Every combination of conditions, both tiers, half-day ticks past both windows | holds |
| `refund` | Two turns and a manager on one order, a second customer looked up in between: what do the guards still guarantee, and do tickets, requests and refunds agree? | refunds stay within policy; answers harden along what a session has read; a second refund or ticket needs an overlap, never within one turn; records agree |
| `refund_twice` | "executes at most once" (`docs/AGENT-AND-POLICY.md:108-109`) | violated by two overlapping turns |
| `decide_twice` | a resolved ticket is a no-op (`refunds/service.py:186`) | violated by two overlapping resolves: paid, and recorded as denied |
| `chat_turn` | Two overlapping turns of two customers in one conversation, with crashes and a manager: does an escalating turn reply with a ticket, and whom does the case file name? | the backstop holds; each commit leaves its turn's customer on file, or had found it there |
| `chat_ends` | Does every turn end, is it a session of `RefundService`, and does the case file follow the customers looked up in it? A step and a retry to use up | holds |
| `escalate_no_ticket` | "an ESCALATE verdict MUST produce a ticket" (`agent/runner.py:153`) | violated: the ticket of another order is taken for the new one |
| `unapproved_paid` | "`issue_refund()` was never called" (`frontend/src/pages/AdminPage.tsx:302`) | violated: a check after the refund turns the case into a denial |
| `voice` | A call and a text tab: do the messages read as a conversation, is the prompt what precedes, does the call stay in its thread, is it remembered, is speech handed over in order, is the bridge freed? | holds; a half exchange and a call in two threads need a turn that failed after a commit in its middle |
| `chat_page` | Two requests and a call of one page that ends, restarts and reopens chats: one thread, no writing to a closed chat, no endless waiting | holds until the page changes its thread with something on its way, and but for the moment between a close and its answer |
| `admin` | A turn, two cases, two reads, two summaries, a stream that drops: what does the page show when it is quiet, is every durable step seen, does every step seen become durable? | holds until two answers are awaited at a time |
| `trace_pairs` | "pair them with the following tool_result" (`frontend/src/lib/adminTrace.ts:129`) | violated by two turns: their steps share numbers and are sorted by them |

Bounds of the refund and chat runs. None is a model value; the window is 0 days (1 for a VIP),
the threshold 1 and a day one tick, except in `policy_over_time`, which has the shipped policy.
Order `small` is approvable on the first day, order `big` is above the threshold. One
conversation is shared by all turns: that is where they can disturb each other most. Only the
backstop and the dedupe query meet tickets of other conversations, and for these
`BackstopIsSound` and `TicketsOverlapOnly` are proved of any number of them. `chat_turn` and
`chat_ends` have two customers, so that the model can look up another one in mid-turn.
`MaxClock` = 1 closes the window of `small` once; it is 0 in `chat_turn` and the two chat runs
that look for a violation, where other moves are what matters. `MaxRequests` = 2 or 3 leaves
room for one refund and one ticket of an order or for a duplicate of either; in `chat_turn` it
is 1, the ticket two turns meet at. Turns are
reused after they close, so sequences of turns are covered as well as overlaps. Two turns (or
two managers) suffice for every race in this code,
each of which is between the read of one session and the commit of another. `refund` has one
order; that orders do not mix is proved. `TurnVerdicts` limits the verdicts a turn ends with
where `convVerdict` is only context. `MaxSteps`, `MaxRetries` and `MaxCalls` are small but let
each limit be reached (the shipped ones are 6 steps and 2 retries).

Bounds of the others. `voice`: three turns in up to three conversations, so that two may
overlap and a third follow, two fragments per call (a pause between, before or after them), one
bridge that calls again. `chat_page`: two tabs' worth of requests, since a second message can
be sent while the first is still out only after New chat, one call, and two conversations, the
one that is ended and its successor (a third, tried with one tab, showed nothing new).
`admin`: one turn of at most four steps (a call, its result, before and after), two reads and
two summaries awaited at a time, the least that can arrive in the wrong order, and at most four
turns and clicks together. `trace_pairs`: two turns of four steps in one case.

Deadlock is not checked: with the bounds reached everything may be over.

Fairness. `chat_ends`: weak fairness of each turn's own next step. Every await in a turn (model
call, query, backoff sleep) returns or raises, the client library limits the model call, and
the event loop resumes the task. Nothing is assumed about the model, new messages or crashes.
The request bound blocks no step in this run: a refund and a ticket are all that one turn at a
time makes of an order, and a turn stopped by the bound would violate `TurnTerminates`. `voice`
and `chat_page` make the same assumption of the task of a call (`VoiceProgress`) and of the
handler of a request (`TabProgress`), and none of the customer. Runs with liveness use no
symmetry.

## 4. Proofs

For every number of turns, managers, calls, tabs, orders, customers and cases, every policy and
every seed:

| theorem | says |
|---|---|
| `PolicyProofs!PolicyTypes` | `Spec => []TypeOK` |
| `PolicyProofs!EngineMatchesPolicy` | `Spec => []VerdictMatchesPolicy` |
| `PolicyProofs!VipFavoured` | `Spec => []VipNeverWorse`, if the VIP window is not the shorter one |
| `PolicyProofs!ReasonsHold` | `Spec => []ReasonsAreTrue` |
| `RefundServiceProofs!TypeCorrect` | `Spec => []TypeOK` |
| `RefundServiceProofs!PolicyBoundary` | `Spec => []AgentPaysOnlyWithinPolicy` |
| `RefundServiceProofs!AnswersHarden` | `Spec => []AnswersOnlyHarden` |
| `RefundServiceProofs!OverlapOnly` | `Spec => []DoublePayNeedsOverlap` |
| `RefundServiceProofs!NoRepeatInTurn` | `Spec => []TurnNeverPaysTwice` |
| `RefundTicketProofs!RecordsAgree` | `Spec => []TicketMatchesRequest` |
| `RefundTicketProofs!NothingTakenBack` | `Spec => RecordsOnlyMoveForward` |
| `RefundTicketProofs!TicketsOverlapOnly` | `Spec => []DuplicateTicketNeedsOverlap` |
| `RefundTicketProofs!StampIsLatestRefund` | `Spec => []LedgerMatchesOrders` |
| `RefundTicketProofs!PaidAsDecided` | `Spec => []PayoutHasApproval`, if there is one manager |
| `ChatTurnProofs!TurnIsSession` | `ChatSpec => RefundServiceSpec` |
| `ChatTurnProofs!ChatPaysOnlyWithinPolicy` | `ChatSpec => []AgentPaysOnlyWithinPolicy` |
| `ChatTurnProofs!ChatPaysTwiceOnlyInOverlap` | `ChatSpec => []DoublePayNeedsOverlap` |
| `ChatTurnProofs!BackstopIsSound` | `ChatSpec => []BackstopCoversSoleOrder` |
| `ChatTurnProofs!ChatTypes` | `ChatSpec => []ChatTypeOK` |
| `ChatTurnProofs!CaseFileFollows` | `ChatSpec => CaseNamesCustomer` |
| `VoiceBridgeProofs!BridgeKeepsPromise` | `VoiceSpec => SpeechHandedOverInOrder` |
| `TranscriptProofs!TranscriptTypes` | `TranscriptSpec => []TranscriptTypeOK` |
| `TranscriptProofs!ExchangesAreWhole` | `TranscriptSpec => []NoHalfExchange` |
| `TranscriptProofs!AnswersFollow` | `TranscriptSpec => []AnswerFollowsQuestion` |
| `TranscriptProofs!PromptsPrecede` | `TranscriptSpec => []PromptIsWhatPrecedes` |
| `TranscriptProofs!CallsStay` | `TranscriptSpec => []CallStaysInThread` |
| `TranscriptProofs!CallsRemembered` | `TranscriptSpec => []CallIsRemembered` |
| `TranscriptProofs!TranscriptKeepsPromise` | `TranscriptSpec => VoiceSpec /\ SpeechHandedOverInOrder` |
| `ChatPageProofs!PageTypeCorrect` | `PageSpec => []PageTypeOK` |
| `ChatPageProofs!OneThread` | `PageSpec => []PageShowsOneThread` |
| `ChatPageProofs!ClosedIsKnown` | `PageSpec => []PageKnowsClosed` |
| `ChatPageProofs!EndedLeftAlone` | `PageSpec => EndedChatIsLeftAlone` |
| `AdminPageProofs!AdminTypes` | `AdminSpec => []AdminTypeOK` |
| `AdminPageProofs!TraceIsWhole` | `AdminSpec => []DurableTraceIsWhole` |
| `AdminPageProofs!PageIsCurrent` | `AdminSpec => []SettledPageIsCurrent` |
| `AdminPageProofs!DurableSeen` | `AdminSpec => []DurableStepsAreSeen` |
| `AdminPageProofs!SeenDurable` | `AdminSpec => []SeenStepsBecomeDurable` |

Assumptions are those of the constants (`PolicyAssumption`, `OverTimeAssumption`,
`RefundAssumption`, `ChatAssumption`, `ThreadsAssumption`, `VoiceAssumption`,
`TranscriptAssumption`, `TraceAssumption`, `PageAssumption`, `DetailAssumption`): types and the
kind of the bounds, that `TicksPerDay` is positive, and that `None` is nothing else (no time,
customer, order, verdict, conversation, case or detail). `ChatTurn` does not bound
`TurnVerdicts`, and `Transcript` opens no more turns than there may be conversations: both are
limits of the instance. Two theorems say less than "for every": the window of a VIP and
`OneManager` are hypotheses of theirs, written in the statement. The second is no weakness of
the proof: run `decide_twice` breaks `PayoutHasApproval` with two managers.

Policy. `DayBoundary` is the one arithmetic fact: a floored age is within w days exactly when
less than (w + 1) days of ticks have passed. It turns the engine's comparison into the
deadline of `VerdictMatchesPolicy` and `ReasonsAreTrue`. A stranger's reason is decided by the
first check, before any that reads what may change of the order.

Refunds. `TypeOK` is not inductive: a resolve dereferences ids it read earlier, so `Core` adds
`References` (tickets and desks point at rows that exist). `LedgerInv` adds what the guards
rest on: a paid order is stamped (`PaidIsStamped`); a row held by a turn, a call between
decision and commit, and a desk each show an unstamped order only if no refund had been
committed when it was read (`PinsHonest`, `CallsHonest`, `DesksHonest`); a turn's own refunds
show in the rows it holds (`OwnRefundsSeen`). `seen` counts the refunds committed at the time
of the read, so an approval that ignores an earlier refund must have been read before it:
`DoublePayNeedsOverlap`. `AnswersOnlyHarden` follows from the other side of the same facts: a
row a turn holds shows a stamp exactly when a refund was among those (or the order was seeded
with one), and an answer from such a row can only lose its approval as refunds are added and
deadlines pass.

Records. A request only moves from waiting for a manager to settled by one. A manager writes a
copy that may be stale by then; `CopiesLag` says that a copy that shows a settled request is of
a settled one, so a stale copy is a waiting one, all its columns change and all are written.
`TicketInv` is that with `TicketMatchesRequest`. `CallsDeduped` and `OpeningsDeduped` carry
what a dedupe query saw (no open ticket of its order among those committed by then) from the
query to the commit and to the history. With one manager the ticket on the desk is still open
when the decision is written (`PayoutInv`), so that no settled request is settled again and
every refund keeps the request that approves it.

Chat turns. A step of `ChatTurn` is a step of `RefundService` once what reaches the service
layer is known to be of the right kind; `ChatInv` says that the verdict of a loop is a verdict,
the customer on file and in a draft a customer, and that the backstop has an order. Theorems
about `RefundService` then carry over to `ChatSpec`. For the backstop, `TurnBacked` follows one
turn from the verdict that makes it escalate to the ticket it names; it survives the steps of
others because rows are only added (`RowsStay`) and settled tickets stay settled. `ChatTypeOK`
needs `ChatInv` and the backstop's invariant for what a loop may hold, and one fact of its own
(`ChatTypeInv`): a loop that asks the model has a step left.
For the case file, `FilesMatch` relates a turn's copy of its conversation to the customer of
its tools: what the turn would write names that customer, no step of another turn touches the
copy, and once the answer is stored there is no change left to write. A commit then writes that
customer or, where the copy was loaded with it, leaves the column to others (`CommitFiles`).

Voice. `GoodBridge` says that the buffer is the end of what was heard, that a bridge is busy
exactly while its task has a text, and that a call hung up has neither buffer nor speech;
`TasksBusy` that a task that works keeps its bridge busy. Under them each step of the bridge is
a step of `Dialogue` or leaves its variables alone. A step of `Transcript` is one of
`VoiceBridge`, and keeps the promise with it.

Transcript. `TalkInv` has what a turn has stored and holds back in each phase (`TurnsGood`), and
the argument about the order of the messages, which carry the time their transaction began: of
two turns in a conversation that did not overlap, all rows of the earlier are stamped before
those of the later (`TurnsApart`), and before the start of one that still runs (`RunsAfter`).
That makes an answer neighbour of its question and the history loaded by a turn what stands
above it (`PromptsGood`). `CallInv` follows one call through its turns: what was said is in the
conversation the bridge keeps or the turn works on, unless a turn failed after a commit in its
middle, and what the caller was answered is in what each later turn loads.

Chat page. What the page knows of is stored (`IdsStored`). As long as nothing crossed, each
request, call and close on its way belongs to the conversation of the page (`RequestsBelong`,
`CallsBelong`, `ClosingBelongs`), and a thread that is being reopened to another
(`LoadingApart`). Only the page's own request closes its conversation, so the page knows, or the
answer is on its way (`ThreadBelongs`), and what was read of the other thread is still true when
it arrives. `EndedChatIsLeftAlone` is about the steps that begin a turn, under the same
invariant.

Trace and admin page. `TraceInv` says that the durable steps of a turn are an initial part of
those it recorded (`TurnsGood`, `DurableGood`), that an id names one step whether stored or not
(`IdsUnique`) and that a queue holds what was recorded (`QueuesGood`). `PageInv` says what the
page awaits and what the answers hold: one at a time unless astray (`OneAwaited`), an answer on
its way is of the case selected, with its stored summary (`AnswersCurrent`), and a durable step
of that case is streamed, missed, or in every read that has been made (`StepsFollowed`). A step
that was not committed when the case was read is in the queue or on the page already, because
it was published before it could be.

Only model-checked, by nature: `TurnTerminates`, `BridgeIsFreed` and `TypingEnds`, since
liveness and ENABLED are outside the prover, and the five runs that expect a violation. No
theorem depends on induction over data: the policy and the tables are expressed without
recursion. The invariants above were checked by TLC on the runs of their modules before they
were proved.

## 5. Plan

1. An abstract ledger (one atomic refund or ticket per order) that `RefundService` implements
   while sessions do not overlap.
2. The record theorems for `ChatSpec`, through `TurnIsSession`.
3. A weaker hypothesis for `PaidAsDecided`: no two managers on one ticket at a time.
4. Several pages on one conversation, one of which closes it under the other.

## 6. Not modelled

- The model client and the prompts: an external service; `ChatTurn` leaves it unconstrained.
- Speech recognition, synthesis and transport of `voice/live.py`: `VoiceBridge` takes frames in
  any order and number.
- Orders, login and session: reads without state. The list of cases, the facts and flags of a
  case and the text of a summary: functions of rows, recomputed on demand.
- The quick replies and chips: presentation of the final row.
- The bound of a subscriber's queue (`events/bus.py:21`): there is none, and a model with one
  would show only the model's.
- What follows a killed process (`agent/runner.py:149`): nothing resumes a turn, and the rows
  it leaves are those of `Crash`, `FailTurn` and `FailRun`; calls die with the process.
- Seed, configuration and schemas (values that become constants), static pages and styles.
