# Kallia in TLA+

Kallia is a Go server (`cmd/server`, `internal/voip`) and a React client
(`client/src`), with a script for Chatwoot (`client/public/widget.js`), that put a
team of operators, and an AI, behind WhatsApp numbers: voice calls, chat,
recordings, campaigns. These modules model the parts of both where goroutines,
timers, awaits, operators and the network meet; TLC checks them on small instances,
and TLAPS proves the invariants that matter most for every instance.

## The system

| Part | State | Operations | What is hard | What must hold |
|---|---|---|---|---|
| VoIP call engine (`internal/voip/call`) | one `CallManager` per call: phase, key, relays, codec, SRTP session, keepalive | `StartCall`, `AcceptCall`, `RejectCall`, `EndCall`, `HandleCallOffer/Accept/Transport/Ack/Terminate`, `onRelayConnected`, the keepalive ticker | five kinds of goroutines that meet only inside `mu`; callbacks and listeners run outside it | an accepted call gets its media; media, watchdog and registration go with the call; the state it rests in reaches its listeners |
| SCTP relays (`internal/voip/transport`) | connections by address and token | `ConfigureRelays`, `Broadcast`, `Cleanup`, timeouts | connection state read and written without a lock | a cleaned-up manager has no open connection |
| Signaling, codecs, SRTP (`signaling`, `media`, `wanode`) | none, or numeric | build, parse, encode | conversions | out of scope, except which key is installed when |
| Sessions (`session.go`, `callregistry.go`, `callrouting.go`, `bridge.go`) | registry of calls, browser bridge, auth state | `wireCall`, `handleEvent`, `callForEvent`, `removeCall`, `setBridge`, `teardownAllCalls` | events of a call that is gone; handover of the bridge | an event reaches its call |
| Session manager (`sessionmanager.go`, `pocketbase_sync.go`) | sessions, pairing | create, pair, restore, remove | removal during pairing | one session per paired number |
| Broker and call handlers (`broker.go`, `httpapi.go`) | live records, history, SSE subscribers | `upsertCall`, `updateCall`, `setOwner`, `endCall`, `saveRecording`; `doStartCall`, `doAccept`, `doReject`, `doEndCall` | look first and write later; the writers do not know of each other | one operator answers; a live call is listed; an ended one is archived with its recording |
| History persister (`sessionstore.go`, `pg.go`) | `call_history` | `SaveCall`, `SaveRecording`, ... | goroutines in no order | a later write keeps the earlier one's data |
| Chat debounce and AI turn (`chat_debounce.go`, `chat_ai_engine.go`, `conversations.go`) | buffer, timer and cancel function per conversation; `ai_active` | `EnqueueMessage`, `processConversation`, `Cancel`, `executeChatAgentTurn`, the operator's handlers | a goroutine per message, timers that have fired, turns that outlive their caller | one answer per message, none over an operator |
| Realtime hub (`realtime_ws.go`) | clients per workspace, Redis subscribers | register, unregister, broadcast, pumps | closing channels others send to | a slow client is dropped, the others are served |
| Job queue, webhooks (`queue.go`, `webhook.go`) | Redis lists, in-memory locks | enqueue, worker, retry, call slots | a job lost between taking and delivering | at least one attempt, bounded retries |
| Call AI (`ai_agent.go`, `ai_scheduler.go`, `gemini_live.go`, `grok_live.go`) | agents per call, schedule | attach, run, trigger | the agent attached after the call became active | one agent per AI call |
| NPS, follow-up (`nps.go`, `followup.go`) | timers by phone | schedule, cancel, answer | a timer that replaces a timer | at most one message |
| Tickets (`authticket.go`) | ticket -> expiry | issue, consume, sweep | one use | no ticket twice |
| Recorder, contacts, tags, knowledge base, Chatwoot, storage, auth, crypto | files, tables | CRUD, I/O | little | not modelled |
| Web phone (`stores/calls.ts`, `lib/event-stream.ts`, `lib/webrtc.ts`, the call hooks and dialogs) | calls listed, the one that rings, connections, the event stream | answer, reject, dial, schedule, hang up; automatic answer; reconnection | five awaits per call, a stream that loses events, one slot for all that rings | a microphone is its call's; what rings is alive |
| Voice agent in the browser (`lib/ai`) | agents of a call, sender's track, microphone | create, start, detach, hangup tool | two creators, a start that is overtaken by a detach, sockets that die | the operator is heard again; a farewell ends |
| Inbox (`stores/conversations.ts`, chat components) | conversation shown, timeline, sockets | select, poll, send, resolve; `onmessage`, `onclose` | answers of other conversations, echoes, two sockets | each message once; the truth in the end |
| Chatwoot widget (`widget.js`) | call, incoming, panel, EventSources | dial, accept, reject, hang up, events | one variable per thing, shared by all continuations | it is never deaf; no microphone and no call is left behind |
| AI agents page (`AgentsPage.tsx`, `ChatAgentEditor.tsx`) | selection, form, editor, lists | load, save, create, delete | loads and saves that overlap | an agent keeps its own text |
| Console (`App.tsx`, the stores, and the pages of contacts, connections, knowledge, settings and profile) | workspace, session, section; list, dialog and form of a page | open, type, save, delete, switch workspace | late answers; a workspace or session that changes under an open page | a record keeps the text typed for it |
| Other pages (billing, dashboard, live monitoring, quality, login) | little | read | nothing, or simulated data | not modelled |

How they interact: whatsmeow calls `handleEvent` on one goroutine; it routes call
stanzas to the engine of the call and starts a goroutine for every chat message.
The engine calls its listeners (`wireCall`), which write the broker. HTTP handlers
call the engine and the broker. Broker and database changes go to browsers
through SSE and the hub. In the client, `EventStream` feeds the stores of calls and
sessions, WebSockets feed the conversations, and pages and dialogs keep the rest in
`useState`: they send requests whose answers find whatever is mounted by then.

## Modules

| Module | Models | Composes |
|---|---|---|
| `CallLifecycle` | the promise of the engine to its users: the phases of `callstate.go`, codec and watchdog acquired once and released for good | |
| `CallManager` | the engine of one call with all its goroutines | uses the edges of `CallLifecycle`, and implements it |
| `CallManagerProofs` | the theorems about it | |
| `CallRecords` | the broker's record of one call, everybody who writes it, and the database row | sees the engine as the phases of `CallLifecycle`, which it is proved to keep to |
| `CallRecordsProofs` | the theorems about it | |
| `ChatAnswers` | the promise of the chat agent to the client and the operators: each message answered by one turn, and called off by nobody but an operator | |
| `ChatDebounce` | the chat agent of one conversation | implements `ChatAnswers` |
| `ChatDebounceProofs` | the theorems about it | |
| `OperatorCalls` | the promise of the web phone to its operator: each call rings once, is taken once, and has one microphone at most, once | |
| `ClientCalls` | the calls of one browser, with the broker's handlers on the other side | sees the engine of a call as what `doAccept` and the events say of it, and implements `OperatorCalls` |
| `ClientCallsProofs` | the theorems about it | |
| `VoiceAgent` | the voice agents of one call in the browser | |
| `Inbox` | the inbox, with the server as a log of events | |
| `InboxProofs` | the theorems about it | |
| `Widget` | the Chatwoot telephone | |
| `WidgetProofs` | the theorems about it | |
| `Agents` | the page of the AI agents | |
| `AgentsProofs` | the theorems about it, and about `VoiceAgent` | |
| `ConsoleStores` | what the pages share: server, requests, stores of workspaces and sessions, shell | |
| `ContactsPage`, `ConnectionsPage`, `KnowledgeBasePage`, `SessionPanes`, `ProfilePage` | one page each | extend `ConsoleStores` |
| `Console` | the whole console, one page on the screen | all of the pages |
| `ConsoleProofs` | the theorems about it | |
| `MC...` | instances for TLC, with one `.cfg` per run | |

### `CallManager`

One step is one critical section of `CallManager.mu`, or one call between two of
them. `pc[t]` is what thread `t` does next; `after[t]` is what it does when
`emitState` has called the listeners, which happens outside the lock. That is two
steps: a listener reads the state (`EmitState`, into `read[t]`) and acts on it later
(`ListenersReturn`), so listeners of two threads may act in the other order. `seen` is
the last state that some listener acted on while the call was still in it. Threads: the
event loop (`events`), the goroutine that waits for the ack of the offer (`ack`),
the keepalive ticker (`keepalive`), one callback per relay, and any number of
operators (HTTP handlers and auto-answer).

* Data: relays are model values; `relayData` says whether the call has none, some
  that are usable, or some that are not; keys and sessions are present or absent.
* A call that has ended is not reused: `session.go` makes a `CallManager` for every
  offer. `Begin` happens once, so the guard "a call is already in progress" of
  `StartCall` is not reachable here.
* `lateDial` is a history variable: the ack of an offer that comes after the end
  still dials the relays, and nothing closes them. `EndedIsClean` makes that one
  exception.
* `OnHold` and the rejections by the peer are edges of `ApplyTransition` that no
  caller in `src/` uses; they are in `CallLifecycle`, not in `CallManager`.

### `CallRecords`

The engine from outside: the phases, and on which goroutine its listeners and its
ended handler run (`media` stands for ack, relay callbacks and watchdog, which
make the same calls). A listener is four steps, since it looks a phone number up
and writes back a record it has read before. A record is its owner, its status and
whether it has a recording URL; peers, times and transcripts are left out. The
writes of the persister are a set: goroutines in no order. The recorder is taken
to be on, so the ended handler always has a URL. One call, so `callForEvent`'s
fallback always finds it; `teardownAllCalls` and AI calls are not in the module.

### `ChatDebounce`

Each message `m` names what it starts: its ingestion `pc[m]`, the state object it
may create, its timer `clock[m]`, and the turn `turn[m]` of that timer. `current` is
the entry of `ChatDebounceManager.states`; an ingestion or a
`processConversation` that has looked it up keeps the pointer (`holds`, `target`)
although `Cancel` may have removed it since. `isGenerating` is set and cleared
together with `cancelGen` everywhere, so one variable stands for both. A turn is
check, generate, type, send; each may fail. The retrieval, the prompt and the text
are left out.

### `ClientCalls`

The event loop of the browser runs one continuation at a time, so a step is the code
between two awaits. `pc[<<asker, call>>]` is what a mutation awaits: the modal's
answer, the automatic answer or the scheduler's call go through the same `openCall`.
The broker's side is there as the steps of `doAccept`; its events are put on `wire`
in order, and only while this browser is subscribed and its channel has room
(`ChannelSize`), which is how `broadcast` treats a slow subscriber. `missed` is a
history variable: the calls whose end never reached this browser. `EventStream` is a
variable with five values; `Unauthorized` switches it off for good.

`OperatorCalls` is the same from the operator's side, without events, requests and
owners. `Promise` maps the phone to it: a call's bell is silent while its ring is on
the wire (or the call is not there yet), ringing while it is `incoming`, and over
after that or when the ring was lost; its media are "asked" from the engine's accept
to `getUserMedia`, "on" while an `openCall` or a registered connection holds them, and
"over" when they were closed, or were never to be opened here.

### `VoiceAgent`

`start()` of an agent is four phases; the handler (`useAICallHandler`) and the button
of the `CallCard` may each create one. `chain` holds the changes of the sender's
track under way, which the browser applies in the order of the calls. `early` is a
history variable for `OperatorHeard`: an agent detached before its `start()` has
returned goes on and takes the audio all the same.

### `Inbox`

The server is its log of events. What a request reads is a prefix of the log, what the
server had when it served it; the answer comes when it will. A socket is a position in
the log. `Stored` and `Listed` are what the two GET requests return. The poll of three
seconds is enabled while the page is mounted.

### `Widget`

A continuation of `startCall` or `acceptIncoming` is `step[c]`; `orphans` counts the
EventSources that `globalES` no longer names, since `connectEvents` does not look
whether a ticket is on its way. An event may come from any of them, late, twice or
never. `asked` and `replaced` are history variables that say which calls the agent
has hung up and which were put aside by another.

### `Agents`

The text of an agent is the id of the agent it was written for. `draft` is the text
in `ChatAgentEditor`, which takes it once, when React mounts it; `form` is `specForm`,
which an effect fills whenever selection or list change;
`handleSaveSpecialist` refuses the empty form the page begins with, and the model does.
The editor's buttons wait for its own save, not for a deletion (`Saving`, `Deleting`). `mine` and `shown` in a
request say whether the page and the editor that sent it are still mounted: a setter
of a component that has gone does nothing, a callback of the page does.

### The console

`ConsoleStores` has the variables and what the pages share; a page module adds its
actions, and `Console` is their disjunction. `view` is the `useState` of the page on
the screen. A request names the page state its closure needs (`ws`, `then`, `mine`);
an answer may fail after the server has carried the request out. `Commit` is what the
effects of React do in the same step: the reads a page makes when it mounts or when
its workspace or session changes, and the settings dialog's name.

* A list shows ids: the text shown with an id is the record's own as long as the
  property holds.
* The lists that the connections page falls back on may hold any session
  (`SessionShown`); `refreshSessionsList`, three requests in a row, is one step.
* Requests that write no record's text (logout, pairing, the default session) are one
  kind, "touch".
* The operator is a super administrator throughout, which adds the panel of
  administrators; nobody is demoted. The first read of the workspaces does not fail.
* `excused` is a history variable: records that one of the known exceptions (see
  below) may reach. It is forgotten when the page goes and nothing under way can
  reach the record any more.

## Runs

| Run | Instance | What it asks |
|---|---|---|
| `call_engine` | 1 operator, 1 relay; 351 thousand states | all safety and liveness properties of the engine, and that it implements `CallLifecycle` |
| `call_records` | 1 operator, auto-answer, event loop, media; 982 thousand states | who answers, what is listed, archived and stored |
| `call_records_claim` | the same | *violated*: an operator's claim is lost by the state listener |
| `call_records_freed` | the same | *violated*: an operator stays busy with a call that was refused |
| `chat_debounce` | 2 messages, 1 operator, up to 2 bubbles; 316 thousand states | nothing answered twice, stranded or forgotten |
| `chat_debounce_human` | the same | *violated*: the AI talks over the operator |
| `webphone` | a call that comes and one that is placed, a channel of 3; 796 thousand states | microphones and the modal |
| `voice_agent` | 2 agents; 300 thousand states | audio given back, button, farewell |
| `inbox` | 2 conversations, 2 events, 2 answers, 2 sockets; 477 thousand states | no duplicates, never deaf, true in the end |
| `widget` | a call that comes and one that is placed, 2 tickets, 1 nameless stream; 1.4 million states | ring, streams, microphones, calls |
| `agents_page` | 2 specialists, 2 chat agents, any 2 of loads and requests under way; 3.6 million states up to symmetry | agents keep their texts |
| `console` | 2 workspaces, sessions, contacts and documents, one of each new; 1 write; 1.2 million states | records keep their texts |

`inbox`, `widget` and `agents_page` check for deadlock; in the others a run stops where
nothing is left to do (a call is over, the client is silent, a bound is reached), so
deadlock is not checked.

**Why the bounds are enough.** Each conflict is between two parties: two threads that
end a call, a callback and an accept, two ingestions with one timer, an operator and a
turn, an answer and the dialog that was opened since.

* Engine: a second relay only repeats a callback that finds the call active. The
  theorems remove that bound and the one on operators (with `Operators = {o1, o2}`
  the invariants hold too, in 5.0 million states).
* `ChatDebounce`: with two messages every pair of ingestion, timer and turn occurs,
  with states created by either, and with the operator between any two steps.
* `ClientCalls`: one slot, and two calls that compete for it; a channel of three is
  full when a list, a ring and an end meet.
* `VoiceAgent`: the handler's agent and the button's; `MaxAsking` = 2 answers awaited.
* `Inbox`: a message of one conversation and an event of another, an old answer and a
  new one, an old socket and a new one.
* `Widget`: `MaxOpening` = 2 and `MaxOrphans` = 1: two streams open, one without name.
* `Agents`: `MaxUnderWay` = 2 counts loads, requests and answers together, so that a
  save of an editor that has gone meets that of another, a load another load, and a
  load a save; two specialists, so that the form may be that of another; `MaxGone` = 1
  limits deletions (two may be under way). The agents of a kind are symmetric, as are
  the loads, and the run asks for no liveness. The theorems remove these bounds.
* `Console`: two records of a kind, one to be created, are what a text can be mixed up
  between; what is under way at once is one write (`MaxWrites`) and the reads that
  pages make by themselves, with one more by hand (`MaxReads`); `MaxChanged` = 1 record
  is created, deleted or changed by an exception. Every page and dialog is reached. With
  one write, Enter pressed twice in a dialog of the connections page is outside the run
  (its second submission waits for the first); `ConsoleRecordsKeepTheirs` is proved for
  any `MaxWrites`, and covers it.

**Fairness.** Goroutines that can take a step take one (weak fairness per thread):
Go schedules them, and each waits only for a mutex that is always released. Timers
fire. Nobody has to call, answer, hang up or write, and no relay has to open or to
fail. `DeadCallEnds` needs the ticker of the keepalive, `OpenRelayActivates` the
callbacks; `EndedCallArchived` the handlers and listeners; `AnsweredUnlessHuman`
timers and turns. In the browser: the awaits of a start and of a hangup settle, and
`replaceTrack` does while the call lasts (`VoiceAgent`; a closed connection may leave
it pending, so `ButtonReturns` ends with the call); the interval of a mounted page
fires (WF of `Poll`) and not every answer to `fetchMessages` is lost (SF of
`FetchReturns`: a server that goes on answering answers the newest in the end). No
fairness is asked of the operator or of any socket. `ClientCalls` has the fairness of
its timers and awaits in `Spec`, though its run asks only for invariants.

## What does not hold

1. `ClaimKept` - `broker.go:219` introduces `updateCall` in place of "getCall, muta,
   upsertCall", which lost updates; the state listener (`session.go:266-280`) still
   does just that. Trace: the listener reads the record, an operator claims the
   call, the listener writes the record without owner. The status is lost the same way:
   the listener maps it at line 269 and writes it at line 280, with no lock across
   them. A listener that has mapped "ringing" before the activation may write after
   that of the relay's goroutine has written "connected", and the record of the active
   call stays "ringing": nothing writes it again before the call ends. TLC finds this in
   `CallRecords` in 16 steps (asked ad hoc whether, at rest, an active call's record
   says so). `StateReachesListeners` of the engine is what does hold: the state the call
   rests in has reached a listener that acted on it, though not as the last to act.
2. `OwnerFreed` - `doStartCall` writes its record when the call may have ended
   already (`httpapi.go:1188`). The record is never archived, and
   `ownerActiveCall` reports the operator busy for good.
3. `HumanSilencesAI` - `processConversation` defers the reset of `cancelGen`, and
   `onAction` (`server.go:95`) returns at once because it starts a goroutine. The
   cancel function is lost while the turn runs: neither `Cancel` nor a newer message
   stops it, and it reads `ai_active` only when it begins.

Exceptions that properties make, each for what the code does and no
document promises otherwise:

* `RecordingStored`: a call that was archived before its recorder was closed, so
  without URL, and whose UPDATE of the recording reached the database before the INSERT
  of the call (`early`): the UPDATE changed nothing, and the URL is lost. Either alone
  does no harm.
* `OperatorHeard`: an agent detached before its `start()` has returned (`early`).
* `RingingIsLive`: a call whose end was lost with the stream (`missed`) rings on until
  somebody touches it.
* `MicsAccounted` and `NothingLeftBehind` of `Widget`: a call replaced by another, or
  hung up before it had its microphone.
* `RecordsKeepTheirs`: a document whose dialog is opened over the FAQ and the address
  of an earlier one, or over a file still being read (`KnowledgeBasePage.tsx:99`,
  `175`); and a pane that stays open while its session or workspace changes
  (`LeftInPane`): it shows, and saves, what it held of the one before, until its own
  has been read. Besides, Enter in the dialogs of the connections page submits again
  while one request is under way, and a late answer closes whichever dialog is open.

## What is proved

37 theorems, for all values of the constants: every invariant that a run checks; that
`CallManager` implements `CallLifecycle` step by step; and three more refinements,
`ImplementsAnswers`, `EngineFollowsLifecycle` and `ImplementsOperatorCalls`, which the
runs leave out (TLC finds them true on the instances of `chat_debounce`,
`call_records` and `webphone`).

Each comes from an inductive invariant `IInv`. A proof module is laid out alike: the
conjuncts of `IInv`, each with what it is for; lemmas on the operators; one lemma per
conjunct, with one step per action; `Inductive`, which puts them together; and the
theorems, which follow from it. What makes each proof work:

**`CallManagerProofs`** - any finite or infinite sets of operators and relays disjoint
from each other and from the workers: the type invariant, five safety invariants, and
that each step implements a step of `CallLifecycle`. `IInv` adds what each thread
relies on between two critical sections:

* `Early`, `Offering`: while a call is being set up only its own thread acts on it;
* `Unwatched`: without a codec, or before the call is active, there is no keepalive;
* `Direction`, `Answered`: what a thread in the middle of a handler knows of the
  call (an activation follows an accept, an accept an offer);
* `Told`: when the call has left the state the listeners have seen, some thread has yet
  to read the new one, or has read it and goes on to act on it, so that no state the
  call rests in is missed; nothing is claimed of the order in which they act;
* `Keyed`: a thread that will activate the call has installed the key, if any;
* `Released`: an ended call is either clean, or some thread still has to notify,
  clean up or close the relays.

**`CallRecordsProofs`** - any set of operators. `OneAnswers`: a call rings only until
somebody has answered it (`Answered`). `LiveCallListed`: archiving follows the end of
the call or its removal from the registry (`Archiving`), and a record which is missing
is about to be written by a thread still in `incoming`, `listen`, `build` or `upsert`
(`Listed`); that no such thread is overtaken while the call is being made is `Fresh`
and `Starting`. `RecordingListed`: the ended handler archives before it saves the URL,
and `endCall` finds a record or a row to go by, because from the first listener on the
call is in the live records or in the history, and never in neither (`Kept`); so there
is a row when the URL comes (`Saved`). `RecordingStored`: once the recorder is closed
its UPDATE is issued, and it has either landed on a row or set `early` (`Landed`); the
upsert keeps a URL it does not bring. So the URL is missing only where the UPDATE came
first and no INSERT brought it, which is the exception the invariant names.
`EngineFollowsLifecycle` joins the module to the engine's: the phases its handlers and
listeners work on change only along the edges of `CallLifecycle`, which `CallManager`
implements (placing a call and sending its offer are one step here).

**`ChatDebounceProofs`** - any messages, operators and bubbles. A state is known by
the message that made it, and a timer by the message that armed it, so that `Placed`
can say that two states never have the same timer. Then `Timed`: the timer set last
for the state in the map is the one its buffer waits for, or is at the point of taking
it, which is `BufferedHasTimer`. `NothingAnsweredTwice` needs that buffers hold a
message once and are disjoint from each other, from batches, and from what is still to
be ingested (`OnceBuffered`, `OnceTaken`). `ImplementsAnswers` is the refinement of
`ChatAnswers`: what waits is what is in any buffer, in the map or not, so the theorem
says that neither a state that `Cancel` has removed nor a timer that finds another
state loses a message. A batch leaves the other buffers alone because they are
disjoint, and a turn begins once because its timer is not armed again (`Begun`). After
an operator has interrupted, `ChatAnswers` lets a turn go on: see `HumanSilencesAI`.

**`ClientCallsProofs`** - any calls, any capacity of the channel. `MicsAccounted`
bounds the number of microphones, and is inductive only as an equation: a call has one
exactly while an `openCall` holds it or its connection is registered (`OneMic`). That
two answers never both add one is `OneMedia`, which goes back to the engine's accepting
once. `RingingIsLive` follows the end of a call through the channel: it is broadcast
after the ring (`RingThenEnd`), so while a dead call rings its end is still on the wire
or was lost with the stream (`EndOnItsWay`).

`ImplementsOperatorCalls` says what no invariant of a single state does: that a bell
which has stopped stays silent, that a call is taken once, and that a microphone which
was closed is not opened again. Two facts make the steps fit, both about what is still
under way. The ring of a call is on the wire once, and only before it rings here
(`RingsOnce`), since the broker takes a call up once and the channel neither repeats
nor reorders; so an event that is delivered either begins the one ring of its call, or
can only stop one. And a call is claimed before the engine accepts it (`Claimed`), so
that nobody else can take it between an operator's claim and accept, nor after. The
proof has a lemma per group of actions (`BrokerImplements`, `PlaceImplements`,
`DeliverImplements`, `StreamImplements`, `AcceptImplements`, `OpenImplements`, ...),
and `BellsCease`, `SameDue` and `MoveMedia` say when the three parts of the mapping
stay as they are.

**`InboxProofs`** - any conversations, workspaces and bounds. What is inductive is
simple (`Types`, `NoDuplicates` and `PageListens`), and the work is in the data: that
what the server reads back has no duplicates, nor what the timeline becomes. `Stored`
lists a set of positions of the log in their order; that a set of numbers has such an
enumeration is an induction. The library's induction theorems cannot be instantiated
here, so it is done by the least counterexample: `Least` gets the least element of a
set of natural numbers from their well-foundedness (`NatLessThanWellFounded`, `WFMin`),
and `Enumerable` applies it to the sizes of sets that have none. `Ordered` in
`Inbox` is that enumeration, stated by its property and not by a sorting function,
which the prover cannot expand.

**`WidgetProofs`** - any calls and bounds. The four invariants are nearly inductive
together. `Untouched` says what a call nobody has begun to set up lacks, `Taken` that a
call whose accept goes on to a microphone is the agent's on the server as well as here,
and `Separate` that a call is the server's AI's or has media here, never both.

**`AgentsProofs`** - any agents and any number of loads, saves and deletions. That a
save is right depends on what the page shows, which depends on the lists it was given
and on the answers of earlier saves, which it puts into its lists. So `IInv` says of
each place a text may be in that it is its agent's: `Stored` (server), `Rows` (lists
and loads), `Mail` (requests and answers), `SpecForm` and `Draft` (form and editor).
`Draft` is why the answer of an editor that has gone must close the editor it finds:
`EditorKeeps` needs the page to choose another agent only while no editor is shown.

For `VoiceAgent`, with any number of agents: if the microphone is off, or the call
hears an agent, or the card says so, then some agent took the audio and has not given
it back (`Taken`). For that a pending `replaceTrack` must be of an agent that exists
and, if it restores, that is detached (`Created`), an agent takes the track once
(`TakesOnce`), and an agent detached in the middle of its start is remembered
(`Remembered`).

**`ConsoleProofs`** - any ids of the kinds, any bounds. `RecordsKeepTheirs` speaks of
the server only, so `IInv` says where each text on its way there has come from. A
write is right when it is sent (`Right`), and right it stays, since an exception is
only forgotten when nothing under way can reach its record. It is right when sent for
one of two reasons: the dialog it was typed in is filled when it is opened for its
record (`Dialogs`, a conjunct per page), or it comes from a pane of settings, which
holds what was read for its session or workspace (`Fits`). A pane is filled by answers
that may be late, so both the reads (`Asked`) and the writes (`Placed`) that the page
on the screen still waits for must be for the session or workspace it shows by then.
A pane that stays while its session or workspace changes is where that fails, and
where `excused` takes the record in (`LeftInPane`). The proof has a lemma per action of
every page; `InPlace` is what they have in common, and what lets everything but the
page itself be kept by one lemma.

**Assumptions.** Ids of the kinds are disjoint and differ from the marks (`None`,
"new", "free", ...), and from the names that stand for others (`Widget`: "me",
"other", "server"). Bounds are natural numbers, and a channel and a turn have room for
one. Nothing is assumed of how many operators, calls, messages or agents there are.

**Only model-checked.** Every liveness property, and the fairness half of
`ImplementsLifecycle`: the prover has no rule for `ENABLED`.

## Plan: what is left

1. `RealtimeHub` - clients, channels and Redis subscribers of a workspace; that a
   slow client is disconnected without harm, and an event delivered once; composed
   with `Inbox`, which now takes the log for the server.
2. `SctpRelay` - connection states with their unlocked reads, timeout, callbacks and
   `Cleanup`; refined by the relays of `CallManager`.
3. `SessionCalls` - several calls of a session: `callForEvent`'s fallbacks, the
   limit of calls, one call per operator, the bridge handed over by `setBridge`.
4. `Schedules` - `ai_scheduler.go`, `useAICallScheduler` in every open tab and
   `SchedulesTab`, which read the whole AI configuration, change it and write it back.
5. `AiAttach` - the listener list of a call and the agent that attaches to it.
6. `JobQueue` - webhook jobs with retries over a crash; call slots.
7. `FollowUp`, `Tickets`, `RtpWindow` - timers by phone, one-use tickets, the window
   of duplicate packets against a reference definition.

## Not modelled

Codecs and cryptography (numeric), stanza building and parsing (pure conversions),
CRUD over the database, scripts of PocketBase, pages that only read. In the pages that
are modelled: search and filters that send nothing, tags, members of a workspace, QR
codes and pairing, a contact's history, the dialog of the plan's limit, transcripts,
mute and the choice of devices, formatting. In the widget: which contact a button is
bound to when Chatwoot changes its page.
