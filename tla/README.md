# Formal verification of the Revenue Recovery Voice Agent

TLA+ models of the voice agent's backend (`src/apps/api`), the TLC runs that
model-check them, and theorems about them with proofs TLAPS checks. Line numbers
refer to files below `src/apps/api/` unless a longer path is given.

The agent answers a contractor's missed calls. Twilio streams the caller's audio
over a WebSocket; a *bridge* relays it to a speech-to-speech model service,
plays the model's audio back, executes the tools the model asks for (quote,
availability, booking, SMS, payment link, transfer), escalates to a human when a
rule fires, and leaves a call row, turn rows and tool rows behind, which a
worker later analyses and pushes to a CRM.

## 1. Inventory

### 1.1 Components

| component | source | state it keeps | operations |
|---|---|---|---|
| Playback ledger | `media/playback_ledger.py` | outstanding marks, played and queued byte counts, current item and its start offset | `on_chunk_sent`, `on_mark_ack`, `on_item_started`, `begin_new_item`, readings in ms |
| Outbound audio and barge-in | `media/bridge.py:387-484`, `media/barge_in.py` | the bounded outbound queue and its join counter, mark sequence, the frame being written | queue a delta, pump, settle, discard, cut (`clear`, cancel, truncate, flush) |
| Call flow | `media/bridge.py:329-385, 486-613`, `domain/state.py`, `domain/escalation.py`, `media/gateway.py:183-262`, `tools/dispatch.py` | last caller text, tool-failure and sentiment streaks, tool history, escalated, booking and area flags | caller transcript, verdict, function call, escalation check, transfer, classification of the outcome |
| Bridge lifecycle | `media/bridge.py:142-260`, `media/gateway.py:45-180` | stop and closed flags, four pump tasks, the set of live bridges | `run`, `stop`, `shutdown`, `aclose`, drain, flush, finalise, hand off |
| Turn rows | `media/bridge.py:329-385, 472-549`, `media/gateway.py`, `db/repository.py:97-129` | partial agent text, `turns` rows with item id and `truncated_at_ms` | store turn, mark truncation, flush the partial text |
| Booking | `tools/registry.py:136-188`, `tools/booking.py`, `tools/calcom.py` | per-key locks, cache of completed keys | `run_tool`, `book_appointment`, `create_booking` |
| Budget guard | `media/budget_guard.py`, `media/bridge.py:616-641` | start time, wrap-up flag | `check`, `needs_wrap_up_now`, `mark_wrap_up_sent` |
| SMS, opt-out, payment link | `telephony/sms.py`, `telephony/status_webhook.py:103-131`, `tools/payment.py`, `db/repository.py:201-264` | `sms_sends` claims, `contacts.opted_out_at` | claim, send, mark delivered, STOP |
| Call row and callbacks | `telephony/status_webhook.py`, `telephony/twiml.py`, `db/repository.py:35-94` | `calls` row: status, outcome, recording | create, status callback, recording callback, finish |
| Post-call worker | `workers/*.py`, `tools/crm.py` | `call_analyses`, `contacts.crm_id`, Celery queue | analyse, sync to the CRM, retry |
| Retry policy | `resilience.py` | none | attempts, back-off, deadline |
| Live event feed | `observability/live.py`, `routers/stream.py` | subscriber queues | subscribe, publish, unsubscribe |
| Transfer | `tools/transfer.py` | none | redirect the call |
| Client registry | `config/loader.py` | cache of client configurations | load, look up by number |
| Demo replay | `demo/replay.py`, `routers/demo.py`, `routers/health.py` | one scripted call in the database | reset, persist, publish, readiness |
| Pure rules | `domain/hours.py`, `tools/service_area.py`, `tools/availability.py`, `domain/qualification.py` | none | opening hours, areas, slots, qualification |
| Metrics | `observability/metrics.py`, `routers/dashboard.py` | none | percentiles, thresholds, tool statistics |
| Others | knowledge base, auth, settings, redaction, evaluation harness, web dashboard | mostly none | declarations, I/O, presentation |

`PROJECT.json` lists all of them with their status.

### 1.2 How they interact

The gateway (`media/gateway.py`) accepts the WebSocket, builds one `CallBridge`
and awaits `run()`. `run()` starts four asyncio tasks which share the bridge's
fields without locks, because a coroutine only gives way at an `await`:

* `pump_twilio` reads Twilio's frames: caller audio goes to the model, mark acks
  to the ledger, `stop` sets the stop flag;
* `pump_openai` reads the model's events **one at a time** and awaits everything
  a handler does: storing rows, tools, the transfer, the barge-in;
* `pump_outbound` takes frames from the queue, writes a `media` and a `mark`
  message, then records the chunk in the ledger;
* `watch_budget` ticks every two seconds and may stop the call.

The first task that ends wakes `run()`, which sets the stop flag, drains the
queue with a timeout, cancels the rest, and closes (`aclose`: flush the partial
turn, close the sockets). A process shutdown calls `shutdown()` on every live
bridge, concurrently with `run()`. After `run()` the gateway writes the final
UPDATE of the call row and enqueues the post-call job. Hooks of the bridge
(`on_turn`, `on_invocation`, `on_truncation`, `on_escalation`) are the gateway's
database writes, each in its own transaction.

### 1.3 Hard behaviours

* **Interleavings** of the pumps at every await: a barge-in empties the queue
  and flushes the ledger while the outbound pump holds a frame between two writes.
* **Acks** that are late, lost, duplicated or reordered, and that survive a flush.
* **Sequential handling** of model events: what arrives while a tool is awaited waits.
* **Teardown**: cancellation in the middle of an insert, two closers, a stalled
  socket, a failing database.
* **Timeouts and retries** of writes that are not idempotent at the provider.
* **Stale reads**: a row is stored under whatever item is current at that moment.
* **At-least-once delivery** of post-call jobs and webhooks, with a worker or a web
  process that dies between two steps.
* **Decisions on rows read earlier**: the status callback against the gateway's final UPDATE,
  two CRM syncs that both found no contact, a cache taken while its files are edited.
* **Slow consumers**: a dashboard tab that does not read must not slow a call down.
* **Boundaries**: opening minutes, two budget ceilings, ranks of percentiles of small samples.

### 1.4 What makes each part correct

* Ledger: played <= queued, played never rewinds, a lost ack heals with the next one.
* Audio: a cut silences what was queued; frames keep their order; the queue's
  join counter is exact; the model is never told the caller heard more than they did.
* Call flow: every trigger escalates, once; the streaks are what their names
  say; the outcome agrees with what happened; safety comes first.
* Lifecycle: every call is finalised and handed off; no turn twice, none forgotten.
* Turn rows: no words twice, no truncation revised, marks on the right rows.
* SMS: at most one message per key, none decided on after a STOP, and no key consumed
  without a message unless something failed.
* Call row: the gateway's outcome stands, and every call that ended has one.
* Post-call: every task settles, nothing is logged at the CRM without its summary, and what is
  duplicated there is explained by a redelivery, a retry or a race.
* Live feed: nothing shown that is not stored, no gap unless the viewer's own queue
  filled, no publisher that waits. Budget: warned once and in time, ended at most a tick late.
* Registry: one whole directory at a time, fresh unless an edit raced, calls routed by number.
* Showcase and recording: what is offered is there and whole. Rules and metrics: each
  equals its reference definition. Transfer: one redirect per invocation.
* Booking: "ok" means booked; one writer per key; no double booking.

The hazards behind these, line by line, are in `PROJECT.json` under `hazards`.

## 2. Modules

| module | models | form |
|---|---|---|
| `PlaybackLedger` | the ledger class; `LedgerSpec` is the abstract specification: any order of calls | operators + specification |
| `AudioPath` | outbound queue, pump, acks, cuts; extends `PlaybackLedger` and implements `LedgerSpec` | specification |
| `CallFlow` | `pump_openai`'s handlers, escalation, outcome | specification |
| `BridgeLifecycle` | pumps as tasks, both closers, the gateway's end of a call | specification |
| `TurnLog` | rows of `turns`, partial text, truncation marks | specification |
| `Booking` | `run_tool`, `book_appointment`, `create_booking` | specification |
| `Retry` | `resilience.py`: policies and which answers they retry | operators |
| `Outbox` | what the SMS path promises: abstract specification | specification |
| `SmsSend` | `telephony/sms.py` and its database helpers; implements `Outbox` | actions, instantiates `Retry` and `Outbox` |
| `CallRecord` | the call row: voice webhook, gateway, status callback; the payment tool; extends `SmsSend` | specification |
| `PostCall` | the Celery tasks and the HubSpot adapter | specification |
| `LiveFeed` | the `on_event` hook, the hub, the SSE stream | actions |
| `Budget` | guard and `_watch_budget`; extends `LiveFeed`, of which the task is a publisher | specification |
| `Registry`, `DemoReplay`, `Recording`, `Rules`, `Reporting`, `Transfer` | six parts around a call, see 2.11 | actions |
| `AudioPathProofs` | ledger and audio path | theorems |
| `CallFlowProofs`, `BridgeLifecycleProofs`, `BookingProofs`, `CallRecordProofs`, `PostCallProofs` | the module each is named for; `CallRecordProofs` with the SMS path | theorems |
| `LiveCallProofs` | `TurnLog`, `LiveFeed`, `Budget` | theorems |
| `FrontDeskProofs` | `Transfer`, `DemoReplay`, `Recording`, `Registry`, `Rules`, `Reporting`; induction over finite sets, sums over a bag | theorems |
| `MC*` | values and symmetry for TLC; `MCFrontDesk` puts the last six in one run | |

### 2.1 PlaybackLedger

The five variables are the class's five fields. Every method is synchronous, so
each is one action. `OnMarkAck` keeps the code's three parts: pop the name
(return when unknown), raise the played count with `max`, prune the marks the
played count has passed. `BytesToMs` is the integer floor of n*1000/8000. The code
computes `int(n / 8000 * 1000)` in floating point, which for some byte counts
above 8000 is one millisecond less; it only ever rounds further down, so the
"never more than heard" property is not affected.

### 2.2 AudioPath

Three pumps are interleaved. An action ends where a socket write is awaited,
so `PumpMedia`, `PumpMark` and `PumpRecord` are the three pieces of
`_pump_outbound`, and `OnBargeIn`/`SafetyPreempts`, `Reconcile`, `EndCut` those
of a cut. Twilio's side is external: `wire` is its play-out buffer, a mark is
echoed when the audio before it was played, a `clear` empties it and may echo
the marks it held. `MarkArrives` may leave the ack in place, which duplicates it,
and an ack that is never picked up is lost. Three history variables say what the
code does not remember: `lastCut`, `heard` (what the caller heard, in bytes) and
`blurred` (an item began while frames of another were still in the bridge).

`ImplementsLedger` is the refinement: the variables of `LedgerSpec` are the same
variables, and every step of the three pumps is a step of the ledger or a stutter.

### 2.3 CallFlow

One event at a time: `handler` says which await `pump_openai` is at. An utterance
is `plain`, `human` or `safety`, which is all `should_escalate` tells apart. A tool
ends with success or failure (`ToolFinishes`), is stored (`OnInvocation`), and the
handler ends in `CheckEscalation`. The flag `escalated` is set before the
transfer is dispatched, the transfer is itself a tool call that is stored and
checked again. `Cancel` may strike at any await. The outcome is `Classify`d by
`FinishCall` once the pump is gone; a session that raises (no connection to the model service, a
cancelled task, a failing teardown) is written down as "failed" instead (`SessionFails`), also with a
booking in it.

### 2.4 BridgeLifecycle

Each pump is `running`, `done` or `cancelled`; `closer["run"]` and
`closer["shutdown"]` are the program counters of the two coroutines that tear
the call down. `Aclose` is atomic up to its first await: read and set the closed
flag, take the partial text. `call` is the gateway's finally block: finalise,
then hand off, or stop when the final UPDATE raises.

### 2.5 TurnLog

A row is made when its event is read and stored after an await: `storing` holds the row that
`pump_openai`, or the coroutine that closes the bridge, is inserting. In between acks arrive, the call
may be stopped, and the insert may raise or be cut off (`PumpEnds`, `FlushFails`), which loses its
words: `TranscriptDone` and `FlushPartialTurn` have cleared the partial text by then. The history
variable `lost` records that. A cut awaits its sends between reading the ledger and flushing it
(`cut`, `BeginNewItem`), and a barge-in awaits the truncation hook after that (`OnTruncation`).
`RecordTurn` gives the row the id of the current item, as `_record_turn` does for the caller's rows
as well.

`NoTextLost` is about all of this: text that has arrived is never without a place (partial text, a
hand, a row) except by an insert that did not commit, and once words were lost that way no row of the
agent follows, so a loss is the end of the agent's transcript and not a hole in it. The pump and a
flush by `shutdown()` store side by side, which is why the second part is not obvious.

### 2.6 Booking

A dispatch has up to `MaxAttempts` budgets. `wait_for` may cancel an attempt at the
lock or at the POST; the POST that was sent stays in `requests`, and the provider
acts on it whether or not somebody waits. `line[k]` is the fair FIFO of
`asyncio.Lock` with its holder first.

### 2.7 SmsSend, Outbox and Retry

A sender is one call of `send_sms`. Configuration and suppression check are `SendSms`; the claim of the
key is `ClaimSmsSend`, a step of its own, because the SELECT and the INSERT are two awaited statements at
READ COMMITTED and a STOP may commit between them. The attempts of the POST are `Post` and
`Answered`, the second transaction is `MarkDelivered`. `wire` is the request as Twilio has it: Twilio may
act on it before its answer is lost, after the sender was cancelled, or never.
`Retry` says which answers a policy tries again; an answer is a class (`ok`,
`limited`, `broken`, `unconnected`, `unanswered`, `verdict`), because that is all the
policies look at, and back-off is only the time in between, in which anything may happen.

`ImplementsOutbox` maps `optedOut` to `stopped`, the keys of the senders between check and claim to `due`,
and `claims` to `reserved`: a message is considered, decided on, then delivered. No message is considered
once the recipient has opted out. One that was checked before a STOP may still be claimed and sent after it, and the
abstract specification says so: it forgets neither. The refinement holds because the claim is unique and committed before the
POST and because `UNSAFE_WRITE` retries nothing that Twilio may have seen. A transaction whose commit
raises is taken not to have committed.

### 2.8 CallRecord

The database runs at READ COMMITTED, so `StatusReads` and `StatusWrites` are two steps, and the
gateway's unconditional UPDATE may fall between them. The history field `raced` holds the callbacks
that had read the row and not written it by then. One of them overwrites the gateway's outcome when it
goes on, which the code does not prevent; `GatewayOutcomeStands` says that nothing else does, and that the
outcome stands until then. A delivery that dies is delivered again as the other element of `Deliveries`.

The model service may ask for the payment tool again, for the same amount: `Invocations` are those requests, one
after the other, `Attempts` the budgets of `run_tool` in each. The dedupe key holds the call and the amount, so all of them share it
(another amount is another key, and independent). The Stripe link is idempotent at Stripe and is one step.
`PayCancelled` is part of `GatewayFinishes`, since `run()` has cancelled the pump that awaits the tool.
`PayToldTruth` says when the caller is told the truth about the text, and names who explains it when not: a
repeated request is told "did not send" although its first was sent.

### 2.9 PostCall

A task is `queued` until a worker takes it and walks through its requests; a lost worker
puts it back from anywhere, also after its commit and before its acknowledgement. A task's
transaction is visible at its last step only. The CRM acts or does not, independently of
what the client hears (`EndsIf`). `redone` and `excuse` are history variables: which calls had a
task delivered or run again, and whether a search failed or raced.

### 2.10 LiveFeed and Budget

`EventHub.publish` awaits nothing, so `Publish` is one step for all viewers. The hook of a publisher is
insert, commit, publish. A viewer's record holds what it took (`seen`), which positions of that its filter
let through (`shown`) and how many events a full queue dropped (`lost`), next to its queue. In `Budget`
`guard` is the await `_watch_budget` is at and `wrappedUp` the guard's own flag. One second passes
at a time unless a timer is due, and the awaits of `_watch_budget` may last `MaxStall` seconds in all. Money is
counted in 1/60 of 0.0001 USD, in which the code's per-minute rates are whole numbers per
second, so the comparison of the two ceilings is exact.

### 2.11 The front desk

* `Registry`: lookups run on one event loop and do not interleave, but the editor of the YAML files is
  another process. A reload reads a file, then takes its time, file by file, and
  swaps the three maps at its end; an edit may fall between any two of these. A path is its position among
  the sorted file names, since `sorted(glob)` decides only which of two duplicate clients is named first.
* `DemoReplay`: one transaction per request; the delete, or the insert behind an empty one,
  waits for whoever holds the fixture's row, and fails on its unique SID if that one commits.
* `Recording`: the order to record, its callbacks in any order, what the playback proxy answers. The
  voice webhook stores every call with consent (`twiml.py:151`), so the refusal in `Stores` is never exercised.
* `Rules`: opening hours, dispatch, `next_open`, qualification, service area and slots over
  one week of slots. A window may be inverted, because the schema accepts it, and a client may have no
  emergency fee, which is the schema's default.
* `Reporting`: percentiles over a bag of rows, the gate, the dashboard's own median, tool statistics.
* `Transfer`: `redirect_call` under `UNSAFE_WRITE` and one tool budget.

They share no variable. `MCFrontDesk` picks one of them in the initial state and holds the
others still, so that their states add up and each is explored completely.

## 3. Runs

Passing runs:

| run | instance | shows |
|---|---|---|
| `AudioPath` | 2 items, 3 frames, queue of 2 | all interleavings of pumps, cuts and acks: a sound ledger, exact join counter, frame order, a barge-in silences the queue, one truncation per item, honest truncations while items do not blur, refinement of `LedgerSpec` |
| `CallEscalation` | 4 events, both thresholds 2 | a trigger is never missed, one transfer per call, streak exact, "booked" only with a booking and anything else with one only if the session raised, safety keywords are acted on (liveness) |
| `CallTeardown` | 2 turns, 2 frames, failing database, shutdown | no turn twice, none forgotten, drain before close, every call handed off (liveness) |
| `BookingRetries` | 2 dispatches of one key, 2 attempts each | "ok" means booked, extra bookings are unanswered POSTs, one writer per key, every dispatch answers (liveness) |
| `TurnLog` | 2 spoken items, 1 text item, 2 caller turns | no words in two rows, truncation final, marks on rows that were cut, text lost only with an insert that did not commit, and only at the end |
| `CallRecord` | 2 deliveries of the status, 2 requests of a payment link with 2 budgets each, 2 keys, 1 death | the SMS path implements `Outbox` also when a STOP falls between check and claim, the gateway's outcome stands, what the caller is told about the link is true or explained, every ended call has an outcome (liveness) |
| `PostCall` | 2 calls of one number, 1 retry, 1 lost worker | no engagement without its summary, duplicates at the CRM only where explained, a score is lost only to a redelivery, every task settles (liveness) |
| `LiveCall` | 2 publishers, 2 viewers, queue of 2, two budgets | viewers see what is stored, without gaps or disorder of their own; the feed holds nobody up (liveness); warned in time, ended at most a tick late, ended at all (liveness) |
| `FrontDesk` | see 3.1 | registry, showcase, recording, rules, report and transfer, one at a time |

Several properties are conjunctions of named parts, each with a comment of its own in its module:
`LedgerSound`, `AudioStateOK`, `CutQueueOrdered`, `CallStateExact`, `TurnsAccounted`, `LocksOK`,
`TurnRowsOK`, `RecordOK`, `CrmMirrorOK`, `FeedOK`, `FeedNeverStuck`, `BudgetOK`, `RegistryOK`,
`ReplayOK`, `RecordingOK`, `RulesOK`, `GateOK`, `TransferOK`.

Where the code has a hazard that no property may exclude, because the code does not prevent it, the model
contains it and the property says what holds nevertheless: `TruncationHonest` (items that blur), `NoTextLost`
and `TurnsAccounted` (an insert that does not commit), `CallAlwaysHandedOff` (the final UPDATE that raises),
`GatewayOutcomeStands` (a callback that had read before), `ImplementsOutbox` (a STOP behind the check),
`RecordOK` (a death behind the claim), `CrmMirrorOK` (tasks that ran again), `EveryTaskSettles` (a failed task is
settled), `RegistryOK` and `EditsTakeEffect` (an edit between read and stat), `ReplayOK` (a replay that published
and failed). The notes of `hazards` in `PROJECT.json` say so one by one.

Violation runs, each a disagreement between the code and what the repository
says of it (quoted in `PROJECT.json` under `findings`):

| run | counterexample in a sentence |
|---|---|
| `BookingTwice` | First attempt times out after its POST was sent, second attempt books again. |
| `PostLogTwice` | A sync that is delivered again, or retried after its log, posts the call's engagement a second time. |
| `MedianObserved` | Two turns of different latency: the dashboard's median lies between them and was never observed. |

The violation runs use the specification of the passing run of their module; they only ask a
stronger question. `ExtraBookingsWereUnanswered`, `ExtraLogsWereRedeliveries` and
`HeaderNotBelowGate` say what does hold beside them.

### 3.1 Bounds, and why they are enough

* `MaxFrames = 3`, `OutboundQueueMax = 2`: the queue overflows, also with a frame in the
  pump's hands; three marks give every order of acks around a lost one, and two items give
  a transition before and after a cut. With one chunk size, distinct frames differ by
  their mark; sizes only scale the sums, and the proofs hold for any size.
* `MaxEvents = 4` with thresholds of 2: a streak can be reached, broken and reached
  again, and a transfer can fail after it. The inbox orders events in all ways.
* `MaxTurns = 2`, `MaxQueue = 2`: one turn stored while another is partial; a queue that
  is not empty after one more write.
* Two dispatches, two attempts: four POSTs, a holder that is cancelled while
  another waits. A second key adds nothing, since keys share no state.
* `MaxPlayedMs = 1`, two spoken items, one text item: "heard nothing" and "heard
  something" are what the code tells apart (`barge_in.py:81`).
* `CallRecord`: two deliveries race with each other and with the gateway, and one is left when a
  process dies; two senders per key are the least that can duplicate a message, and two requests of two budgets
  each add the one that comes after a success. `MaxAskedIfFailed = 1` keeps the second request out of calls
  Twilio reports as failed, where the status callback sends its text as well: the two keys share only the
  STOP and the configuration, and the product of four payment senders and two callbacks would be too large. A completed call,
  with all four, is explored in full.
* `PostCall`: two calls of a number are the least that can race for its contact; one retry and one lost
  worker combine in either order. More than two contacts or engagements count as two.
* `LiveCall`: the queue of 2 overflows with two publishers and the task's own events; one viewer
  filters and one does not. The budgets (3 s, 0.12 USD) and (60 s, 0.038 USD) warn at 1 s and end at 3 s,
  one by its seconds and one by its cost; `MaxElapsed = 5` leaves room for a stall and a late tick.
* `FrontDesk`, registry: two files, clients, numbers and edits give duplicates, a file that
  goes away during a reload, and an edit before and after a swap.
* Showcase: three requests, so that one waits while another fails and a third begins.
* Rules: `SlotsPerDay = 4`, with and without a fee, windows closed, 0-2, 1-3 and the inverted 3-1, for each of the three fields of the
  week, from every slot of it; `HorizonDays = 14` is the code's own.
* Report: 21 rows, because one outlier in twenty passes a p95 and two in twenty-one do not;
  a row that is not a turn weighs seven (`OtherWeight`), which leaves up to three of those. Latencies
  and payloads sit on the thresholds and one above.
* Transfer: two invocations, so that a stray request of the first meets the second.

`CHECK_DEADLOCK FALSE` is set in every cfg because a call ends: the final states
have no successor.

### 3.2 Fairness

Safety properties do not depend on it. The liveness properties assume weak
fairness of single tasks, which is what asyncio gives: a task whose await has
completed is scheduled.

* `CallFlow`: `PumpStep`. Each await in a handler is bounded, a tool by its
  budgets (`registry.py:159-178`, the subject of `BookingRetries`).
* `BridgeLifecycle`: the call's own coroutine (`HandlerStep`), the outbound pump while
  the socket accepts writes, and the budget task, which looks at the stop flag once a
  tick. Nothing is assumed of Twilio, the caller, the model service, or `shutdown()`.
* `Booking`: each dispatch. `wait_for`'s timer fires, so `TimesOut` is enabled as long as
  an attempt is under way. Nothing is assumed of the provider.
* `CallRecord`: each delivery of the status callback is handled (`StatusStep`),
  because Twilio delivers it until it is answered. Nothing is assumed of
  the gateway, whose process may die.
* `PostCall`: each task a worker has taken goes on, and queued tasks are taken. Workers die at
  most `MaxLost` times: a liveness property of at-least-once delivery needs an end to deaths.
* `Budget`: time passes, the task that is awake runs, an insert ends (well or badly), and a stream
  whose browser is gone notices at its next heartbeat. No viewer is assumed to read.
* `Registry`: a lookup finds a stale cache again and again, and finishes the reload it starts.
  `Recording`: a callback that is on its way arrives.

## 4. Proofs

A component's theorems are in a module of their own that extends the component; the six parts
around a call share `FrontDeskProofs`, and `TurnLog`, `LiveFeed` and `Budget` share `LiveCallProofs`. They hold
for every value of the constants: any items, marks, dispatches, keys, senders, viewers, clients
and files, any chunk sizes, thresholds, ceilings and capacities, any number of frames, turns, events,
retries and deaths. They assume only the named assumptions next to the CONSTANTS, which TLC evaluates
on every run:

* thresholds, capacities, ceilings and the tick are positive, counters of events are natural numbers
  (`CallFlowAssumption`, `LifecycleAssumption`, `AudioAssumption`, `FeedAssumption`, `BudgetAssumption`,
  `PostAssumption`), as settings and schema require; a chunk is not empty (`LedgerAssumption`);
* `None` is not an id, and speech and text items have different ids (`LedgerAssumption`, `TurnLogAssumption`);
* mark names are numbered in the order they are made (`AudioAssumption`, `bridge.py:434`);
* a dispatch has one key (`BookingAssumption`); each attempt of each payment request and each delivery of a callback
  is a call of `send_sms` of its own, budgets are numbered from 1, and the two message keys of a call differ
  (`RecordAssumption`);
* files are ordered by name (`RegistryAssumption`);
* a day has at least one slot, an opening window names slots of a day, and `next_open` looks at least a week
  ahead (`RuleAssumption`; the code looks 14 days ahead, `hours.py:80`);
* latencies, cut-offs and discards are natural numbers of milliseconds, of finitely many values
  (`RepAssumption`; they are differences of a clock that does not go back, and unplayed audio).

A theorem in `FrontDeskProofs` is about one part's own specification. `MCFrontDesk` moves one part and
holds the others still, so every step it takes is one of that specification or a stutter.

### 4.1 Theorems

| theorem | of | inductive invariant and why it is needed |
|---|---|---|
| `LedgerCorrect` | `LedgerSpec => [](LedgerTypeOK /\ LedgerSound)` | `LedgerInv`, types and both parts of `LedgerSound` together: an ack leaves the remaining marks above the played count because it prunes, and the last mark survives the prune because of the watermarks |
| `LedgerNeverRewinds` | `PlayedNeverRewinds` | the types of `LedgerInv` |
| `AudioImplementsLedger` | `AudioSpec => ImplementsLedger` | `QueueInv`: the frame the pump ledgers is a real frame. Each step of the pumps is a step of `LedgerNext` or leaves the ledger alone |
| `CallLedgerCorrect` | `AudioSpec => []LedgerSound` | by the refinement from `LedgerCorrect` |
| `JoinCounterIsExact`, `CutQueueIsOrdered` | `JoinCounterExact`, `CutQueueOrdered` | `QueueInv` adds `CounterBounds`: neither the frame in the pump's hands nor the last cut is newer than `markSeq` |
| `NoSecondTruncation` | `TruncatedOnce` | `CutInv`: the item of a cut stays current until the flush, and a truncated item that was flushed is never announced again |
| `AudioTypeCorrect`, and with it `AudioStateCorrect` | `AudioTypeOK`, `AudioStateOK` | `TwilioInv`: acks come from marks on the wire, which come from the pump |
| `TruncationsAreHonest` | `TruncationHonest` | `HonestInv`, see 4.2 |
| `CallTypeCorrect` | `CallTypeOK` | `TypeInv` types the inbox and the handler, whose fields end up in the state |
| `CallEscalatesOnce` | `OneTransferPerCall` | `EscalationInv`: the flag first, then the announcement, then the transfer |
| `NoTriggerIsMissed` | `NoTriggerMissed` | with `EscalationInv`: the pump returns to reading through the check or escalated |
| `FailureStreakIsExact` | `FailureStreakExact` | `TypeInv`; `RecordToolStreak` shows that a result extends the trailing failures or ends them |
| `OutcomeBookedExactly` | `BookedExactly` | `OutcomeInv`: the flag agrees with the history, and the history is complete when the outcome is decided, unless the session raised |
| `CallStateCorrect` | `CallStateExact` | the three before it, which are its conjuncts |
| `TurnIsStoredOnce` | `TurnStoredOnce` | `TurnInv`: a turn is in one hand at a time (partial text, pump, closer), and in none once it has a row |
| `TurnsAreAccounted` | `TurnsAccounted` | `AccountInv`, with `TurnInv`: a turn that began is stored, lost with its insert or in a hand; both closers set the stop flag before they take the partial text, so none begins behind them |
| `SocketsCloseDrained` | `DrainBeforeClose` | `DrainInv`: the stop flag precedes every drain and ends the production of frames, so an empty queue stays empty |
| `OkIsBooked` | `OkMeansBooked` | `BookedInv`: "ok" comes from an accepted request or the cache, the cache from an accepted request, acceptance from an appointment |
| `OneWriter` | `LocksOK` | `LineInv`: the waiting line has everybody once, who posts is at its head, and nobody posts for a key whose result is cached |
| `ExtrasWereUnanswered` | `ExtraBookingsWereUnanswered` | `CountInv`, with `LockInv`: at most one POST of a key is waited for or was told "ok", and there are no more appointments than POSTs acted on; a count follows from the two by removing one element from a finite set |
| `TurnRowsAreSound`, `TruncationStays`, `TextIsKept` | `TurnRowsOK`, `TruncationIsFinal`, `NoTextLost` | `TurnInv`: a row, made or stored, has words no other row has (`RowsInv`, `HeldInv`) and names their item, or none; a marked row names an item that will not be current again (`CutInv`); words are in one hand at a time, and after a loss the agent has no row to come (`EndInv`), because the flush waits for the stop flag and the pump reads nothing behind it |
| `RecordCorrect` | `RecordOK` | `SmsInv`: every claim has one sender (`OneOwner`), and the place of that sender says what Twilio has (`SenderSound`); a sender without a claim has sent nothing (`SenderAside`) |
| `RecordImplementsOutbox` | `ImplementsOutbox` | `SmsInv`: a delivery is of a claimed key and the first, because the sender that claimed it is alone and its last attempt, if any, reached nobody. The check is `Consider`, the claim `Reserve` for a key that is still due, whether or not a STOP has come in between. Each step of a sender is one of `Outbox` or a stutter; those of the row and the gateway stutter |
| `GatewayOutcomeIsKept` | `GatewayOutcomeStands` | `GatewayInv`: once the gateway has written, a callback that is between its read and its write is one of `raced`, and one that reads finds an outcome |
| `PayIsTruthful` | `PayToldTruth` | `PayInv`: every sender of the tool is the one awaited now, was cut off with its invocation, is over without hearing of success, or its invocation was told "ok" (`Accounted`) |
| `CrmMirrorIsExplained` | `CrmMirrorOK` | `AnalysisInv`, `SyncInv`, `LogInv`: a call no task of which came twice has one sync, which has logged it at most once and will not log it again |
| `ScoresAreKept` | `ScoreLostOnlyByRerun` | the same: an analysis that is queued while nothing was lost finds no analysis |
| `LiveFeedIsHonest` | `FeedOK` | `FeedInv`: what a viewer took and has queued is, as long as nothing was dropped, the log from its subscription on (`ViewerInv`), and a publisher's event is stored before it is published (`HooksInv`) |
| `BudgetIsKept` | `BudgetOK` | `BudgetInv`: while the watch sleeps, what it looked at a tick and its stalls ago was in budget, and warned of if it had to be (`SleepInv`) |
| `RegistryCorrect` | `RegistryOK` | `RegInv`: the cache under construction and the installed one are both `CacheOK`, that is, true to every file its time and the races do not give away; the counts of times and configurations agree, so no client is in two files |
| `ReplayCorrect` | `ReplayOK` | `DemoInv`: one transaction has the row; who published last is committed, about to be, or failed |
| `RecordingCorrect` | `[](OneRecordingPerCall /\ StoredIsPlayable)`, the safety part of `RecordingOK` | `RecInv`: what Twilio has of a recording does not change after it reported |
| `TransferCorrect` | `TransferOK` | `TransferInv`: redirects, strays and the request on its way together are no more than the invocations that have posted |

| `RulesCorrect` | `RulesOK` | `AreaInv`: the area is that of the postcode stated last. The rest holds in every typed state and is proved from lemmas, see 4.3 |
| `GateCorrect` | `GateOK` | `StreakInv`: the streak is no more than the rows that are failures or `not_found`. The rest is proved from lemmas, see 4.3 |

### 4.2 Honest truncations

`TruncationHonest` says that `audio_end_ms` is never more than what the caller has heard of the item.
What the caller has heard is a sum over the frames Twilio has played, and what an ack will credit
depends on the frames in front of its mark in Twilio's buffer. The invariant speaks of that without a recursive
sum: `CoverInv` says that there *is* a function `sum` on the positions of the buffer that starts at what was
heard and grows by each audible frame (`Hears`), and that the ledger's counts, and all the
counts an ack on its way can bring about, are covered by it (`Covered`). A step extends that
function at its end (a frame or a mark is written: `HearsMore`), shifts it by one (Twilio plays: `PlayCovered`)
or starts a new one (`ItemCovered`), so no induction over the sequence is needed. `MarkInv` keeps
the mark the pump is about to write apart from those already written; `SoloInv` says that, while items do not
blur, the queue and the pump hold frames of the last item only.

### 4.3 Days, slots and samples

`RulesOK` and `GateOK` are about functions, not steps. The library's induction theorems take an operator
as a parameter, but its theorem that the strict subsets of a finite set are well founded does not: from it
follows `FiniteInduction`, with a set of good sets in the place of the predicate, and from that the least and
greatest element of a finite set of integers.

* `next_open`: a time is a day and a slot of it (`SplitTime`, `JoinTime`), and the hours repeat every
  week (`HoursWeekly`). Whenever it is open within a week, a day of that week settles the search
  (`OpenIsYielded`); the first such day opens then, within a week, and before any other opening
  (`FirstDayOpens`). The hypothesis `Proper`, that windows open before they close, is part of the property.
* `check_availability`: `OffersInOrder` holds for any response without repeated slots that some permutation
  sorts. `RulesOK` applies it to the shapes of response its run has.
* Percentiles: the sum over a bag is the number of its units (`SumIsUnits`), since the count of units
  solves the recursion of the sum and that has one solution on the finite sets; so sums over disjoint sets
  add up (`SumFacts`). The i-th sample in order is above a threshold exactly if fewer than i samples are
  not (`OrderedFacts`), which turns the rank of a percentile into a share of the samples (`BreachIsShare`), of
  turns or of the payloads that have a number at a key (`KeyIsShare`).

### 4.4 What stays with TLC

* Liveness: `SafetyAlwaysEscalates`, `CallAlwaysHandedOff`, `EveryDispatchAnswers`, `EndedCallHasOutcome`,
  `EveryTaskSettles`, `FeedNeverStuck`, `ExpiredCallEnds`, `EditsTakeEffect`, and `CompletedIsStored` in
  `RecordingOK`. The prover has no `ENABLED`, and so no fairness.
* The three violation runs, whose counterexamples are TLC's.

## 5. Other disagreements met while modelling

Not given a run of their own. For the first six, the module defines the property the quoted text
asks for, and TLC refutes it when it is added to the cfg of that module's run.

* `TruncationAlwaysHonest` (`AudioPath`): an item begins while a frame of the previous one is still in
  the local queue; that frame is later counted as the new item's, so `audio_end_ms` exceeds what was
  heard of it (`bridge.py:348`, against `bridge.py:422-424`).
* `EveryCutSilences` (`AudioPath`): the cut for a safety keyword clears Twilio but not the local queue,
  so old audio follows the `clear` (`bridge.py:570`, against `bridge.py:475-476`).
* `SafetyPreemptsBooking` (`CallFlow`): a safety utterance that arrives during a booking waits until the
  booking is over (against `escalation.py:4-5`).
* `FrustrationIsConsecutive` (`CallFlow`): negative, garbled, negative escalates with a threshold of two
  consecutive negatives (against `bridge.py:78-80`).
* `TranscriptComplete` (`BridgeLifecycle`): a hang-up during the insert of a turn loses it, because the
  partial text was cleared before (`bridge.py:362`, against `bridge.py:248-249`). An insert of the flush
  that fails loses the last turn too, and is only logged (`bridge.py:252-260`). `NoTextLost` says that
  these are the only ways, and that nothing of the agent's follows.
* `CutTurnIsMarked` (`TurnLog`): an item is cut before its transcript is done; its row comes later,
  without the item's id, and is never marked (against `PRD.md:500`).
* `shutdown()` closes the sockets and returns while `run()` may not have been scheduled
  yet, so the process may exit before the gateway's finally block
  (`bridge.py:227-231`, `gateway.py:157-180`).
* A cut in silence truncates the last item although it was heard to the end
  (`barge_in.py:78-81`): the current item outlives its playback.
* The tool may answer "unavailable" although the provider booked
  (`registry.py:163` against `booking.py:46-48`): see `BookingTwice`.
* Rows of the caller take the current item's id and are marked truncated with the
  agent's (`bridge.py:542`, `repository.py:122-129`). `MarkedAgentTurnWasCut` is
  therefore stated for the agent's rows.
* With overlapping responses, the transcript of one item clears the partial text of the
  other (`bridge.py:356-363`). `NoTextLost` excludes that.
* The classifier's text answer is a message item and becomes the ledger's current item
  (`bridge.py:347-350` before `369-373`): one way to reach `blurred`.

* `send_payment_link`: nothing queues the link for later although `payment.py:9-11` speaks of it. A second
  attempt, or a second request of the same amount in the same call, that is deduplicated reports "did not
  send" although the first sent it (`payment.py:128, 140-142`); `PayToldTruth` names the cases.
* A STOP that commits between the suppression check and the claim does not stop the message
  (`sms.py:59-64`, against `sms.py:3-5`): the two are statements of one transaction at READ COMMITTED.
* A status callback that read "no outcome" before the gateway's final UPDATE overwrites it afterwards
  (`status_webhook.py:50-53`): a booked call may end up as "failed".
* A booking made in a session that raises, or whose task is cancelled, is written down as "failed"
  (`gateway.py:133, 165-169`), and one whose tool row could not be stored as whatever else the state says.
* `send_sms` "never raises" (`sms.py:41`), but `mark_sms_delivered` may (`MarkDelivered`).
* `budget_guard.py:80` wants the mark set once the wrap-up is delivered; the bridge sets it before the
  send. A failed send ends the call, so no harm is done (`MarkedCallWasTold`).
* `workers/recording.py` calls itself the only writer of `recording_url`; the webhook writes it too, and
  nothing enqueues `store_recording`.
* `tasks.py:47`: the sync is queued outside the `try`, so a broker that refuses leaves a call analysed and
  never mirrored, against the docstring of lines 7-9.
* "CRM sync dedupes on E.164" (`celery_app.py:9`): two syncs that search at the same time, or a search
  that is refused, make a second contact (`SecondContactExplained`).
* `next_open` names an opening that is none for a window such as 22:00-06:00, which the schema
  accepts (`hours.py:80-81`); `NextOpenIsFirst` is stated for windows that open before they close.
* A file edited between its read and its stat stays stale in the cache (`loader.py:57`), and a number
  changed under an override is routed to the old one (`loader.py:77`).
* "A bad client YAML must break the boot, not the first call" (`main.py:33`): one that breaks after the boot
  breaks every later lookup, that of an inbound call and of a STOP included.
* A replay clears the override and publishes before its transaction commits (`replay.py:319`), so viewers may
  be shown a replay that then fails.
* `ToolOutcome.ok` counts `not_found` as a failure (`state.py:22-23`), the report does not (`metrics.py:118-125`).
* A transfer that times out is told as not connected, though Twilio may still redirect; a second
  invocation may redirect again (`transfer.py:9-14`).
* `qualify`, `next_open` and `applies_emergency_fee` are called by no runtime code, and `calls.cost_cents` is
  not set by the gateway.

## 6. Not modelled

* The knowledge base, which is one vector query.
* Wiring and declarations: settings, auth, logging, redaction, ORM models, the application's start.
* The evaluation harness and the web app, which are not part of the running system.
* `workers/recording.py`, `reserve_slot` and `find_booking_by_key`: nothing calls them.
* The realtime client's connection and session set-up; its events are `CallFlow`'s and `AudioPath`'s inputs.
* Changes of the clock (daylight saving), wording of messages, TwiML and slots, lengths of back-off.
* The dashboard's listings and counts, which are plain queries; statistics and the latency
  clock of the bridge.

## 7. Plan

All modules of the inventory are written and checked, and every safety property of a passing run has its
theorem. What is left, in the order of what it protects:

1. The safety side of the liveness properties: that the attempts of a dispatch, the retries of a task and the
   files of a reload run out, as theorems about a measure that no step of the component raises.
2. `OffersAreEarliest` for every finite response: that a permutation which sorts it exists, by induction on
   the number of slots.
3. The composition: that `MCFrontDesk`'s steps are steps or stutters of each part, stated for a front desk
   that is a module of its own.
