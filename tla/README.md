# Verification of the Origin review platform

Origin is a FastAPI/Celery application with a React client: people talk in
rooms, and several LLM panelists review a topic in rounds and hand in a report.
This directory holds TLA+ models of the parts of server and client whose
correctness depends on the order in which things happen, the TLC
configurations that check them, and theorems about them that TLAPS checks.

Paths below are relative to the repository. `PROJECT.json` maps every
definition to the lines it models.

## 1. The system

| Component | State it keeps | Operations | Hard behaviour |
|---|---|---|---|
| **Review workflow** `app/tasks/review_tasks.py`, `app/services/review_service.py`, `app/api/routes/reviews.py` | `reviews` row (status, current_round, final_report), `messages` and `review_events`; everything else travels in the Celery tasks' arguments | start, four rounds, report, scripted replacement, read, deletion of the room | hand-over by one publication, retries of whole rounds, early acknowledgement, failing failure handlers, budget, deletion under a running round |
| **Realtime delivery** `app/core/realtime.py`, `app/services/realtime_service.py`, `redis_pubsub.py`, `api/routes/websockets.py` | lists of sockets and SSE queues per channel | connect, disconnect, register, broadcast | broadcasts and connects interleave at each `await`; slow and dead consumers; bounded queues |
| **LLM retry policy** `app/services/retry_policy.py` | per provider: state, failure count, last failure time | execute_with_retry (two variants), status read | callers share the breaker across awaits, late answers, cancellation |
| LLM service `llm_service.py`, `llm_adapters.py` | cached provider clients | invoke, stream | errors of several SDKs mapped to retryable or not |
| Conversation streaming `api/routes/conversations.py`, `conversation_*.py`, `token_usage_tracker.py` | message status (draft, complete), cancel keys, token counters | create, stream, cancel, edit | two streams of a draft, cancellation racing the end, check-then-act budget |
| User facts `user_fact_service.py`, `message_pipeline.py` | facts (latest, pending_review), cached answers | save, resolve, query | duplicate and conflict rules in separate transactions, extraction twice, stale cache |
| Background tasks `background_task_service.py` | running tasks and results by id | create, wait, cancel, clean up | callbacks of an older task with the same id, cancelled tasks that stay "running" |
| Memory `memory_service.py`, `tasks/memory_tasks.py` | memories, messages, room counters | promote, archive | archive in three transactions |
| Database `database_service.py` | connection pool | query, transaction | lazy creation and use from several threads |
| **Client: app shell and event streams** `frontend/src/App.jsx`, `hooks/useEventSource.js`, `useRealtimeChannel.js`, `GlobalSearchModal.jsx`, `useKeyboardShortcuts.js` | one EventSource, retry timer, status; search text and answers; keyboard focus | render, connect, retry, reconnect, search, paste | effects run after renders, every render reconnects; late answers; reads of the clipboard |
| **Client: messages of a room** `MessageList.jsx`, `ChatInput.jsx`, `api/routes/messages.py` | one cached list per room, optimistic entries, the input's flags | fetch, event, ask, stream, upload, turn to another room | four writers of one list, callbacks of a component that shows another room by now |
| **Client: creating rooms** `Sidebar.jsx`, `ChatInput.jsx`, `useConversationStore.js`, `review_service.py` | one request, one dialogue, prompts in the lists | ask, answer, cancel, create, question back | one store for all rooms, answers in any order |
| **Client: list of rooms** `Main.jsx`, `Sidebar.jsx`, `useRoomsQuery.js`, `api/routes/rooms.py` | the list in Redis and in the client, the page | list, create, rename, delete, redirect | two caches of one table, reads that overlap with changes |
| **Client: review page** `pages/Review.jsx`, `ReviewChatThread.jsx` | selection, status, live messages, three cached queries | select, switch, refetch, listen | answers and events of different reviews and ages |
| Exports, attachments, search, retrieval, administration, metrics, other pages | – | – | single queries, file or network I/O, text, components no page mounts |

Interactions: the web process starts the review by sending the first Celery
task; tasks send each other; both write PostgreSQL and publish events to
Redis; the web process' Redis listener passes events on to the
`ConnectionManager`, whose clients are WebSockets and SSE generators; every
model call of web and worker goes through a `LLMRetryManager`. The client keeps
what it fetches in a query cache (TanStack Query) and what belongs to no page in
a store; each page has one event stream, which brings what is published while
it is open and nothing else.

What makes each component correct:

- *review workflow*: one task at a time works on a review; later rounds build
  only on what was said, by whom it was said, and what readers can see; the
  budget stops the chain; readers never see a review go back; "completed"
  comes with a report; the chain ends.
- *realtime delivery*: a registered client gets every message, in order, or is
  dropped; nobody waits for ever.
- *retry policy*: the failure count decides the breaker, only a success closes
  it, calls end.
- *conversation streaming*: an answer is one stream's, to no older question than its own;
  what a client is told, what is stored and what is counted agree; streams end.
- *app shell and event streams*: one connection, for the url on the page; a status that is
  true; no page left without events for good; search results of the text shown; text pasted
  where the user wants it.
- *messages of a room*: a list lacks only what can be named; stand-ins for an answer go; the
  input is freed.
- *creating rooms*: the dialogue about a review ends; no prompt without a request.
- *list of rooms*: both lists agree with the table but for known reasons; nobody is turned out
  of a room there is.
- *review page*: header, input, timeline and thread are of one review and agree.
- *planned components*: one latest fact of a single-valued type; results of the task that was asked for;
  no message lost or summed up twice by the archive; exclusive connections.

## 2. The modules

| Module | What it is |
|---|---|
| `ReviewWorkflow` | the detailed model of one review |
| `ReviewLifecycle` | what a review promises its readers; `ReviewWorkflow` implements it |
| `MCReviewWorkflow` | the panels TLC asks for |
| `RetryPolicy` | retry loop and circuit breaker of one provider |
| `ConnectionManager` | sockets, SSE clients and overlapping broadcasts of one channel |
| `MessageStream` | questions, drafts and streamed answers of one conversation thread |
| `EventStream` | the event stream of a page: hook, React, browser |
| `AppShell`, `MCAppShell` | search, shortcuts, error boundary around a page with an event stream; extends and implements `EventStream`; the texts TLC types |
| `RoomMessages`, `MCRoomMessages` | the cached message lists of rooms, `MessageList` and `ChatInput`, with the server's processes that publish; who works on which message |
| `RoomCreation` | requests, prompts and dialogues that create rooms, with the server's side of the dialogue |
| `RoomList` | the list of rooms in Redis and in the client |
| `ReviewPage`, `MCReviewPage` | the page of a review room; what the panels say, and how its events are dated |
| `...Proofs` (of `ReviewWorkflow`, `RetryPolicy`, `ConnectionManager`, `MessageStream`, `RoomMessages`, `ReviewPage`; of `EventStream` and `AppShell` in one, of `RoomList` and `RoomCreation` in `RoomsProofs`) | theorems and proofs |

Definitions named `...Uncounted`, `...Swallows`, `...Forgets` and the like, each
below a comment `Slip:`, are no part of the models. Each is a plausible mistake
in the code modelled by the definition that follows it; replacing that
definition by it breaks a checked property, which shows that the property
depends on the code and not on the form of the model.

### ReviewWorkflow

| Variable | In the code |
|---|---|
| `row` | the `reviews` row: `status`, `current_round`, who wrote `final_report`; status "gone" once it is deleted |
| `said` | the panelists' messages in the review room, as (persona, round) |
| `latest` | the last status event, up to what it tells (starting, working, completed) |
| `posted` | summaries in the review room (`observer`) and in its parent (`handoff`) |
| `spent`, `billed` | answers providers charged for; answers added to the organisation's daily usage |
| `starter`, `line` | where `start_review_process` or the scripted review stands |
| `chain` | the Celery tasks, queued or running, with their arguments |
| `struck` | history: which causes of failure have occurred |

One step is one access to the outside world. A round is `Open` (the first one
only: status, organisation budget, panel), `Ask` (the model calls, with
OpenAI standing in for a provider that failed), `Save` (one message per
answer), `Close` (review budget, row), `Announce` (metrics, event),
`Dispatch` (the next task). The report task is `Write`, `File`, `Share`,
`Bill`. `Fail` is the handler of all of them: its `update_review` passes a
dictionary psycopg2 cannot adapt, raises, and leaves the row as it was; so the
`Ignore` after it is never reached and Celery retries the task with its
original arguments. `all_metrics` is one list object, so what a failed attempt
appended is sent again (`Again`).

The scripted review (`_run_mock_review`) is `MockBegin` to `MockComplete`.
`SyncOnRead` is the write in `GET /reviews/{id}`, `DeleteRoom` the cascade of
`DELETE /rooms/{id}`.

Data is abstracted thus: an answer "speaks", "declines" (`no_new_arguments`) or
is an error; its text is left out, and an answer that does not validate is
replaced by a canned one, which never declines. An answer counts as one token.
Message identity is (persona, round): the duplicates a retried round leaves in
the room are not told apart (no property speaks of them; see hazards). The
scripted review's own messages are not in `said`.

Failures are "mishaps", and `Mishaps` names the kinds a run lets happen: failing
queries of worker or web process (before or after the commit), publications that
fail or arrive unconfirmed, dying workers and web processes, an unknown task, the
organisation's budget, the report's editor, the deletion of the room. A panel nobody
of which answers and an exhausted review budget need no permission.

Workers acknowledge a message when they take it (Celery's default, unchanged in
`app/celery_app.py`), so `Crash` removes the task for good: nothing in the
code looks for reviews that stopped. Celery, kombu and the broker are modelled from how the code uses them and are
marked external in the map.

### ReviewLifecycle

Status, rounds, turns and report as readers see them: no turn of a round
before somebody spoke in the round before; rounds and status only forward; one
report, from a debate of two rounds at least or from the script, never both;
then nothing but deletion. `KeepsPromise` states that `ReviewWorkflow` implements it, with
`row` split into its fields. It is checked for runs in which every publication is
confirmed and the web process reaches the database. It does not hold otherwise:
the scripted review may run beside the chain, and it sets "completed" although
`save_final_report` failed (`review_service.py:844-869`).

### RetryPolicy

`state` and `failure_count` are the breaker's; `quiet` is the age of
`last_failure_time` in ticks, up to the recovery time. `pc`, `attempt` and
`permit` say where each caller's `execute_with_retry` stands. A step goes from one await to the next.
A refusal by the open breaker is an `LLMError` raised inside the `try`, so
`Refuse` records a failure; `ReadStatus` half-opens, for `get_status` calls
`can_execute`.

### ConnectionManager

Everything runs in one event loop; a step is what happens between two
awaits. `Connect` takes the channel's list, `Accept` appends to the list it took:
`current` is the set of accepting sockets whose list is still the channel's.
`Broadcast` copies the list, `Deliver` and `Miss` are its sends (with
`_send_with_retry`'s attempts left in `tries`), `Finish` drops the sockets that failed
and offers the message to the SSE queues. A full queue is unregistered while its
generator goes on (`Take`). `sent` lists messages in the order in which broadcasts end, which is
the order queues see; sockets may see overlapping broadcasts in any order.

### MessageStream

| Variable | In the code |
|---|---|
| `request` | where each `POST /threads/{id}/messages` or `PATCH /messages/{id}` stands |
| `asked`, `edited` | user messages of the thread in order; those that are edits |
| `answer` | assistant messages: status, the stream that wrote it, deltas, `total_tokens` of its meta |
| `gone` | the thread was deleted |
| `cancel` | the `cancel:stream:` keys in Redis |
| `used`, `lost` | the `usage:` counter in Redis; history: tokens of stored answers nobody will count |
| `stream` | the `event_generator`s: place, message, `user_query`, content, tokens, last word to the client |

Gunicorn runs four workers, so requests interleave at every access to a
store: one step is one access. `CheckBudget` runs before `Ask` (the question) and `MakeDraft` (its
draft). It admits "checked", with the counter below the budget, or "waved": `get_usage` says 0 while Redis fails or is
not there, so a counter that cannot be asked stops nobody. `used` is the counter of one day; the next day's is another key. A stream is `Open` (message and user), `Recall` (the history, whose newest question is
the one put to the model), `Delta`s, and one of `Done`, `Error` and `Heed`/`Clear` (the cancel key is
met, then removed); `Write`, `Count` and `Tell` are the generator's `finally`. Clients open
streams at will: `useEventSource.js` reconnects after an error, and the route does not look at
the message's status.

Left out: the cached `stream_user:` key, which repeats the user of the draft;
renaming and listing; what the prompt is made of. Users are authenticated. Texts are counted in deltas, and a delta
costs one token. Edited questions are in the thread like any other, but their drafts
are stored with user "anonymous", for which the stream route answers 401, so `Open` excludes them.

### EventStream and AppShell

React renders a component when its state or props have changed and runs the
effects of that render later; both are steps of their own (`Render`,
`CleansUp`, `Connects`), with events of the browser between them.

| Variable | In the code |
|---|---|
| `mounted`, `want`, `url`, `due`, `effects` | React: is the component there, the url it gets next, the one of the last render, is a render or are effects outstanding |
| `shown`, `pend` | `status` and `lastError` as rendered, and with the updates since |
| `conn`, `ref`, `timer`, `attempts` | EventSources, `eventSourceRef`, `reconnectTimeoutRef`, `reconnectAttemptsRef` |
| `open`, `text`, `armed`, `asked`, `known` | `isSearchOpen`, `query`, the debounce timer, requests under way and answers kept by key |
| `focus`, `reading`, `loose`, `broken` | the keyboard, a read of the clipboard, fields with text their component does not know of, `hasError` |

`useEventSource`'s default `options` are a new object in every render and a
dependency of `connect`: each render of the component, for whatever reason,
closes the connection and opens another (`Render`). So the back-off and the
limit of attempts hardly ever take effect, and `Recovers` holds even after an
error event and after the last attempt, because the render that shows "failed" connects again. That
is not what the hook's comments and the banner say, so it is a finding as well (see section 3).

The banner is `ConnectionStatusBanner`, of the message list. The review page has a notice of its
own, which also stands while `sseError` is set (`Review.jsx:373`). That text is state of the page and not of the hook:
it outlives the status it came with until an effect of the page sees one of three statuses. `EventStream` is the
hook, which other pages use as well; the notice is not modelled, and nothing is claimed about it.

`AppShell` extends `EventStream`: a step of the shell that renders the page
(`Disturbs`) only says that a render is due; `PageGoesOn` is a step of the page alone.
`ShellImplementsStream` proves that the shell implements `EventStream`. The
shortcut's paste writes to the input behind React's back, so the text is shown
and not held, until the component renders (`loose`, `Loses`). What the address of
a search carries of its text ends at an `&` or `#` (`Carried`): the query is not encoded.

### RoomMessages

A list is a set of entries: temporary ones of the client (`Temp`), the answer's entry with the
message's id (`Final`), and messages of the server (`Listed`). `Fill` (a fetch), `HandleNewMessage` (the
event stream), `Starts`/`Delta`/`Done` (`ChatInput`) write it. `setQueryData` makes a list count as fresh, and
so forgets a refetch that was due (`Forgets`). A `ChatInput` that stays while another room is shown
goes on with that room: its mutation's callbacks, too (`stream[k].target`).

The server has several processes (`Worker`; `start-prod.sh` starts four), and each has its own
`ConnectionManager`: only channels of reviews are bridged by Redis (`redis_pubsub.py:135`). `On` is the process
that works on a message, `channel.on` the one the event stream is connected to. Saving and publishing are
two steps: `Save` makes a message stored and `unsaid`; `Publish` tells the stream if it is connected
to the same process and its queue has room; a full queue is dropped while its generator goes
on with heartbeats, so `channel.room` stays and `channel.on` becomes `NoWorker`. `Withhold` is
a process that ends in between. `lost` and `astray` are histories: messages the client was not told of, or
that a fetch from before them has overwritten, and rooms whose refetch went to another room.

### RoomCreation

`request` and `review` are the store's `roomCreationRequest` and `reviewRoomCreation`, `prompts` the prompts in
the lists, `posts` the submissions, each with the dialogue it carries and what its `ChatInput` last
saw of the store. `Wants` is the server's side: it counts the prompts in the dialogue and asks, offers or
creates (`create_interactive_review`). Texts are told apart by who says them.

### RoomList

`exist` and `gone` are the table, `kept` is `rooms:{user}` in Redis, `list` and `get` the client's query, `late` GETs it has
given up that the server still serves. `change` follows each creation, renaming and deletion
through query, removal of the kept list and answer. `Lands` is the effect of `Main` that redirects.

### ReviewPage

`row`, `told`, `said` are the server's; `sel`, `live`, `status`, `noted` the page's state; each of the three queries has the
answer kept and the request under way, with the instance that asked for it (`mine`): `queryFn` sets
`reviewStatus` only in that one. `hears` is the stream of `EventStream`, reduced to whether it is
there; on connecting, the server repeats status events (`Listens`). `passed` and `excused` are
histories: messages the page cannot know of before it fetches again, and reasons why it need not
know of a completion. A message is its review and its place in `Script`, which gives its round.

What a query answers of a review is "other", "completed", or "undated": the scripted review whose
`save_final_report` failed is marked completed without `completed_at` (`review_service.py:844-869`), and an answer
without it notes nothing (`Review.jsx:398`). `noted` says where the timeline's completions come from: from the date in
an answer, or from an event. The timeline shows the last five of its sorted entries (`:289`). The
script's events carry times in the future, so `Late[r]` counts the events dated no earlier than
the completion's date; with `Last` of them or more that completion is cut (`Timeline`). A completion by an event is dated after
the chain's other events, and the script's last event after its others, so it is not. This takes the chain of a review to be one
chain: one that forked (`ReviewStray`) could log status events after the completion. All dates are taken to be of one clock.

The page has a section for the report and an export of its tasks, and both read `final_report`, which the
answer of `GET /reviews/{id}` never has (`ReviewMeta`, `schemas.py:51-66`; `reviews.py:208-213`): they are never
shown, so no definition stands for them.

## 3. The runs

Every run terminates having explored all its states.

| Run | Instance | Shows |
|---|---|---|
| `ReviewStore` | 2 personas, 1 retry, 2 slots, failing worker queries | `PanelHasSpoken`, `HistoryWasSaid`, `SummaryOnce`, `AnnouncedHasReport` |
| `ReviewPanel` | any panel of 2 personas, also the empty one; a budget of 8; failing publications, crashes, organisation budget, editor, deletion | `BudgetGate`, `KeepsPromise`, `ChainEnds`, `GoesThrough` |
| `ReviewStray` | 1 persona, one unconfirmed publication, web process without task, database, or dying | `OneLiveTask`, `ReportHasBasis`, `ChargedWasSpent` |
| `RetryPolicy` | 2 callers, threshold 3, recovery 2, 2 retries | `CountDecidesState`, `OnlySuccessCloses`, `CallsEnd` |
| `Channel` | 2 sockets, limit 1, 1 SSE client with a queue of 1, 2 broadcasts in progress, 2 attempts | `SocketsMissNothing`, `ListenersMissNothing`, `BroadcastEnds` |
| `Conversation` | 2 questions, one of a model without usage; 2 streams of 1 delta at most; budget of 1 token | `NeverStale`, `OneStreamsAnswer`, `DoneIsKept`, `UsageFollows`, `AdmittedWithinBudget`, `Settled`, `StreamsEnd` |
| `AppShell` | 1 url or none, 2 connections, 1 attempt; 3 texts, one empty, one cut at its `&` | `OneChannel`, `StatusTells`, `Recovers`, `SearchAccounted`, `PasteNeedsMove` |
| `RoomMessages` | 2 rooms, one of them a sub room; 2 processes; 1 question, 1 message of another client; 2 page changes | `MessagesAccounted`, `LeftoversGo`, `InputFrees` |
| `RoomCreation` | main room, 2 sub rooms, another page; 2 clicks, 3 submissions, 2 clarifying attempts | `ScopingEnds`, `PromptsAccounted` |
| `RoomList` | main, sub and review room; 1 late GET | `ListAccounted`, `StaysInRoom` |
| `ReviewPage` | 2 reviews, of which one speaks twice and is scripted, the other has more late events than are shown; 1 visit or return | `HeaderAccounted`, `InputAccounted`, `TimelineAgrees`, `ThreadAccounted` |

`ReviewFailed` checks what a schema and a test say of the code and finds that it does otherwise: a review
may read "failed" (`app/models/schemas.py:60`), and no handler manages to write it.

The type invariants `TypeOK` and `ShellTypeOK` and `ListedIsOpen` are in no configuration; they hold in these
instances when added to one, and `TypeOK` of every module with proofs and `ListedIsOpen` are
proved.

### A disagreement a passing run shows

`useEventSource.js` means to give up: ":109 Don't reconnect on application-level errors", ":130 Max reconnection
attempts reached.", and the banner asks for the page to be loaded again (`ConnectionStatusBanner.jsx:27`). The code
does otherwise, for the reason given under EventStream. `Recovers` states what it does, `AppShell` checks it and
`NeverLeftAlone` proves it; `PROJECT.json` lists it among the findings. Whoever makes the options stable, so that
the hook gives up as it says, will find `Recovers` violated and has to weaken it.

### Known disagreements without a run

The modules state four more promises of the repository that the code does not keep. Added as an
`INVARIANT` or (`BlocksTemporarily`) `PROPERTY` to the configuration of their component,
`ReviewPanel` for the first, they are violated:

| Definition | Says | Does |
|---|---|---|
| `ReviewWorkflow!OpenAIStandsIn` | OpenAI takes over for a provider that fails (`README.md:11`) | only if OpenAI sits on the panel itself |
| `RetryPolicy!OneTrialCall` | one trial in HALF_OPEN (`retry_policy.py:63`) | all callers pass |
| `RetryPolicy!BlocksTemporarily` | the breaker blocks temporarily (`retry_policy.py:29`) | refusals restart its recovery time |
| `ConnectionManager!ReachesAll` | an event goes to all listeners (`realtime_service.py:31`) | a socket accepted while the last other one leaves is on no list |

### Properties with conditions

`OneLiveTask`, `SummaryOnce` and the
second half of `ChargedWasSpent` hold while every publication's outcome is known to
its sender (`Confirmed`): a message that arrives though its sender believes it lost
forks the chain, and `ReviewStray` then checks what is left. `AnnouncedHasReport`
leaves the scripted review out, and `SocketsMissNothing` needs
`REALTIME_DISCONNECT_ON_SLOW_CONSUMER` (the default). `AdmittedWithinBudget` excepts who was let in while Redis
could not be asked, and what overlapping streams have yet to count.

The client's properties name what goes wrong rather than deny it. Their exceptions are behaviours of the code
the models contain:

- `MessagesAccounted`: what is published while the stream is away, or by another process than the one it is
  connected to, or into a full queue, is not sent again; a process may end before it publishes what it saved; a fetch
  that was answered earlier replaces newer messages. With four processes the second is the rule: the client that
  asks sees its own answer, and other clients of the room see it when they fetch.
- `LeftoversGo`: the refetch after an answer goes to the room the `ChatInput` shows by then
  (`ChatInput.jsx:320`), or is forgotten by the next write.
- `ScopingEnds`: while an answer is out, a cancelled or repeated submission leads to dialogues
  longer than the limit (`overlapped`).
- `PromptsAccounted`: a second request takes the first one's place and leaves its prompt.
- `ListAccounted`, `StaysInRoom`: creating a review does not remove `rooms:{user}`; a read from before a
  change is kept after it; the process dies between query and removal. For up to five minutes
  the room is not in the list, and a list without it turns its user out.
- `HeaderAccounted`, `InputAccounted`: `reviewStatus` is set by `queryFn` of the instance that started
  the fetch, by live events and by nothing else; a completion told while the stream was away unlocks
  the input only with the next fetch.
- `TimelineAgrees`: the header's completion is not in the timeline if the page knows of it by a query only and the
  answer has no date, or as many events are dated later as the timeline shows.
- `ThreadAccounted`: messages without a round are in no section, of several summaries the first is
  shown; what was said unheard shows after the next fetch.

### Bounds, and why they are enough

- *Personas*: two give a panelist that fails and one that stands in, a panel that
  shrinks, and declines that disagree. One is enough where chains fork
  (`ReviewStray`).
- *`MaxRetries`* is 3 in the code; 1 or 2 shows an attempt that is retried, one that is
  not, and (2) a retry of a retry. The theorems hold for any number.
- *`Slot`*: one place for the chain and one for a duplicate; at most one
  publication of a behaviour goes unconfirmed (`Unconfirmed`).
- *`TokenBudget`* of `ReviewPanel` is met exactly, exceeded in a later round, and respected.
  With 0 the budget is off, which is the default.
- *Breaker*: `CountCap` lets the count pass its threshold; two callers are what a
  race takes.
- *Channel*: `MessageCap` 2 with two places lets two broadcasts overlap; a limit of one
  connection, reached by overlapping connects, also shows it exceeded.
- *Conversation*: two streams are what overlaps, of one message or of two; answers of
  no or one delta tell a cancelled answer from a whole one; a budget of one token is used up by
  one answer. Cancel keys are set for messages that are there.

- *Processes*: one that works on the messages and one that does not is what tells a stream that is told
  from one that is not; the theorems cover any number, and messages of different ones.
- *Timeline*: of five shown, the script's other four late events leave room for a completion and six do not; `Last` is
  the code's.
- *Client*: one url suffices for `AppShell`, as `want` is also none and a page is removed and
  mounted anew; the theorems cover any urls. Two rooms, sub rooms or reviews are what a callback can
  confuse. `MaxVisits`, `MaxClicks`, `MaxPosts` and `MaxLate` bound what a user does in a
  behaviour; three submissions are what it takes to exceed two clarifying
  attempts. Two texts long enough are what late answers can confuse.

Deadlock is checked in all runs. Where the system may stop, an action `Rest`
says when: the work is over, or the clients are gone.

### Fairness

- `WF(Serve)` and `WF(Work(s))`: asyncio resumes the request's handler and Celery
  keeps workers running. Nothing is assumed about mishaps, reads and deletions, and nothing of a
  crashed task: its slot is empty.
- `WF(Step(c))`, `WF(Tick)`: callers are resumed, provider calls time out, the
  clock runs. New calls are not promised (`Call` is not fair).
- `WF(Sends(b))`: a send ends within its timeout and the loop resumes the
  broadcast. Clients need not read, connect or leave.
- `WF(Work(s))`: the provider answers or its client times out, `max_tokens` bounds an answer, and the
  generator is resumed. Nothing is assumed about who asks, opens or cancels.

- `WF(Serve(k))`, `WF(Promoted)` of `RoomMessages`: an upload, a stream of an answer and a request end, with an answer or with
  an error of server or network. Nothing is assumed about the event stream, fetches or the user.

`EventStream` and the other modules of the client state no fairness; `Recovers` says by a state predicate
that something is pending.

## 4. The proofs

All for every value of the constants that the modules' `ASSUME`s admit.

- **`RetryPolicyProofs`**: `TypeCorrect`, `CountDecides`, `ClosingTakesASuccess`.
  The types are not inductive alone: that `attempt` stays within `MaxRetries` needs that a
  sleeping caller has a retry left (`RetryLeft`). `IInv` adds
  `CountDecidesState`, from which the action property follows step by step.
- **`ReviewWorkflowProofs`**:
  - `TypeCorrect`: with `StageFits`, since a round moves to the stage after its own.
  - `OneTaskAtATime`, `OneSummary`: from `Alone`, which says that while publications are
    confirmed at most one slot is used, none before the starter has sent, and no summary is
    posted before the one task that posts it is past its last retry. `OneLiveTask`
    alone does not exclude a second start.
  - `NothingChargedTwice`, `BudgetIsAGate`: from `Accounts`: what a task carries plus what
    its current turn heard is covered by `spent`, and is within the budget once the round was
    let through; `BillPaid` then needs `Alone`, for two report tasks would bill twice.
  - `PanelSpoke`, `HistoryKept`, `ReportsOnTwoRounds`: from `Debate`. Each of the three speaks of the task
    between two rounds; a task in the middle of one has answers that are in its hands but not in the room. So
    `Argued` says whose answers they are, that those to be saved are among them (`todo`), and that the fourth round
    has a panel; `Recorded` that the others are saved. A retry starts from the arguments of the task, not from
    what it did: `Argued` has to hold of them alone.
  - `ToldIsFiled`: from `Standing`, under confirmed publications: a review is `Unread` until a task's report is
    filed and `Reported` ever after, and which of both is told by the step of the one task (`Stands`). `Alone` is
    needed again: another task would announce, or take back, what this one does.
  - `PromiseKept`: the refinement of `ReviewLifecycle`, one step of the code after the other, from all of these
    invariants. It is under `[]Confirmed`, for a task that is sent twice may take the row back, and for a
    web process that reaches the database (no mishap `"webdb"`), for a scripted review whose report could not
    be saved is marked completed all the same. The corollary `PromiseKeptByBroker` replaces `[]Confirmed`, a condition on the
    behaviour, by one on the mishaps: it is what `ReviewPanel` checks.
- **`ConnectionManagerProofs`**: `TypeCorrect`, `OnlyOpenListed`;
  `SocketsHaveAll` from `Numbered` (messages over are begun, each once), `Covered` (a listed
  socket that has not got a message in progress is still being sent it or has
  failed it) and `Kept`; `ListenersHaveAll` from `Streams`: what a client was sent and its queue
  form a segment of `sent` that starts at its registration.
- **`MessageStreamProofs`**: `TypeCorrect`; `NothingStale` from `Placed` (drafts are made for
  questions in the thread, and streamed once they are made: without it the newest question might precede
  the draft's); `OneStream`, `DoneKept` and `AnswersSettle` from `AInv`: the writer of a complete answer is past
  its writing and changes no more, and what was written stays complete. `UsageIsCounted` and `BudgetGates` from
  `UInv`: streams begun and answers completed are finitely many, though turns and streams need not be, and a step
  changes at most one share of each sum (`SumsDiffer`). That `MapThenSumSet` is a sum at all, whatever the order of
  its elements, is shown by least counterexample: `RecExists`, `RecAgrees`, `SumRemoves`.

- **`AppShellProofs`**, of the event stream: `TypeCorrect`; `OneConnection`, `ShownIsTrue` and `NeverLeftAlone` from `IInv`, which
  says of each place between a render and its effects what the refs, the timer and the queued status are:
  `OneChannel` alone does not exclude a timer of a removed page, nor `StatusTells` an update that is queued for a
  connection that is closed by now.
- **`AppShellProofs`**, of the shell: every step of it is a step of `EventStream`'s or leaves its variables
  alone (`ShellStepIsStreamStep`), so `ShellImplementsStream` and with it its theorems; `SearchIsSound` from
  `SearchInv` (what is asked and kept under a key is of that key's text);
  `PasteTakesAMove` from `KeyboardInv`.

- **`RoomsProofs`**, of `RoomList`: `TypeCorrect`; `KeptListExcused` and `NoEviction` from `Sound`: every copy of the list that
  can still arrive somewhere, the one kept in Redis and those in the hands of GETs under way or given up, is wrong
  only about rooms with an excuse (`Fair`). The properties speak of the copy that has arrived, and a GET that
  had read the list before a change is how a wrong one does.
- **`RoomsProofs`**, of `RoomCreation`: `CreationTypeCorrect`; `PromptsHaveRequests` from `Housed`: a prompt is in one room's
  list only, and the request or the submission that holds its id knows which; else an answer that comes late would take
  the prompt from the wrong list. `DialogueEnds` from `InTurns`: while nobody speaks out of turn, the one submission under
  way was sent with the dialogue that is in the store, a ChatInput that has left the page included, and a request that
  carries a question is of that dialogue. Lemma `FewerQuestions`: the dialogue opens with the sidebar's prompt, so it
  has fewer questions than prompts, though a question whose answer failed is there twice.
- **`RoomMessagesProofs`**: `TypeCorrect`; `ListsAccounted` from `Founded` and `Accounts` (what is yet to be published, what the
  stream, an upload or an answered request has for a list is of that list's room and stored); `StandInsGo` from `AtHome` (stand-ins of a
  question are in the list of its room only, while the question is there) and `Tidy`, which is
  `LeftoversGo` without the excuse of a fetch under way: that is no excuse that lasts, for it can fail, so
  it must be one of the others that stood when it began.
- **`ReviewPageProofs`**: `TypeCorrect`; `HeaderIsOfReview` from `Selection` (what the page asked for, listens to and was
  told is of the selected review or of one that is gone, since a selection on the list is kept) and `Sorted`;
  `LockHasReason`, `TimelineHasCompletion` and `TurnHasPlace` from `InputKnows`, `TimelineKnows` and
  `ThreadKnows`, which say the same of any open page, the rows of rooms that are gone included, before it is
  known whether it shows the review. `TimelineKnows` needs `Dates`: an answer "undated" is of a row that will not be dated
  any more, in the list, in the request under way and in the answer kept alike. That `Max` and `Min` name a member of a set needs the numbers to be
  bounded (`Numbered`), and the lemma `LeastNumber`, by the well-foundedness of `<`. The reviews, as the page finds
  them, are at least one (`ReviewPageAssumption`).

Checked by TLC only: liveness (`ChainEnds`, `GoesThrough`, `CallsEnd`, `BroadcastEnds`, `StreamsEnd`, `InputFrees`),
which is out of the prover's reach. Every invariant and every action property that a passing run checks is proved.

## 5. What is not modelled, and the plan

Left out for good: text (prompts, digests, formatting), single-query routes, search and
retrieval, administration and metrics, file and network I/O. Of the client:

- `ChatView.jsx` lists `handleRetry` among the dependencies of a callback above the declaration of
  `handleRetry` (`const`), so its first render throws and the error boundary takes the page off: it has no behaviour to
  model. `AppShell`'s `Throws` is what it does.
- Components no mounted page imports: `RoomList.jsx`, `ReviewPanel.jsx`, the metrics and administration
  dashboards, `ExportManager`, `SearchPanel`, `ThreadList`, `DiscussionStoryboard`, `SplitView` and others.
- `app/static/assets` is the built bundle.

Hazards of the server that no model covers yet: the gap between history and registration in
`review_event_generator` (`reviews.py:317`); a listener registered before its generator starts
(`messages.py:162`); drafts of edited questions no stream can open (`conversations.py:365`);
`save_fact`'s separate transactions and cached fact answers (`user_fact_service.py:113`,
`message_pipeline.py:265`); callbacks of a background task that remove a newer one
(`background_task_service.py:151`); `archive_old_memories`'s separate transactions
(`memory_service.py:1046`); the connection pool's use from several threads
(`database_service.py:123`).

Planned, in this order:

1. `ReviewEvents`: status events and messages through PostgreSQL, Redis and the listener to a
   review's SSE client; it joins `ReviewWorkflow`, `ConnectionManager` and `ReviewPage`, whose `Tells` and `Listens` now stand for it.
2. `UserFacts`: `save_fact` and `resolve_fact_conflict`, step by transaction, with the
   inline and the background extraction and the cached answers.
3. `BackgroundTasks`, `MemoryArchive` and the connection pool.

## 6. Running the checks

    tlc -workers 2 -config ReviewStore.cfg MCReviewWorkflow.tla
    tlc -workers 2 -config RetryPolicy.cfg RetryPolicy.tla
    tlc -workers 2 -config Channel.cfg ConnectionManager.tla
    tlc -workers 2 -config Conversation.cfg MessageStream.tla
    tlc -workers 2 -config AppShell.cfg MCAppShell.tla
    tlc -workers 2 -config RoomMessages.cfg MCRoomMessages.tla
    tlc -workers 2 -config ReviewPage.cfg MCReviewPage.tla
    tlapm ReviewWorkflowProofs.tla

`ReviewPanel`, `ReviewStray` and `ReviewFailed` also belong to `MCReviewWorkflow`; the other configurations bear the names of
their modules. The largest runs take two to three minutes, the proofs a few minutes.
