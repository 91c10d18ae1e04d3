# BlockShield in TLA+

BlockShield follows the Ethereum chain, scores every transaction with an
anomaly detector, stores transactions and alerts in a database, and streams
both to browsers. This directory models the parts of it whose correctness
depends on order, failure and concurrency, checks the models with TLC and
proves every safety property that the runs check with TLAPS.

## 1. Inventory

| Component | Code | State | Operations | What is hard | What makes it correct |
|---|---|---|---|---|---|
| Live pipeline | `app/blockchain/pipeline.py`, started by `app/main.py` | per process: `_tx_buffer`, `_alert_buffer`, `_metrics`, subscriber sets; the tables `transactions` and `alerts` | take a transaction, score, buffer, announce, save (3 attempts, 30 s), broadcast | several processes on one database, lost acknowledgements, timeouts, crashes | one row per hash, alert and row together, no alert lost silently, order of broadcast and save |
| WebSocket streams | `app/routes/websocket.py` | per connection: a bounded queue, a subscribed callback | connect, replay, send, receive, disconnect | hand-over from replay to live messages, slow clients, failures half-way | no gap, no duplicates but one, no leak, no back-pressure |
| Chain listener | `app/blockchain/listener.py` | endpoint index, connection, back-off, last block | connect, subscribe, poll, fail over, sleep | flapping endpoints, heads that go backwards, errors in the middle of a range | no block skipped within a connection, fail-over finds a live endpoint |
| Worker | `app/worker.py` | tasks, model, rules read per message | consume, score, evaluate rules, persist, publish alerts | duplicate deliveries, partial failure, cancellation | one row per hash, alerts for what is stored, the loop never stops for good |
| Message broker | `broker/message_broker.py` | a queue per topic, drop counters; or a Redis channel | publish (1 s), subscribe, reset | full queues, lost messages, competing consumers | FIFO per topic, counted drops |
| Detector and model files | `app/ml/model.py` 83-170 | loaded models, the files' times | reload, bootstrap, save | reload races with the trainer's two files and with other detectors' bootstraps | nothing older than a recorded training is served; what is not newer than remembered is what is served |
| Retraining and feedback | `ml/feedback_loop.py`, `app/routes/feedback.py` | `analyst_feedback`, `model_versions`, two files | label, relabel, retrain | labels that arrive during training, a crash between file and commit | a label marked used was trained on, each version claims what it used, enough labels lead to a version |
| Alert workflow and rules | `app/routes/alerts.py`, `app/routes/rules.py` | alert status, assignee, resolution; rule flags | assign, comment, close, toggle | concurrent analysts who read, change and write, pages over moving rows | a verdict comes from one request, toggles count, pages list everything |
| Scoring | `app/ml/model.py` 142-298, `app/ml/features.py`, `pipeline.py` 89-125, 216-223 | median gas price, gas window, block counts | blend, floors, spike, amplification, thresholds | an order of steps that lets one signal cancel another, zeros, stale medians | the rules' findings survive every other signal |
| Wallet graph | `app/ml/wallet_graph.py` | graph, flags, clusters | add, flag, cluster, query | nodes made by sender or receiver, flagged before they exist | a wallet's record only gets worse |
| Rate limiter | `app/main.py` 63-100 | request times per caller | admit, reject | window boundary, one history per process | at most the limit in any window |
| Browser client | `frontend/src/services/websocket.ts`, `store/index.ts` | two sockets, reconnect timers, lists | connect, reconnect, receive, disconnect | late `onclose` events of an old socket | one live socket per stream, nothing left after disconnect, reconnecting for ever |
| Queries, settings, auth, notifier, views, older copies (`app/api`, `files (10)`, `mnt`, `ci`), deployment | | | | no state of their own, or unused | |

How they interact. `lifespan` (`main.py` 24-33) starts one pipeline task per API
process. The task drives the listener's generator: the next transaction is
asked for when the previous one is done, so within a process transactions are
handled one by one. The pipeline calls the WebSocket handlers' callbacks; they
only put a message on a queue and never suspend. Pipeline processes, worker and
API handlers meet in the database only. The worker reads its feed from the
broker; the repository has no producer of that feed, so it is an external
input, and no consumer of the alerts topic the worker fills. The trainer runs in
the worker's event loop; it and the detectors of all processes meet in two
files on a shared volume. Feedback and alert requests meet in the database, each
in a session that writes the columns it changed. `PROJECT.json` lists
every component with its status, and the hazards with their lines.

## 2. The modules

| Module | Models | Kind |
|---|---|---|
| `TxLedger` | what the tables promise, whoever writes them | abstract specification |
| `Pipeline` | the pipeline in several processes, and the worker's write | detailed specification, implements `TxLedger` |
| `MCPipeline` | two processes, three transactions | TLC instance |
| `PipelineProofs` | theorems about `Pipeline` | proofs |
| `WsStream` | the two WebSocket endpoints fed by one process's pipeline | specification |
| `MCWsStream` | one connection to each endpoint | TLC instance |
| `WsStreamProofs` | theorems about `WsStream` and about `WsClient`, the two ends of a connection | proofs |
| `ChainListener` | `BlockchainListener` and the providers' behaviour | specification, run directly |
| `ChainListenerProofs` | theorems about `ChainListener` | proofs |
| `LossyFifo` | what a topic of the broker promises its subscriber | abstract specification |
| `Worker` | the stand-alone worker between its two topics, over either backend | specification, implements `LossyFifo` |
| `WorkerProofs` | theorems about `Worker` | proofs |
| `Scoring` | from a transaction to a verdict, with the wallet graph, in both processes that score | specification, run directly |
| `ScoringProofs` | theorems about `Scoring` | proofs |
| `Retrain` | labels and the trainer that consumes them | specification, run directly |
| `RetrainProofs` | theorems about `Retrain` | proofs |
| `ModelFiles` | the two model files between the trainer and every process's detector | specification, run directly |
| `ModelFilesProofs` | theorems about `ModelFiles` | proofs |
| `AlertDesk` | analysts' requests on alerts and rules, and a paged listing | specification, run directly |
| `AlertDeskProofs` | theorems about `AlertDesk` | proofs |
| `WsClient` | the browser's `WebSocketService` | specification, run directly |

How they fit together. `Pipeline`, `WsStream`, `Scoring` and `Worker` look at the
same code from four sides: `Scoring` computes the verdict that `Pipeline` and
`Worker` choose freely; `WsStream` takes the pipeline's two broadcasts and leaves
the database out; the worker's insert is one atomic attempt in `Worker`, while
`Pipeline` shows what several writers make of the table. `Retrain` treats the two
files as written in one step, which `ModelFiles` takes apart. `WsClient` is the
other end of the connections of `WsStream`; it leaves the messages out.

In each module an operator named in a comment `Mutation of X` is a plausible
bug of `X`; no specification uses it. It documents which property
notices that bug: the project file pairs each property with one.

### Pipeline and TxLedger

The atomic step is the code between two suspension points of asyncio. In
`_process_transaction_impl` nothing is awaited that can suspend before the
commit: the subscriber lock is never held across a suspension and callbacks use
`put_nowait`. So scoring, counting, buffering and the alert's broadcast are one
step (`Process`), and the commit splits in two: the database decides
(`CommitStores`, or `CommitFails`), and the answer arrives (`Finish`) or is
lost (`AckLost`). `Retry` and `GiveUp` are the two branches of the `except`
clause; `Abort` is the 30 s timeout, or a rollback that raises, both of which
leave `_process_transaction_impl` without a broadcast; `Terminate` is a
shutdown or a crash, `Start` the process that follows. `WorkerStores` is the
row the worker inserts.

| Variable | Code |
|---|---|
| `pc`, `cur`, `verdict`, `attempt` | where the task is suspended, `tx`, `result["is_flagged"]`, the loop variable |
| `txBuf`, `alertBuf`, `metrics` | `_tx_buffer`, `_alert_buffer`, `_metrics` |
| `txRows`, `alertRows` | the tables; a sequence per hash, so that a second row would show |
| `sent`, `announced`, `abandoned`, `fed` | history |

The score is a free choice: it depends on the process's own gas window, wallet
graph and model, so two processes may disagree on the same transaction, and the
model lets them. `Conflict` is the two uniqueness constraints: `tx_hash`, and
the alert's primary key, which is only the first 12 characters of the hash.

`TxLedger` is the promise: each hash is recorded at most once, in one step,
"clean", "alerted" (row and alert together) or, by the worker, "scored", and a
record never changes. `Pipeline!ledger` maps the two tables to it; a row and an
alert that do not belong together would map to "torn", which the ledger does
not allow.

### WsStream

Messages are numbered in the order of processing. The chain yields a transaction
(`Yield`), and `hand` keeps it with what the detector will say of it until the
pipeline's `Process` broadcasts its alert and begins the save; so a broadcast that
waited for a client would show as a transaction that stays in hand. `Readers` are the
connections whose client reads. A connection goes through
`Connect` (subscribe and copy the recent entries), `SendCatchup`, `GoLive`,
`SendLive` and `Disconnect`. `CatchupBreaks` is a `send_text` that raises during
the replay: lines 57-59 and 119-121 lie outside the `try`, so the callback
stays subscribed. A message counts as received when it is given to `send_text`.
`ping` messages are left out.

### ChainListener

`mode` is where the generator is suspended. An endpoint is up or down and may
change at any moment; a call succeeds when it is up. `ConnectionAnswers` is
`is_connected()` and resets the back-off, before `block_number` (`OpenPoll`) or
`subscribe` (`Subscribe`) is tried. `PollScans`, `EmitBlock`,
`PollFindsNothing` and `PollFails` are one round of `_poll_stream`. `last` moves
only when a range is complete, and may go backwards when a provider answers
with an older head (`Reported`). The transactions of a block are emitted as one
step; only `get_block` can fail, and only between blocks.
A block is its number: reorganisations, in which a provider announces a second
block of the same height, are left out. A subscription is taken to announce
every new head once and in order.

### Worker and LossyFifo

Messages are numbered by publication. `Publish` is `publish("transactions", ..)`
by an outside producer: in memory it finds room, or waits (`putting`) until
`PutSucceeds` or, after a second, `PutTimesOut`; with Redis it reaches the
subscriber or nobody. `Subscribe`, `Take` and `LoseSubscription` are the
consumer's loop, and `ScoringFails`, `Evaluate`, `LookUp`, `Persist`,
`PersistFails`, `PublishAlert` and `Done` are `_process` from await to await.
`Stop` is `main()`'s signal handling and `stop()`, or a crash: `Cancelled` is what
is left of the consumer. The matching of a rule against a transaction is a
free choice among the active rules. `Topic` maps the number of messages published
and the list of those taken to `LossyFifo`: in order, each at most once, any of
them missing. The one-second limit is a choice between `PutSucceeds` and
`PutTimesOut`; the worker's own alerts wait and are dropped in one step, since
nobody takes anything from that topic meanwhile.

### Scoring

`feed` is what `get_listener()` chose, for good, when the pipeline began: the chain,
which may offer anything that `_parse_tx` can make of a transaction, or
`SimulatedListener`, whose transfers are `Simulated` (its block numbers and its
pace are left out, and any amount stands for its random ones). Calldata is taken to
be the text it is annotated as. One step scores one transaction: `Process` in the
pipeline (gas window, block
count, profile of the sender, score, graph, flag), `WorkerScores` in the worker.
The worker's messages are a node's (`worker.py` 205, 270-278): amount, gas price and
calldata stand under names that `extract_features` does not look for, so the
detector gets an amount and a price of zero and no calldata (`Adapted`). The worker
drops the detector's own verdict and kind, and flags a score above its
`FlagThreshold` (`WorkerFlags`); a message with the gas in hexadecimal raises and gets
no score (`WorkerRaises`). `HandOver` is everything that follows.
`Score` is the order of `predict`: blend the two learned scores, raise to what the
rules demand, add the gas spike, amplify, clamp. What the learned models say is a
free choice from `IsoScores` and `SupScores`. Scores are whole per cents where the
code rounds to one decimal (`model.py` 244-245), so a score that is rounded up to
a threshold is not told apart from one that reached it. Amounts are hundredths of
an ETH, enough for the thresholds 0.01, 100 and 500.

### Retrain

A label request is two steps, `LookUp` and `Save` or `RequestFails`, since the
session reads, and later inserts or writes the columns it changed. The trainer's
steps are the code between two awaits: `CountPending`, `FetchFeedback`,
`TooFewRows` or `FitAndSave` (105-174 await nothing), `ReadVersion`, `Record`.
`Fail` is an error, which `run()` logs, or a crash of the worker: either way the
next round starts from the tables. `touched` and `late` remember which labels
changed after the trainer had read them, `learned` what the last version read.

### ModelFiles

A step is one file operation. `open(.., "wb")` truncates a file, closing it makes
it whole, and two writers of different models leave one of them or a mixture that
does not load (`Results`). Times are kept as the one bit the code derives from
them, newer than remembered or not (`isoSeen`, `supSeen`). A detector goes through
`Predict` (is a reload needed), `ReadIso`, `StatIso`, `ReadSup`, `StatSup` and,
when nothing loaded, `Bootstrap`, `SaveDefault`, `StatDefault`. The trainer does
not await between its fit and the commit, so the detector of its own process
stands still meanwhile (`Host`). `raced` remembers the detectors that loaded a
file while somebody wrote it or that looked at its time too late; `unremoved` that
the last training left an older classifier in place, because `unlink()` raised and
nobody heard of it (`UnlinkFails`). A detector is at rest (`AtRest`) when it is idle,
sees no newer time, no file is open and it was in no race. Whether a file
exists and its contents are one step (`exists()` and `load`), and a write that
fails half-way is a crash.

### AlertDesk

A request is two steps, reading the row and committing. The session writes only
columns whose value differs from the one it read: `Written`. `clashed` remembers
rows that a request changed over a change it had not seen, `verdicts` what the
requests to close said, `switched` what the order of commits makes of a rule's
flag. `ReadPage` is one request of a listing by offset and limit: a page is the
alerts whose place among the matching ones (`Place`, counted from the newest)
lies within it, so that nothing has to be sorted.

### WsClient

Each of the two streams has its sockets, the one the service holds (`current`),
the timers that have not fired, the recorded one (`timer`) and the attempts.
`Connect` and `Disconnect` are App's mount and unmount; `OnOpen`, `OnClose` and
`OnTimer` are the callbacks, and `Drop` is the network or the server. `close()`
only starts the end of a socket, so `OnClose` may come after the next `Connect`;
`late` counts how often it did. The delay is abstracted to the number of attempts
up to the one where it stops growing. The specification's parts are named
`ServiceInit`, `ServiceNext`, `ServiceSpec`, `ServiceTypeOK`, since one module of
proofs extends both ends of the connection.

## 3. The runs

| Run | Distinct states | Shows |
|---|---|---|
| `pipeline` | 62 260 | the ledger refinement, `CountersMatchBuffers`, `AnnouncedBeforeStored`, `NoAlertSilentlyLost`, `BroadcastOnlySettled`, `EveryTxLeavesPipeline` |
| `pipeline_order` | violation | `DbWriteBeforeBroadcast`: the docstring's order (`pipeline.py:4`) is not the code's (146 before 151) |
| `ws_stream` | 226 170 | `LiveIsFifo`, `NoGapAtHandover`, `OnlyInFlightTwice`, `OnlyBrokenReplayLeaks`, `ReadersAreServed` |
| `listener` | 12 880 | `NoBlockSkipped`, `RepeatsNeedTrouble`, `BackoffFollowsErrors`, `HealthyUnlessPollingDead` |
| `listener_down` | violation | `FailsOverOnErrors`: the docstring's promise (`listener.py:137`) ends once polling has begun (201) |
| `worker` | 543 000 | `LossyFifo` refinement (`TopicSpec`), `AlertedIsStored`, `KeepsConsuming`; every message is in one place (`TypeOK`) |
| `scoring` | 55 648 | `SpikeIsMajority`, `RulesCannotBeOutvoted`, `RecordOnlyWorsens` |
| `scoring_amplify` | violation | `FlaggedSenderAmplified`: the detector's third signal (`model.py:45`) is never given |
| `retrain` | 107 312 | `UsedMeansTrained`, `MarkedWithVersion`, `RetrainedEventually` |
| `model_files` | 456 350 | `NoneOlderThanRecorded`, `NoReloadMeansCurrent` |
| `alert_desk` | 206 723 | `VerdictOfOneRequest`, `TogglesCount`, `ListingComplete` |
| `ws_client` | 45 488 | `OneSocketButLate`, `DisconnectFinalButLate`, `KeepsTrying` |

Every passing run but `scoring` also checks its module's `TypeOK` (`ServiceTypeOK`
in `WsClient`); what `Scoring` has to say about types is a lemma of its proofs.

Bounds and why they are enough:

- `pipeline`: two processes, since every race is between two writers, with the
  worker as a third on one hash; three hashes, two of which share an alert id;
  `MaxInputs` = 2 transactions taken in all, so that both processes can hold the
  same hash, or clashing ones, at once, or one process can take two in a row
  and overflow its buffers of one; three attempts as in the code. Not covered
  by this instance: three API processes on one hash, which the theorems cover.
- `ws_stream`: with `MaxTx` = 3, a queue of two transactions overflows at the third
  and one of a single alert at the second, so that both orders of dropping and
  receiving occur; a buffer and a replay of two let an entry fall off.
  Connections share nothing but the subscriber sets, so one per endpoint shows
  their interplay with the pipeline. The stream's client reads (`Readers`), the
  alerts' client may stop whenever it likes.
- `listener`: two endpoints, one subscribed to and one polled; three blocks give
  ranges of more than one block that break in the middle; providers trail by at
  most `Lag` = 1; `MaxTrouble` = 2 interrupted scans or backward heads per
  connection; `MaxFails` = 7 errors in a row, past the point where the cap of 60 s
  holds (an assumption of the module ties the two).

- `worker`: topics with room for one, so that the second message waits and the
  second alert is dropped; three messages over two transactions, so that one is
  delivered again; two rules give a message two alerts; one lost subscription or
  restart and one toggle anywhere in between.
- `scoring`: two wallets; both thresholds at their defaults, 65 and 60; amounts on both sides of each threshold; prices of 0, 10
  and 60, where 60 is a spike over 10, only 10 is a price of a simulated transfer,
  and a window can have the median 0; scores that
  flag and that do not; a busy block from the second transaction on; a window of
  two, so that the third transaction pushes one out; one block, since counts of
  different blocks do not meet.
- `retrain`: two analysts and two transactions with three requests: a collision
  on one hash, a correction during training, and a label that stays behind; one
  failure at any point. A threshold of one makes every pending label count.
- `model_files`: the API process and the worker, whose detector and trainer share
  an event loop; two trainings, so that there is an older trained model to be
  stale with; one crash.
- `alert_desk`: two alerts and pages of one, where one row more or less shifts a
  page; two analysts and three requests, so that two interleave after or before a
  third.
- `ws_client`: three sockets and three mounts: a late event needs two of each, and
  what follows it a third; the delay's limit is reached at the first attempt, the
  code's at the seventh, and the count goes past it.

Deadlock checking is off in all runs: inputs are bounded, connections close and
a listener that was stopped ends.

### Fairness

- `Pipeline`: weak fairness of `Step(p)`, the event loop's resumption of a
  suspended task. Each of its actions ends a wait that the database driver, a
  timer or the 30 s limit ends in reality. Nothing makes the database answer
  well: `EveryTxLeavesPipeline` holds through the attempt counter.
- `WsStream`: weak fairness of `Process` and of `Broadcast` or `SaveAborts`, that is,
  of the pipeline's own task once it has a transaction, and of the handlers whose
  clients read (`Readers`). The chain need not yield, and the other clients are not
  fair: they may stop reading at any point.
- `ChainListener`: weak fairness of the generator's own steps. No fairness for
  the endpoints; `HealthyUnlessPollingDead` supposes in its statement one that stays
  up, and excepts a listener that polls a dead one for ever, which it does.
- `Worker`: weak fairness of `Process`, `Subscribe` and `Take`, the worker's own
  coroutine: each of its awaits ends, with an answer, an error or the one-second
  limit. No fairness for publishers.
- `Retrain`: weak fairness of `Train`, the loop in `run()`, which sleeps and starts
  again whatever happened. Requests are not fair.
- `WsClient`: weak fairness of `Browser(s)`: timers fire and a closing socket's
  `onclose` runs. Neither the server nor the network is fair, and no connection
  has to open.
- `Scoring`, `AlertDesk` and `ModelFiles` state no fairness. For `ModelFiles` there
  is nothing to conclude from it: two detectors without a file may bootstrap over
  each other for ever.

## 4. The proofs

Every safety property that a passing run checks is proved, invariants, action
properties and both refinements, for all values of the constants that satisfy the
named assumptions of its module. An invariant that is not inductive is proved from
one that is; that one was model-checked on the run's instance first.

`PipelineProofs` proves, for any finite or infinite sets of processes and
transactions, any alert ids, any number of attempts and any buffer sizes, from
the named assumptions of `Pipeline` (the worker is not an API process, the
place-holder is not a transaction, at least one attempt, buffers of at least one):

| Theorem | Property |
|---|---|
| `TypeCorrect` | `TypeOK` |
| `CountersFollowBuffers` | `CountersMatchBuffers` |
| `AnnouncedFirst` | `AnnouncedBeforeStored` |
| `AlertsAccountedFor` | `NoAlertSilentlyLost` |
| `BroadcastSettled` | `BroadcastOnlySettled` |
| `TablesImplementLedger` | `LedgerSpec` |

The argument. `PushProperties` says what `Push` returns: length, head and
element type, and `PushStaysShort` that it is never longer than the limit; with them
`TypeOK`, which bounds both deques, is inductive, and `CountsMatch(p)` is too.
Neither `AnnouncedBeforeStored` nor the ledger's shape is inductive alone: a
commit stores whatever the process holds, so one has to know that a flagged
transaction in hand was announced, that each hash has at most one row, and that
an alert row has a flagged row of the pipeline beside it. These facts are
`TablesInv`; `TablesInvStep` proves it inductive with one step per action, and
`StoreEffect`, `WorkerStoreEffect` and `FirstRow` say what the two actions that
write do to it. `BroadcastSettled` needs one more fact, that a process in
state "committed" has its row in the table, which is part of `TablesInv` too.
The refinement compares the mapped ledger entry by entry: `EmptyEntry`,
`StoredEntry` and `SameEntry` say that an entry of the map depends on that
hash's rows and alert only, so a commit is `Record` on one hash and every other
step stutters.

`ScoringProofs` proves, for any wallets, amounts, gas prices, blocks and window,
any scores of the learned models from 0 to 100, and any number of transactions:

| Theorem | Property |
|---|---|
| `RulesHold` | `RulesCannotBeOutvoted` |
| `RecordWorsens` | `RecordOnlyWorsens` |
| `SpikesMeanMajorities` | `SpikeIsMajority` |

They rest on `NumbersAssumption`, in which the flag threshold lies between 65 and
72: the default is 65, below it an alert could be of medium severity, and above 72
a transfer of more than 500 ETH would not be flagged by its amount alone. The
argument: `ScoreBounds` bounds the score from below by the rules' floors and from
above by 100, `NeverAmplified` says that no profile the program makes amplifies,
and `VerdictBound` turns both into the claims about one verdict of the pipeline, so
that the property holds of each verdict as it is made. `RecordWorsens` needs the inductive
`ScoringType` (risks lie between 0 and 100, so that a flag's 100 is never lower),
and `GraphStep` says what the two changes to the graph do to every wallet.
For `SpikesMeanMajorities` the median is the price at which the count of lower
ones passes one half. That there is such a price is an argument about a least
number (`Smallest`, from the library's theorem on well-founded relations, which
needs no induction on an operator); `MedianIsMiddle` counts the prices below it and
`SpikeOverMedian` compares the two majorities, with one transaction more or less
where the window is of even length.

`WsStreamProofs`, for any connections and any sizes of queues, replays and
buffers, and for any numbers of sockets, mounts and attempts:

| Theorem | Property |
|---|---|
| `StreamTypes` | `TypeOK` |
| `LeaksNeedBrokenReplay` | `OnlyBrokenReplayLeaks` |
| `NoGap` | `NoGapAtHandover` |
| `NothingElseTwice` | `OnlyInFlightTwice` |
| `QueueIsFifo` | `LiveIsFifo` |
| `ClientTypes` | `ServiceTypeOK` |
| `OneSocket` | `OneSocketButLate` |
| `FinalDisconnect` | `DisconnectFinalButLate` |

- That the replay misses nothing has to be known before anybody connects. `Covers`
  says that the buffer holds all that was broadcast, or will be by a save under way,
  from any of its entries on; `CoversPush` and `CoversPrefix` show that a full deque
  and a shorter replay keep that. From the subscription on, `HandoverInv` follows
  each message from the broadcast to the client. `HandInv` adds that a transaction is
  in hand only between two saves.
- For what is received twice, `Few` looks at the three places a message may have at
  a connection, received, to be replayed and queued: the first two are disjoint, and
  they share with the queue at most the transaction that was being saved at the
  subscription. `OrderInv` adds that this transaction, while it is being saved, is in
  no queue yet, so that its broadcast does not bring it a third time.
- For the order, `Rises` says of a sequence that behind some position it has the
  numbers of a set, ascending. `LineInv` says it of what a connection received and
  has queued together, so that sending changes neither, and a broadcast appends a
  number above all that came before it on its channel.
- In the browser, a socket that works and is not the one the service holds is a stray.
  A late `onclose` is the one event that forgets the socket held, so `HalfInv` counts
  strays by late events; and while there was none, the only timer is the recorded one
  and there is none beside a socket held. `Settled` then says that after
  `disconnect()` nothing is left that would connect again.

`ModelFilesProofs`, for any number of processes, trainings and crashes:

| Theorem | Property |
|---|---|
| `FileTypes` | `TypeOK` |
| `NoOldModels` | `NoneOlderThanRecorded` |
| `TimesTell` | `NoReloadMeansCurrent` |

- `NoneOlderThanRecorded` is about detectors and rests on what is in the files. The
  forest's file holds the synthetic or the last training's model, and so does all
  that is being written; the classifier's file holds none that is older than a
  recorded training, unless it could not be removed, and when the trainer is about
  to record, it is there already (`NewestInv`). The rest is `AtRestCurrent`: a
  detector at rest holds what the files hold.
- `NoReloadMeansCurrent` speaks of idle detectors; `Holds` says of every point of a
  reload what the detector knows. From the load to the look at the time, and as long
  as no newer time is seen, the file is what was loaded and nobody writes it, or the
  detector is in a race (`IsoCurrent`, `SupCurrent`). Opening a file makes every
  detector see a newer time and puts those between load and look into `raced`; that
  is `Opening`, and `Shutting` is the same for closing, whoever writes. A file is
  open exactly while `writers` is not empty, which rules out the case that a load
  succeeds in the middle of a write.

The other proofs, each from the named assumptions of its module:

| Module | Theorem | Property |
|---|---|---|
| `WorkerProofs` | `FeedIsLossyFifo` | `TopicSpec` |
| `WorkerProofs` | `AlertsAreBacked` | `AlertedIsStored` |
| `WorkerProofs` | `OnePlaceEach` | `TypeOK` |
| `ChainListenerProofs` | `NoGaps` | `NoBlockSkipped` |
| `ChainListenerProofs` | `NoCauselessRepeats` | `RepeatsNeedTrouble` |
| `ChainListenerProofs` | `DelaysDouble` | `BackoffFollowsErrors` |
| `ChainListenerProofs` | `ListenerTypes` | `TypeOK` |
| `RetrainProofs` | `UsedIsTrained` | `UsedMeansTrained` |
| `RetrainProofs` | `MarkedTogether` | `MarkedWithVersion` |
| `RetrainProofs` | `RetrainTypes` | `TypeOK` |
| `AlertDeskProofs` | `DeskTypes` | `TypeOK` |
| `AlertDeskProofs` | `TogglesAddUp` | `TogglesCount` |
| `AlertDeskProofs` | `OneVerdictEach` | `VerdictOfOneRequest` |
| `AlertDeskProofs` | `ListedAll` | `ListingComplete` |

- `WorkerProofs`: the messages in hand, in the topic and waiting for room are in
  the order of publication and newer than all that were taken (`OrderInv`), so a
  `Take` is a `Deliver` of the abstract topic and everything else a `Publish` or a
  stutter. `AlertInv` adds what each place of `_process` implies for the row.
  `TypeOK` counts the places of every message; the proof shows instead that waiting,
  given, being put and lost are disjoint and together all that was published
  (`PlaceInv`), and `OnePlace` turns that into the count, by the order for positions
  within a sequence.
- `ChainListenerProofs`: the property says nothing of a scan that is under way, so
  `CursorInv` places the cursor: everything from the start of the connection up to
  it has been emitted. For the repeats, a block that is still to come was emitted
  at most `trouble` times (`RepeatInv`). The back-off is a power of two; that
  2^(n+1) is twice 2^n is obtained without induction, by counting the subsets of a
  set and of one with an element more (`PowersDouble`). `DelayInv` ties back-off and
  number of errors where the loop is about to connect, sleeps, or has connected.
- `RetrainProofs`: the count of pending labels is taken three suspensions before it
  is recorded, and rows are records that change, so cardinalities are compared
  over hashes (`PendingCount`, `SaveEffect`, `RecordEffect`): a pending label stays
  pending until it is marked. `LearnInv` says at each suspension that the
  trainer's rows are the table's but for `touched` ones.
- `AlertDeskProofs`: what a request in flight read may be stale; `GoodAlertRequest`
  says how: if the note is still the one it read, so is the resolution. That
  needs `NoteIsNew`, since otherwise a note might come back after it was replaced.
  `JudgedInv` ties notes to verdicts: an alert has a note exactly when some request
  gave it a verdict, and a resolution exactly when it has a note, which a closed one
  has; and what a request to close read has not been taken off the row (`StillResolved`).
  For the types, `RowInv` adds that whoever is named on an alert stays or is
  replaced, so that a write of changed columns over a newer row leaves a row that
  makes sense. For the listing, each alert that was open at the beginning has been
  listed or still lies behind the pages read (`Ahead`), as long as none moves forward
  (`NoneMovesForward`); a reader who is done saw a page that was not full, and
  `PlacesHaveNoGaps` says that nothing lies behind such a page. They rest on
  `NoneAssumption`, that the code's `None` is neither an analyst nor a resolution.

Model-checked only is liveness: `EveryTxLeavesPipeline`, `ReadersAreServed`,
`HealthyUnlessPollingDead`, `KeepsConsuming`, `RetrainedEventually` and `KeepsTrying`
hold under fairness, which is out of the prover's reach. The three runs that expect
a violation show one behaviour each and prove nothing.

## 5. What the models say about the code

- Whatever the interleaving, the tables stay consistent; the unique hash does
  all the work. The worker's look-up before its insert finds nothing.
- A save whose acknowledgement is lost fails all its remaining attempts and is
  reported as a failed write although the data is stored.
- A stored alert was always announced; an announced alert may never be stored,
  but only after an error that is logged or a crash. Clients see alerts before
  the database does, against the docstring.
- A second flagged transaction with the same 12 first characters is not stored
  at all, not even as a transaction.
- A stream client gets at most one message twice, the one that was being saved
  when it connected; the browser's store removes it.
- A client that leaves during the replay leaves its callback behind for good.
- An endpoint that answers is found in the end, with one exception: an endpoint that
  fails while it is polled is never left.
- Blocks are skipped between connections, never within one.
- The worker reads its topic in order and never twice the same message, but any
  message may be missing without a trace: both backends drop.
- An alert on the worker's topic may name a transaction that was not stored; the
  log line of the failed save is the only sign. Nobody reads that topic, and with
  the in-memory backend every alert past its capacity costs the worker a second
  but never stops it.
- In the worker the detector's rules see nothing of a transaction, neither a large
  amount nor a gas spike nor a flash-loan signature, since a node's messages keep
  amount, price and calldata under other names; its score is what the learned models
  say of zeros. A message with a hexadecimal gas raises and is neither scored nor
  stored; one with a hexadecimal amount is scored, but its save raises
  (`worker.py` 276), which only a log line tells.
- Scores are never amplified for a sender's past: the profile that is passed lacks
  the fields that are asked for.
- A median of zero is ignored, and the median of before stays in force.
- Every label marked used was learned by the version that marked it, except those
  that changed while it was trained, and those without features, which no version
  ever learns although they count. A correction of a used label waits for others.
- A trained model is served without a row in `model_versions` when the commit fails
  or the worker dies between the files and the commit. The opposite does not happen:
  once a training is recorded, no detector at rest serves an older forest, nor an
  older classifier unless that one's file could not be removed.
- A detector that reads a file while it is written may keep the older model until
  the next training, because it takes the newer file's time for the one it read.
- Two analysts who close an alert at once may leave one's resolution with the
  other's note. A closed alert that is assigned again keeps its verdict.
- Two toggles that overlap count as one.
- A reader of all pages sees every open alert when alerts only arrive; one that is
  closed meanwhile makes the next page skip another.
- An `onclose` that comes after the next `connect()` makes the service forget its
  new socket and open another; both then feed the store. Without such an event
  there is one socket, and disconnecting leaves nothing behind.

## 6. Not modelled

- The learned models' statistics, the confidence value, edge totals and exported
  neighbourhoods of the wallet graph: numbers without control flow. `train`,
  `batch_predict` and `detect_clusters` are not called by the program.
- Read-only queries (transactions, wallets, analytics, metrics), the webhook (one
  POST, no retry, no state) and the settings that turn it on.
- Authentication: token encoding and password hashing by libraries, no state.
- The rate limiter (`main.py` 63-100): code without an await over one list per
  process, so nothing interleaves with it; each process counts for itself.
- The multi-chain stubs, rendering, deployment files and the unused older copies;
  of `SimulatedListener`, the pace and the random draws.
- The store's list in the browser: de-duplication by hash and a cut-off. The
  composition of `WsClient` with `WsStream` would be needed to say more than that.
- `Pipeline` leaves out `_block_tx_count`, which only grows; `Scoring` has it.
- Restarts of a listener or pipeline task that ended by an exception: nothing in the
  program restarts it.

## 7. Plan

1. Theorems about the two abstract specifications themselves: that a ledger's
   record never changes and that a lossy topic gives its messages in order, so that
   `LedgerSpec` and `TopicSpec` carry them over to the programs.
2. Composition of `ChainListener` and `Pipeline`: what reaches the tables when the
   listener repeats and skips blocks; of `WsStream` and `WsClient`: what the store
   shows across reconnections.
