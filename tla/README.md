# Verification of qitmeer-miner

TLA+ modules that model the Go program in this repository, TLC configurations
that check them on small instances, and proofs that TLAPS checks for every value
of the constants. Paths are relative to the root of the repository.

## The system

qitmeer-miner mines on a *full node* (solo mode) or for a *stratum pool* (pool
mode). One process, many goroutines, almost no locks.

| Part | Where | State it keeps | Operations |
|---|---|---|---|
| robot | `symbols/qitmeer/robot.go` | `Work`, `SubmitStr`, `SubmitLock`, the counters, `PendingBlocks` | `ListenWork`, `NotifyWork`, `SubmitWork`, `Status`, `HandlePendingBlocks`, the node's notification handlers |
| work | `symbols/qitmeer/work.go` | `Block` or `PoolWork`, `Ing`, `ForceUpdate`, `LastSub` | `Get`, `PoolGet`, `CopyNew`, `Submit`, `PoolSubmit` |
| device | `core/device.go` | `NewWork` and `SubmitData` (capacity 1), `HasNewWork`, `ForceStop` | `SetNewWork`, `SetForceUpdate`, `SubmitShare` |
| CPU miner | `symbols/qitmeer/pow_meer_cpu.go` | the job under its hash loop | `Mine`, `Update` |
| ASIC miner | `symbols/qitmeer/pow_meer_asic.go`, `asic/` | chip state, results read from the serial port | `Mine` |
| stratum session | `symbols/qitmeer/stratum.go`, `core/stratum.go` | connection, `PoolWork`, `Target`, request numbers | `Listen`, `Unmarshal`, `handleNotifyRes`, `PrepSubmit`, `Reconnect` |
| node client | `symbols/qitmeer/client/` | request map, send queue, connection, notification state | `sendRequest`, `wsInHandler`, `wsOutHandler`, `wsReconnectHandler`, `Shutdown` |
| block construction | `merkle.go`, `header.go`, `coinbase*` | none | tree store, coinbase, header |
| conversions | `common/utils.go` | none | `Int2varinthex`, `BlockBitsToTarget`, `DiffToTarget` |
| statistics page | `public/js/fun.js` | `isConnect`, the timers, the socket, the histories | `getMinerData`, `reconnectServer`, `renderStats` |
| options, logs, time | `common/` | configuration | I/O |

How the parts interact:

    node --blockConnected--> handler --Get, NotifyWork--+
    node <--getBlockTemplate-- listener --NotifyWork----+--> NewWork --> miner
    pool --mining.notify--> session <--PoolGet-- listener                  |
                                                                          v
    node/pool <--Submit/PoolSubmit-- submitter <--SubmitStr-- forwarder <--SubmitData
                                        |
                                        +-- after a rejection: Get, NotifyWork (solo)

The behaviours that are hard here:

* the flags `HasNewWork`, `ForceStop`, `Ing`, `ForceUpdate` are shared by several
  goroutines with no lock, and `HasNewWork` is raised *before* the job it
  announces is in the channel;
* three kinds of goroutine notify the devices, each may block on a full channel,
  and two of them hold `SubmitLock` while they do;
* shares pass three hops (`SubmitData`, the forwarder, `SubmitStr`), each of which
  can block, drop or panic;
* shutdown works by closing channels under the hands of senders;
* the node's connection is lost and made again while requests wait for answers;
* `common.Timeout` abandons a goroutine that goes on, and its caller holds a lock that
  the goroutine's answer has to pass;
* a chip reports when it likes, also about a header it no longer has.

What would make each part correct:

* dispatch: no share is lost, doubled or overtaken; jobs reach every device and
  never go backwards; new work stops old work; everything ends after a cancel;
* accounting: every accepted block is pending until it is confirmed or given up,
  and is counted once;
* node client: every request gets exactly one answer, also across reconnects and
  shutdown, and registrations survive a reconnect;
* stratum: a job is never put together from two notifications, a share names the
  job it was found on, an answer is counted for the request it answers (the code
  keeps this for the login only, see `LoginNotCounted`);
* ASIC miner: the port is opened and closed in turn, only solutions of the present
  header are submitted, each once, and a job that is stale is left;
* statistics page: one socket, a way to the next, and a chart whose axis fits;
* pure parts: the tree store and the encodings agree with their definition.

## The modules

| Module | Models | Kind |
|---|---|---|
| `JobDispatch` | robot, work, device, CPU miner: everything between the node or pool and the hash loop, both ways | component |
| `ShareStream` | what a device may expect of the way its shares travel | abstract specification |
| `JobDispatchStream` | `JobDispatch` implements `ShareStream` | refinement |
| `JobDispatchProofs` | the theorems about `JobDispatch` | proofs |
| `JobDispatchStreamProofs` | the theorem that `JobDispatch` implements `ShareStream` | proofs |
| `MCJobDispatch` | the instances TLC checks | model checking |
| `WsClient` | the websocket client of the full node, with `HandlePendingBlocks` as its owner | component |
| `WsClientProofs` | the theorems about `WsClient` | proofs |
| `MCWsClient` | the instances TLC checks | model checking |
| `StratumSession` | the stratum session, with the listener, the device and the submitter that use it | component |
| `StratumSessionProofs` | the theorems about `StratumSession` | proofs |
| `BlockLedger` | what a solo miner may expect of the accounting of its blocks | abstract specification |
| `ShareLedger` | the counters, `PendingBlocks`, `Status`, `OnTxConfirm` and `common.Timeout` in solo mode, over the node's client; it implements `BlockLedger` | component |
| `ShareLedgerProofs` | the theorems about `ShareLedger`, the refinement among them | proofs |
| `AsicMiner` | `Mine` of the ASIC miner with its board, its device and a notifier | component |
| `AsicMinerProofs` | the theorems about `AsicMiner` | proofs |
| `StatsPage` | the statistics page: its request, its websocket, its chart | component |
| `StatsPageProofs` | the theorems about `StatsPage` | proofs |

### JobDispatch and the code

| Variables | Code |
|---|---|
| `tip` | height of the node's chain; in pool mode the version of `stra.PoolWork` |
| `gbt`, `height`, `ing`, `forceUpdate` | serial of the job held in `this.Work`, `Work.Block.Height`, `Work.Ing`, `Work.ForceUpdate` |
| `npc`, `ndev`, `ncopy` | where each *notifier* is (listener, submitter, each handler), the device its `NotifyWork` loop is at, the copy it sends |
| `submitLock` | the holder of `SubmitLock` |
| `newWork`, `submitData` | the two channels of a device, one slot each |
| `hasNewWork`, `forceStop` | the two flags of a device |
| `mpc`, `mwork`, `mjob`, `hasSubmit`, `mshare` | `Mine`: position and locals |
| `fpc`, `fshare`, `sshare` | `SubmitShare` and the submitter, and the share each holds |
| `found`, `judged`, `lastSent` | history: shares found, settled, and the rank of the last one submitted |

A share is a record of its device, its job and its rank among the device's finds;
a job is the serial of the template (or of the pool's job). Bytes, hashes and
targets do not appear: whether a hash meets the target is a choice (`Hit`, `Miss`),
and so is the answer of the node or the pool (`SubmitAccepted`,
`SubmitRejected`). The action names follow the code: `Announce`/`Deliver` are
the two halves of `SetNewWork` called from `NotifyWork(true)`,
`ForceAnnounce`/`ForceDeliver`/`ForceSet` those of `NotifyWork(false)`;
`Enter`, `Claim`, `Ask`, `RpcFails`, `NotNew`, `Install`, `GetReturns` are the steps
of `Get`; `Take`, `Discard`, `Begin`, `Stop`, `Hash`, `Miss`, `Hit`, `Push` those of
`Mine`.

Two accesses are one step only where nothing another goroutine does in between
can be told apart: `Announce` clears `ForceStop`, copies the job and raises
`HasNewWork` at once, since a miner reads the two flags only at the head of its
loops and the copy is private.

### WsClient and the code

| Variables | Code |
|---|---|
| `sock`, `gen` | the connection in `c.wsConn` and the one whose channel is in `c.disconnect`; between `Dial` and `Reset` they differ, as between client.go:853 and :857 |
| `disconnected`, `shutdown` | `c.disconnected`, `c.shutdown` closed |
| `socket` | each connection: not made, up, broken by the network, closed here |
| `requestMap`, `answers`, `failed` | `c.requestMap`; how many answers the channel of a request got, and which were errors |
| `notifyBlocks` | `c.ntfnState.notifyBlocks` |
| `sendChan` | `c.sendChan`, shared by all connections |
| `rpc`, `retryCount` | `wsReconnectHandler` |
| `ipc`, `isock`, `imsg` | `wsInHandler` of each connection: position, the connection it reads from, what it read |
| `opc`, `ogen`, `omsg` | `wsOutHandler` of each connection: position, the disconnect channel it waits for, what it took |
| `gpc`, `ggen`, `gmsg`, `copy` | the goroutines that issue requests: the owner, the robot's, and `resendRequests` of each connection |
| `wire`, `replies` | the node: requests that reached it, and those it answered, per connection |

A connection is a number and a request is named after the goroutine that issues
it (none issues two). `Break` and `Reply` are the network and the node; every
other action is a step of a goroutine between two accesses others can see:
`AddRequest`, `SendMessage`, `SendQueues`/`SendGivesUp`, `Receive` for a request;
`Reregister`, `CopyRequests`, `Resend` for `resendRequests`; `InTop` to `InExit`,
`OutTop` to `OutExit` for the handlers; `ReconnectWakes` to `Reset` for the
reconnect handler; `Watch` and `Shutdown` for the owner. What makes this component
hard is that nothing but the reconnect handler knows which connection a goroutine
belongs to: `c.wsConn`, `c.disconnect` and `c.sendChan` are fields every reader and
writer looks at anew, so goroutines of a lost connection that are late work on the
next one. `InTop`, `OutTop` and `SendMessage` are where such a look happens.

The order in which `resendRequests` sends is left open (the source keeps a list),
notifications the node sends by itself are left out (their handlers belong to the
robot), and a write to a broken connection may be lost silently (`OutLost`) or
fail (`OutError`).

### StratumSession and the code

| Variables | Code |
|---|---|
| `conn`, `ID`, `SubID`, `AuthID`, `Target`, `counted` | the fields of `Stratum` and `QitmeerStratum` (`Conn` with `Reader`, `Target` with `Diff`, `ValidShares + InvalidShares`) |
| `PoolWork` | `s.PoolWork`: `Nonce1`, `JobID`, the coinbase `CB`, the `Rest`, `Clean` |
| `cut` | `data` in `Listen` after a read error: nothing that parses, or a line that lacks its line feed only |
| `rpc`, `rid`, `rmsg` | the reader: `Listen`, `Unmarshal`, `handleNotifyRes`, `Reconnect`, `Subscribe`, `Auth` |
| `lpc`, `taken`, `copy` | the listener in `PoolGet` and `CopyNew`: position, `Work.PoolWork.JobID`, the copy |
| `newWork`, `dev`, `devTarget` | the device's channel, its work, the `TargetDiff` of its header |
| `spc`, `sjob`, `sid`, `shares` | the submitter in `PoolSubmit` and `PrepSubmit` |
| `line`, `in` | the two directions of each connection |
| `up`, `subscribed`, `poolJob`, `poolDiff`, `requests` | the network and the pool |

`JobDispatch` takes the pool's job as one value; this module shows how it gets there.
A text of `PoolWork` is the number of the notification that brought it, so a work
is whole when its numbers agree. The reader writes `JobID`, then the coinbase, then
the rest, then `Clean`; `PoolGet` looks, clears `Clean`, records the job, and `CopyNew`
copies field by field from the session. Each of these is a step.

The request numbers come from one counter without a lock: `x++` is a read and a
write, and `Increment` says what may be there afterwards. A text and its line feed
are two writes to the connection of that moment; the pool only understands a line that
is exactly one text. The pool is external: it answers a subscription with the extra nonce, the
difficulty and its job marked clean, and broadcasts later jobs, clean or not, difficulties
and requests of its own. `Unmarshal` makes of these a reply like any other (its default), so
`ReadReply` has them when they have a number and `ReadUnnumbered` ends the program when they have none
(`Running` is false from then on).

After a read error `Listen` reconnects first and then handles what `ReadString` had returned
with the error. That text is whatever came since the last line feed: nothing, a piece
that does not parse, or a message that lacks only its line feed. `Reconnect` chooses, and `Read`
takes `cut` before it goes on with the new connection (`Pending`).

### ShareLedger and the code

| Variables | Code |
|---|---|
| `templates` | the heights of the templates `Get` has had; the last is `Work.Block` |
| `pendingBlocks` | the keys of `PendingBlocks`; a coinbase is the number of its template, and its height, the value of the map, is that template's |
| `pendingShares`, `validShares`, `invalidShares`, `staleShares` | the counters of the robot |
| `pendingLock` | the holder of `PendingLock` |
| `subPC`, `subTx`, `subReg` | `SubmitWork`: position, the coinbase in hand, the counter it has read |
| `statPC`, `statTodo`, `statV`, `statReg`, `total` | `Status`: position, what the loop has still to visit, the key it is at, the counter it has read, the sum it prints |
| `rdPC`, `rdTx`, `rdEnough`, `rdReg` | the client's reader inside `OnTxConfirm` |
| `call` | the goroutine `common.Timeout` waits for |
| `connected`, `inbox` | `this.WsClient` is there and connected; what the node sent and the reader has not read |
| `taken`, `rejected`, `accepted`, `failed` | history: shares and what became of them |

This composes the robot's accounting with as much of the client as it feels:
`OnTxConfirm` runs in the reader (`ReadMessage`) and waits there for `PendingLock`, whose
holder waits in `Timeout` for an answer that only that reader can hand over.
`TimesOut` is the ticker of one second; the abandoned call's answer may still come
(`Answer("nobody")`). `x++` is two steps wherever another goroutine can write in
between. Both settling paths are there: `ConfirmSettles` from the node's notification,
`StatusRemoves` when the chain has outgrown a block by `NotConfirmHeight`. The node
sends confirmations in any order and number, for blocks never registered as well.

### AsicMiner and the code

| Variables | Code |
|---|---|
| `CurrentHeight` | `common.CurrentHeight` |
| `notifier`, `job` | the goroutine in `NotifyWork` and the height of the job it hands out |
| `newWork`, `HasNewWork`, `ForceStop`, `IsValid` | the fields of the device |
| `pc`, `Work`, `start`, `fd`, `reject`, `hasSubmit` | `Mine` and its variables |
| `chip`, `nonces`, `found` | `j` of the loop over the chips, the map of nonces of a round, the result in hand |
| `SubmitData`, `forwarder` | the channel and the goroutine that empties and closes it |
| `port`, `working`, `results` | the board: how often the port is open, the chips that have a header, what waits to be read |
| `sent`, `shares` | history: shares sent for the present headers, and for the present job |

A result says whether it solves the header its chip has *now*; `SetWork` takes that
from every result of the chip that still waits, which is what makes a late result
wrong. The ways out of `Mine`'s loops are actions of their own: `LeaveJob`
(flag or forced stop), `LeaveStale`, `LeaveEmpty`, `CloseBoard`, `Quits`, `InitDrvFails`,
`Panics`. The deferred function is part of each that ends `Mine`. The chips are external.

### StatsPage and the code

| Variables | Code |
|---|---|
| `request` | the Deferred of the request for `/miner_data` |
| `isReady` | `jQuery.isReady` |
| `isConnect`, `timers`, `sockets` | the flag of `reconnectServer`, the timers that will call it, the sockets not closed |
| `seriesData`, `shown`, `timespans` | the length of each history, the data drawn last, how many labels the axis has |
| `up` | the server can be reached |

A browser runs one handler at a time, so each handler is one action. A socket that
fails runs `onerror` and `onclose`, which arm two timers (`SocketFails`). Of numbers and
texts only the lengths of histories and of the axis are kept; `CalcDistance` is translated
as a function and is the subject of a theorem.
## What the runs check

Passing runs:

| Run | Instance | Properties |
|---|---|---|
| `dispatch_pool_pipeline` | pool, 1 device, 2 versions of the job, 5 shares, fair | `ShareOrder`, `ImplementsStream`, `SharesSettled`, `NewWorkStopsCalc`, `QuitStopsDevices` |
| `dispatch_pool_fanout` | pool, 2 devices, 2 versions, 1 share each | `EveryDeviceGetsTheJob`, `JobsMoveForward` |
| `dispatch_solo` | solo, 1 device, 1 handler, tip 2, 2 shares, forced stops, empty templates, undecodable blocks | `TypeOK`, `SubmitLockGuards` |
| `ws_requests` | the owner's request, 2 connections, the first may break, a queue of 1, fair | `TypeOK`, `OneAnswer`, `NothingWaitsAfterShutdown`, `ShutdownEndsAll` |
| `ws_reliable` | 2 issuers, 1 connection that lasts, a queue of 1, fair | `RequestsAnswered` |
| `pool_session` | 2 connections, 1 job, 2 shares, 1 request of the pool with number 2, 9 or none | `TypeOK`, `LoginNotCounted` |
| `pool_work` | 2 connections, 2 jobs, 2 difficulties, no share, fair | `CleanWorkArrives`, `DifficultyApplied` |
| `share_ledger` | 2 templates, 2 shares, 1 message under way, fair | `TypeOK`, `Balanced`, `PendingCovers`, `TotalNotInflated`, `NeverWraps`, `ImplementsLedger`, `ReaderProceeds`, `OutgrownLeaves` |
| `asic_miner` | solo, 2 chips, 2 wrong results end a board, 2 heights of which the second is empty, fair | `TypeOK`, `PortPaired`, `OnlySolutions`, `NoShareTwice`, `EmptyOnce`, `EndedInvalid`, `NewWorkStopsCalc`, `StaleWorkStops`, `QuitEndsMine` |
| `stats_page` | 2 names, lists of up to 2 devices, 10 points, 4 timers, fair | `TypeOK`, `OneSocket`, `TimerArmed`, `AxisFits`, `ComesBack` |

* `ShareOrder` — the number of a device's shares in the pipeline is what it found
  less what was settled, and their ranks rise from the submitter back to the
  miner: nothing is lost, sent twice or overtaken, whichever goroutine has exited
  or panicked. The run is in pool mode; the theorem has both.
* `ImplementsStream` — the same seen from outside: a queue of three per device, from which
  the ranks 1, 2, 3, ... leave in turn, and one submission at a time.
* `SubmitLockGuards` — submissions, handler rounds and their notifications exclude
  each other; the lock has no other holder, except after the `continue` of
  robot.go:253/258.
* `EveryDeviceGetsTheJob`, `JobsMoveForward` — pool mode: the fan-out of
  `NotifyWork` and the order of the channel.
* `SharesSettled`, `NewWorkStopsCalc`, `QuitStopsDevices` — liveness in pool mode.
* `OneAnswer` — the channel of a request has capacity one, and three parties send on
  it: a reader that took the request from the map, `Shutdown`, and the issuer itself
  when `addRequest` refuses. A request may be on several connections at once. It is
  answered at most once all the same, so nobody blocks on the channel, `Shutdown`
  with `requestLock` held least of all.
* `NothingWaitsAfterShutdown`, `ShutdownEndsAll` — after a shutdown the map is empty for
  good, and every handler of every connection, a reconnect or a resend under way and
  everyone who waits come to an end.
* `RequestsAnswered` — while the connection lasts, whoever issues a request gets its
  answer, through a queue that is too short for all.
* `LoginNotCounted` — the answer to `mining.authorize` is not counted as a share's, though
  answers are told apart by numbers only, which two goroutines take while the session is
  opened again. One answer is excepted, since the code does count it: the one that a read error
  cut off, which is handled when `AuthID` is already that of the next session. The converse
  is not claimed: a request of the pool with a number is counted, too.
* `CleanWorkArrives` — a clean job, and the current job after a new difficulty, reaches
  the device whole and with the nonce of the session. It holds because `Clean` is
  written last by the reader and cleared before the copy by the listener: a
  `PoolGet` that was misled by a new `JobID` is made to look again.
* `DifficultyApplied` — the target is written before `Clean` and read after the delivery;
  a request without a number, which ends the program, is the exception.
* `Balanced` — every accepted share is pending, confirmed or given up, exactly one of
  these, in whatever order the submitter, `Status` and `OnTxConfirm` come. `InvalidShares`
  cannot be part of the sum: it loses increments, so `failed` counts removals instead.
* `PendingCovers` — `PendingShares` may say more than `PendingBlocks` holds (two shares of
  one template), never less; with it `NeverWraps`: an unsigned counter two goroutines
  decrement does not go below zero.
* `TotalNotInflated` — the sum `Status` prints, read from four counters without a lock
  while blocks move between them, is never more than the shares taken. It depends on the
  order in which they are read.
* `ImplementsLedger` — the whole is a ledger that judges each open block once.
* `ReaderProceeds` — the circle between the holder of `PendingLock` and the reader is
  broken by the ticker of `Timeout`.
* `OutgrownLeaves` — whatever the connection and the node do, a block the chain has
  outgrown does not stay pending; a lost registration or an unanswered submission has no other end.
* `PortPaired` — the port is opened and closed in turn on all ways through `Mine`. That the
  driver is called only in between (`BoardReady`) is proved.
* `OnlySolutions`, `NoShareTwice`, `EmptyOnce` — of late, repeated, wrong and impossible
  results only solutions of the present header are submitted, each once, and of an empty
  template one.
* `EndedInvalid` — a miner that ended unasked is invalid, so that `SetNewWork` passes it
  over. It needs `FreqsParse`: the two returns of lines 167-176 leave the device valid.
* `NewWorkStopsCalc`, `StaleWorkStops`, `QuitEndsMine` (`AsicMiner`) — liveness; the second
  is the one that survives the loss of `HasNewWork`.
* `OneSocket`, `TimerArmed`, `ComesBack` — though each failure arms two timers, they never
  make two sockets, there is always one when there is no socket, and the page is connected
  for good when the server is.
* `AxisFits` — the axis never has a label without a point.

Runs that find the code at odds with what it says of itself (each is a finding in
`PROJECT.json`, with the line it quotes):

| Run | Property | What TLC finds |
|---|---|---|
| `solo_pipeline_jam` | `NewWorkStopsCalc` | submitter, miner and forwarder wait for each other for ever |
| `ws_request_lost` | `ReconnectHandlesRequests` | a late writer drains the queue of the next connection; the request waits for ever |

### Bounds

`MaxTip` and `MaxShares` bound what the environment does, nothing else. Five
shares fill the pipeline (submitter, forwarder, `SubmitData`, miner) with one to
spare, two versions of the job let one be mined while the next is announced or
waits in the channel, two devices show the loop of `NotifyWork`. One handler beside the listener and the submitter gives three
concurrent notifiers. `solo_pipeline_jam` needs all of two templates and four
shares: with three the pipeline never fills. Deadlock is not checked since the
program stops after an interrupt; the liveness properties find the standstills.
`WsClient`: two connections are a reconnect, and everything its properties speak of
is about a connection and the one after it; a third adds no new pair. One waiting
request is enough for a resend to meet its first send, and the resend of connection
2 issues one of its own. A queue of one is full as soon as somebody is late. The
theorems lift these bounds for the safety properties.

`StratumSession`: a property of it is about a job, a difficulty or a connection and
the next one, so two of each are enough. `pool_session` has two connections and two shares, whose
numbers meet those of a login in every order, and one request of the pool, whose number 2 is
that of the first login and 9 nobody's; one job and one difficulty, which its properties do not look at,
are enough there. `pool_work` has two jobs and two difficulties, but no share, because the submitter
writes nothing its properties look at, and no request, which would only end the program.

`ShareLedger`: two templates, of one height or two, and two shares give two blocks, or one
entered twice; each pair of the submitter, `Status` and the reader meets over one of them.
With `NotConfirmHeight` zero a block is outgrown by the next height. One
message under way is enough for a confirmation to come before, between and after the
answers. `MaxUint` is there to make a decrement of zero visible. The theorems lift all
of these bounds.

`AsicMiner`: two chips are the least that have a loop and results of each other; two
heights give a job that is stale, and the second is empty so that both kinds of template
are mined. A limit of two rejects stands for `NumOfChips * 1000`: the board is given up
at the second, in the round of the first or in a later one. One nonce and one result in
the port suffice for a late and for a repeated result, since a result may wait through
any number of steps. The run has solo mode; pool mode only removes `EmptyOnce`'s rule. The
theorems hold for both.

`StatsPage`: ten points as in the code; a list of two devices may have one name twice. Four
timers are two failed sockets before the first timer fires; the theorems lift the bound.

### Fairness

`FairSpec` gives strong fairness to every notifier and forwarder: a goroutine that
waits on a mutex or a channel is queued by the Go runtime in order of arrival, so
it gets its turn if the wait can end again and again. A miner only needs weak
fairness: nobody else takes from its `NewWork` or fills its `SubmitData`. The node
and the pool answer a submission because `RpcResult` has a timeout and a socket
write returns. Nothing is assumed about shares being found, the tip moving or the
user interrupting. `FairSoloSpec` adds that a template request repeated for ever
succeeds; it is used only where a property is *violated*, which a weaker
assumption would make too easy.
`WsClient`'s `FairSpec`: readers, writers, the reconnect handler and the shutdown are
goroutines that run when they can (weak fairness); issuers that wait for room in
`sendChan` are queued by the Go runtime (strong fairness); the node answers what
reaches it on a connection that lasts. A read with an answer or an error pending
returns. That a connection is made, that it lasts, that the program ends: none of
that is assumed.

`StratumSession`'s `FairSpec`: the three goroutines and the device run when they can, and
a dial succeeds in the end (`ConnectRetry` repeats it for ever). That the pool sends
anything, or that shares are found, is not assumed.
`ShareLedger`'s `FairSpec`: `Status` and the reader run when they can, and get
`PendingLock` in turn (strong fairness); the submitter gets out of `Timeout` by its ticker.
Nothing is assumed about the node, the connection or the calls.

`AsicMiner`'s `FairSpec`: `Mine` runs; its round ends, as a clock it looks at before each
result runs out (strong fairness of `LeaveListen`: results that keep coming do not
prolong a round); the forwarder gets rid of its share. The last is an assumption about the
submitter, and `solo_pipeline_jam` shows when it fails.

`StatsPage`'s `FairSpec`: the browser runs the script, the ready event and timers that are due,
and a socket to a server that is up opens.

## What is proved

`JobDispatchProofs` proves, for any number of devices and handlers, any tip and
any number of shares:

* `TypeCorrect`: `Spec => []TypeOK`, through `TypeInv`, which adds that the share in a
  forwarder's, channel's or miner's place is of that device and that a position that
  needs a share has one;
* `SharesKeepOrder`: `Spec => []ShareOrder`. `ShareOrder` is inductive with
  `TypeInv`: every hop moves a share one place towards the submitter into an empty place,
  so ranks stay ordered and the sum is unchanged;
* `SubmissionsExclude`: `Spec => []SubmitLockGuards`, inductive with `TypeInv`;
* `PoolReachesEveryDevice` and `PoolNeverGoesBack`: in pool mode
  `[]EveryDeviceGetsTheJob` and `JobsMoveForward`. The invariant is `PoolInv`:
  `PoolCalm` (only the listener notifies, nothing is ever forced), `PoolOrder` (the
  job mined is no newer than the one taken, that no newer than the one in the channel,
  that no newer than the copy about to be sent), `PoolFlag` (a miner that holds or
  waits for a job will find `HasNewWork` raised, so it never discards it) and
  `PoolFan` (the devices before the listener's position have the job). `PoolFlag` is
  what makes a lost wake-up harmless to the fan-out: the flag can be lost
  under a running hash loop, never for a miner that waits;
* `PoolNeverJams`: in pool mode `[]SharesNeverJam`, a share in the forwarder's hands waits
  for the pool's answer to the one before it and for nothing else. From `PoolCalm` and
  `PoolLock`: the submitter is the only one that takes `SubmitLock`. This is what
  `solo_pipeline_jam` shows to fail in solo mode, where the submitter notifies too;
* `PoolNeverIdles`: in pool mode `[]NobodyIdles`, inductive with `PoolInv`: while
  `HasNewWork` is raised a job is in the channel, in the listener's hands or in those of
  the miner that is about to begin it, and a miner that left a job has another coming. The flag is raised
  before the job is there and cleared by another goroutine, so neither is plain.

The proofs rest on the named assumptions of `JobDispatch` only. From the same `TypeInv`
`JobDispatchStreamProofs` proves `StreamImplemented`: `Spec => ImplementsStream`. A share is
appended to its device's queue by `Hit`, leaves it at the head by `ForwarderDrops` or `Receive`,
and is settled by `Judge`; `ForwarderTakes` and `Push` move it within the queue, and there
`TypeInv` has the place it moves to empty, so the concatenation is unchanged. From
the steps of `ShareStream` alone follows `NoShareIsSkipped`: the ranks of the shares on
their way are consecutive and end with the last one found.
`WsClientProofs` proves, for any number of connections and issuers and any queue:

* `TypeCorrect`: `Spec => []TypeOK`, through `TypeInv`, which adds that a handler that has
  not given up has failed less than three times in a row;
* `AtMostOneAnswer`: `Spec => []OneAnswer`. The invariant `AnswerInv` says where a request
  can be: not yet issued (`Fresh`), in the map, in the hands of exactly one reader
  (`Deliveries`), answered. `Fresh` needs that no goroutine goes back to before
  `addRequest`, hence `Unmade`: the numbers of connections not yet made have no
  goroutine. Four actions move a request; for all others `QuietStep` is enough;
* `ShutdownEmptiesMap`: `Spec => []NothingWaitsAfterShutdown`, inductive by itself;
* `ConnectedAlwaysServed`: `Spec => []ConnectedIsServed`, from `TurnInv`. Readers and writers of older
  connections may still run and call `Disconnect`; it does nothing to a later connection,
  because the reconnect handler makes one only while the client is disconnected,
  and what it has not started does not run yet;
* `NobodyIsForgotten`: `Spec => []NobodyForgotten`, from `WaitInv` with `AnswerInv`: a request
  is *kept* (in the map, with a reader, or answered) as long as its goroutine waits; a
  goroutine that sends the waiting requests again is past its own, which is not among them
  (`PastOwn`).

`StratumSessionProofs` proves, for any number of connections, jobs, difficulties, shares and
requests of the pool:

* `TypeCorrect`: `Spec => []TypeOK` through `TypeInv`, which adds what the pool sends (`Sent`)
  and that the rest of `PoolWork`, once set, stays set while the listener is past its test;
* `LoginNeverCounted`: `Spec => LoginNotCounted`, from `LoginInv`. While the reader logs
  in on a connection, that connection carries no `mining.authorize` and no answer to one,
  whatever the submitter writes on it meanwhile; after that both carry `AuthID`, because
  the number is recorded before the text is written; a connection still to be made is
  silent. The proof reads each action as one of four ways to treat the connection
  (`SessionKept`, `SessionWrites`, `SessionAnswers`, `SessionTold`) that let the set of expected messages
  only grow (`Goes`);
* `CleanJobAlwaysArrives`: `Spec => []CleanJobArrives`, from `WholeInv`. The reader writes
  `PoolWork` in groups and sets `Clean` last, the listener clears it first and then copies
  field by field, neither with a lock. `Uniform` says how far the reader is, `CopyInv` that what the
  listener copied since it cleared the mark is of the job announced;
* `JobsNeverGoBack`, from `OrderInv`: the notifications the reader has still to handle
  (`Pending`: the cut line, then those of its connection) are in the order of their jobs
  (`InOrder`), and the first is not older than `PoolWork`; a new connection
  begins with the pool's last job, and only a clean one can come twice;
* `TargetAlwaysArrives`: `Spec => []TargetArrives`, from `TargetInv` with `OrderInv`. With
  jobs in order, a job number other than the one taken stays different until the listener
  takes it; so a notification that is not clean, and clears the mark
  `Unmarshal` set, brings a job that is taken instead.

`ShareLedgerProofs` proves, for any number of templates, shares and messages:

* `TypeCorrect`: `Spec => []TypeOK` through `TypeInv`, which adds `LockInv`: who is at which
  position holds `PendingLock`, and what `Status` has still to visit is still pending, as
  nobody else may remove it meanwhile;
* `CountsBalance`, `CountCovers`, `CountNeverWraps`: from `CountInv`, in which the share that
  the reader has taken out of the books and not yet counted (`Hand`) has its place; the
  counter covers the map *with* the hand, hence every decrement finds it positive.
  The lemma `PendingSizes` says what adding and removing do to the size of the map;
* `TotalSound`: from `SharesInv` (the counters with increments under way never exceed the shares
  judged) and `TotalInv`: the sum is bounded at each read by a sum of counters that only grow;
  a share moves against the order in which `Status` reads, so that none is read twice;
* `LedgerRefined`: `Spec => ImplementsLedger`, by `TypeInv` and the kinds of step of the lemma
  `Steps`.

`AsicMinerProofs` proves, for any number of chips, heights, nonces, results and rejects, in
both modes:

* `TypeCorrect`, `PortAlwaysPaired`, `BoardAlwaysReady` from `TypeInv`, `TypeOK` with
  `PortInv`: the port follows `fd`, and `fd` follows `start`;
* `EndedAlwaysInvalid`, inductive with `TypeInv`;
* `EmptySubmittedOnce` from `EmptyInv`: a share of an empty template goes out only while
  `hasSubmit` is not set, and that is cleared with the count only;
* `OnlySolutionsSubmitted` from `SolveInv`: what waits in the port and solves is of a chip at work;
* `NoShareSentTwice` from `TwiceInv`: what was sent for the headers given out is among the
  nonces of the round, and while the chips get new headers the nonces are empty, and so are
  the shares of the chips served;
* `FlagAlwaysMeansWork` from `FlagInv`: a job is left for the flag only when the next one is
  in the channel or in the notifier's hands; after a forced stop, which drops a job with its
  flag up, the next notification brings a job before anything can be mined.

`StatsPageProofs` proves, for any number of devices, points and timers and lists of any length:

* `OneSocketAtMost` and `TimerAlwaysArmed`, which are inductive together (`PInv`);
* `TypeCorrect` and `AxisAlwaysFits`, from `PageInv`. The loop of `renderStats` over the list
  of devices is the recursive function `Drawn`; the library's induction theorem cannot
  be instantiated, so the lemmas argue with the least counterexample: `LeastElement` (from the
  well-foundedness of `<`) gives the first pass after which a claim fails, and one pass
  (`AddSampleKeeps`) shows that it cannot be. `DrawnPasses` is why the function is defined,
  `PassesFit` that after `n` passes the axis has no label which one of the first `n` devices lacks;
* `DistanceAddsUp`: for a positive whole number of seconds the days, hours, minutes and
  seconds of `CalcDistance` add up to it, also at sixty minutes and twenty-four hours, which
  the code does not carry over.

Every invariant and every action property of the passing runs is a theorem. Only
model-checked: liveness under fairness, which the prover does not do (the
leads-to properties of every module, `ComesBack`), and what the violation runs show. Of
several of them the theorems have the part that is about states: that what
is awaited is on its way, or that whoever has to move can. `CleanJobAlwaysArrives` is that part of
`CleanWorkArrives`, `TargetAlwaysArrives` of `DifficultyApplied`, `NobodyIsForgotten` and
`ConnectedAlwaysServed` of `RequestsAnswered` and `ShutdownEndsAll`, `PoolNeverJams` of
`SharesSettled`, `PoolNeverIdles` and `FlagAlwaysMeansWork` of `NewWorkStopsCalc`. That
the goroutines concerned get their turn is left to TLC.

## What is not modelled

* The C driver of the ASIC boards and the serial port: byte-level I/O. `AsicMiner` has
  the board's side of it as an environment.
* Block construction (coinbase, header, merkle tree) and the conversions: computations
  of a single goroutine on bytes, hashes and 256-bit numbers; nothing interleaves with
  them, and a model would repeat them character by character.
* The client's POST mode and the mode without reconnection: the miner chooses neither
  (`HTTPPostMode` is never set, `DisableAutoReconnect` neither).
* The hashrate statistics, option parsing, logging and the HTTP exchange itself.
* `public/js/jquery.js` and `public/js/echarts.js`, third-party libraries that make up
  nearly all JavaScript of the repository: of jQuery the models have what the page stands
  on, the ready event and the outcome of a request. The page's hidden buttons are left
  out.
* Devices switched off with the list of devices to use (`NumDevices` counts those
  enabled).
* Two goroutines of the node client in the middle of a write on one connection (the writer of
  a lost connection uses the field `c.wsConn`, client.go:780, and may find the next one
  there): the websocket library may panic, which ends the program. The writes of `WsClient`
  are single steps; its safety properties hold of every run up to such an end.
* Go's memory model beyond the order of single accesses: a flag read and written without
  a lock is taken to have its last value.

Things seen while modelling that no property claims otherwise, so that no run shows
them: a forced stop before the first template hands the devices a work without a block,
on which the CPU `Mine` panics and ends; `Get` keeps `Ing` set while it sleeps, and a new
block that comes meanwhile is forgotten until the next; a stratum job that is not clean
may stay on the device half old and half new; a request of the pool (`client.get_version` and
the like) that has a number is counted as a rejected share, and one that has none ends
the program with a panic (stratum.go:166, 469); the line that a read error cut off is handled
after the reconnect, so that the answer to an earlier `mining.authorize` may be counted as a
share (core/stratum.go:131); a frequency that is no number ends an ASIC
miner whose device stays valid. All are in the "hazards" of `PROJECT.json`.

## Plan

1. `JobDispatch`, its refinement and its theorems (done).
2. `WsClient` and its theorems (done).
3. `ShareLedger` with `BlockLedger`, its composition with the client's reader, and their
   theorems (done).
4. `AsicMiner` and its theorems (done).
5. `StatsPage` and its theorems (done).
6. `StratumSession` and its theorems (done; its shutdown is left).
7. Theorem: `JobDispatch` implements `ShareStream` (done).
8. Theorems on what the liveness properties rest on (done for `WsClient`, `StratumSession`,
   `JobDispatch` in pool mode, `AsicMiner`).
9. Several clients at once, when the owner replaces one without a shutdown (robot.go:389).
