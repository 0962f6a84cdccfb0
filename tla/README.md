# Verification of tx-dtc

tx-dtc is a distributed transaction coordinator for Spring applications, in the
style of LCN: the applications (transaction clients, **TC**) hold their database
connections open until the transaction manager (**TM**) tells them how the group
they belong to has ended. This directory holds TLA+ models of its parts, the TLC
configurations that check them, and theorems that TLAPS checks.

Contents

1. The system: components, state, operations, interactions
2. Modules, and how they correspond to the code
3. Runs: what each checks, its bounds, what it shows
4. Fairness
5. Proofs
6. Findings
7. What holds only without certain faults
8. What is not modelled
9. Plan

How to check: `tlc -config lcn_calm.cfg MCLcnProtocol.tla` and likewise for the
other runs of section 3; `tlapm LcnProtocol_proofs.tla` and likewise for the other
`*_proofs` modules.

## 1. The system

| Component | State it keeps | Operations | What makes it correct |
|---|---|---|---|
| Transaction client (`tx-tc`): `XLTransactionManager`, `TransactionServiceExecutor`, the `control` and `service` classes, `TransactionMsgSenger` | the group's context on the thread; delay tasks by group and unit | begin, join and end of a transaction; notify-unit handler; delay task | every open connection is settled by the group's decision, or rolled back |
| Connection proxy and cache (`ConnectionProxy`, `TcCache`, `SqlDataSourceManager`) | one proxy per group and process in a cache of 64 entries | look up, open, commit or roll back by state, drop | an outcome is final; no commit without a decision |
| Group handlers of the TM (`tx-tm`, `service/transation`, `LCNTransactionManager`) | the decision and the units still to notify, in a handler's frame | create-, join-, notify-, clean-group, ask-transaction-state | a failed unit stops the commit; the decision reaches every unit |
| Redis storage (`RedisStorage`) | per group: a hash of units with a time to live, a state key; the list of TMs; the list of admin tokens | single Redis commands, each of which may throw | entries go away by themselves; the list names the TMs that run |
| RPC request pool (`tx-netty`: `RpcCmdContext`, `RpcContent`, `NettyRpcCmd`, `ReciveDataHandler`) | a map from request keys to slots, a free list, a mark and an answer in each slot | take a slot, await, load, clear; key lookup and store of an answer | a caller gets its own answer; slots are exclusive and come back |
| Request keys between processes (`NettyRpcCmd.randomKey`, `ReciveDataHandler`) | the keys each process waits with; the messages under way | draw a key, send; take a message for an answer, handle it as a request, or drop it | a caller gets the answer of the process it called to its own request |
| Channels (`SocketManager`, `NettyRpcClientInitializer`, `NettyClientRetryHandler`, the channel handlers) | channel group, names by address, the lock of `connect`, worker groups | connect, reconnect, activate, lose, name, delayed removal of a name | attempts to connect end; a registered module can be reached |
| TM cluster and registration (`TMAutoCluster`, `ManagerServiceImpl`, `TCRpcConnectInitCallBack`, `AutoTMClusterEngine`) | the list in Redis; per TM the ones it still asks | start, announce, delete, list, stop; register, search | running TMs are listed and clients connect to them |
| Transaction context and tracing (`TransactionLocalContext*`, `tx-tracing`) | a `ThreadLocal` per pooled thread | build and read the group header; push and clear the context | work is done for the group that called; threads are clean afterwards |
| Ids (`SnowflakeIdWorker`, two copies) | last time, sequence | `nextId` | ids strictly increase |
| Load balancing (`RandomLoadBalance`) | none: it reads the channel group | a random channel per call | the handlers of a group may run in several TMs and agree through Redis |
| Admin console (`static/admin/js/index.js`, `AdminServiceImpl`, `DefaultTokenStorage`, `TokenInterceptor`) | in each tab a token in `sessionStorage` and a route; the token list in Redis | login, request with a token, answers and 401, exit; save, trim and look up tokens | a live session lasts, a dead one ends, no tab comes to a page without a token |
| Exception log, the pages that show rows, serializers, configuration, demo | log rows, beans | pages, rows, wiring | not modelled, see section 8 |

**Interactions.** A TC thread sends create-, join- and notify-group over a channel
and waits for the answer in a slot of the request pool; the TM handles each message
on a pool thread and each Redis command is a step of its own. notify-group makes the
TM call notify-unit at every unit, over the first channel that carries the module's
name; the unit's handler settles the cached connection, stops the delay task, cleans
the cache and sends clean-group. The delay task of a unit asks the TM for the state of
the group when nothing was heard for `dtxTime`. Between applications the group id
travels in an HTTP header. The tabs of the console call the TM over HTTP, each request
with its token.

**What is hard.** Request threads, TM pool threads, netty event loops and delay tasks
interleave on one cache entry, one group hash, one slot and one lock. Waits end without
an answer, answers come late, processes stop between any two steps, Redis fails, keys
expire, the cache drops entries in use, and failures of later steps are swallowed. The list of
hazards, each with its line and its properties, is in `PROJECT.json`.

## 2. Modules

```
TxGroup ---+--- TxClient ----+
           |                 +--- LcnProtocol --- MCLcnProtocol     RpcPool
           +--- TxManager ---+        |                             Snowflake --- RpcKeys
                     GroupOutcome <---+ (refinement)                ThreadContext --- MCThreadContext
                                                                    RpcChannels --- TmCluster
                                                                    AdminConsole
```

Each has a `*_proofs` module where section 5 lists theorems; LcnProtocol has a second one,
**LcnGroup_proofs**, which extends the first. A definition with the
comment `\* variant:` is a plausible wrong version of the definition after it. It is
used by no specification, only to see that a property notices the difference.

**TxGroup** declares the state of one group as the processes hold it, and its types.
A *party* is one execution of `XLTransactionManager.runTransaction`: the initiator's or
a unit's. `pc`, `result`, `calling` are the threads; `wrote`, `conn`, `cache` the
connections and `TcCache`; `timer` the delay tasks; `create`, `join`, `notify`,
`unitMsg`, `clean` the state of each RPC call (sent, where its handler stands, replied,
or dead with its process); `group`, `members`, `vetoed` the two Redis keys;
`decision`, `toNotify`, `waiting` the frame of the notify-group handler. `Faults` names
what the environment may do in a run.

**TxClient** has the steps of `tx-tc`. Begin: `BeginTransaction`, `GroupCreated`,
`CreateFails`. Business: `CallUnit`, `CallReturns` (a fallback may hide a failed call),
`UseCachedConnection`, `MissConnection` and `OpenConnection` (lookup and put are two
steps, so two threads may both miss). End of the initiator: `EndInitiator`,
`NotifyAnswered`, `NotifyUnanswered`. End of a unit: `EndUnit`, `JoinRefused`,
`ScheduleCheck` and `RegisterCheck` (a task runs before it is put into `delayTasks`).
notify-unit: `UnitActs`, `StopCheck`, `UnitCleansCache`, `UnitReplies`, the four effects
of `TransactionNotifyServiceImpl.execute` in their order. Delay task: `CheckFires`,
`CheckUnanswered`, `CheckActs`, `CheckCleans`. Environment: `EvictConnection`,
`ClientCrashes`. `Settle(i, d)` is `ConnectionProxy.commit(state)` on the connection
cached in process `i`, with its `isClosed` check and its swallowed exceptions.

**TxManager** has the handlers of `tx-tm`, one Redis command per step: `PutGroup`,
`SetGroupTtl` (create-group); `SaveVeto`, `FindGroup`, `PutUnit` (join-group; hasKey and
put are two commands); `Decide`, `FindUnits`, `NotifyUnit`, `UnitAnswered`,
`ReplyDecision` (notify-group); `ClearGroup`; `AnswerState`; `GroupExpires`,
`StateExpires`, `ManagerCrashes`, `RedisThrows`. Setting a state key and its time to live is
one step: nothing reads the time to live. `RedisThrows` ends a handler at the command that
failed, which may have taken effect before; its answer, a failure, is what the caller makes
of it: create- and join-group take any answer for consent, so the initiator goes on from a
create that `failed`, whatever of the entry is there; notify-group throws, a delay task goes on
as without an answer. *Several TMs* need no state of their own: all the group's data
is in the one Redis, so a random channel for each call (`RandomLoadBalance`) only means that
the handlers of one group may be in different processes. `ManagerCrashes` therefore takes any
of the handlers that are at work and leaves the others.

**LcnProtocol** composes the two sides, states fairness and the properties.
**GroupOutcome** is the abstract specification: one decision, commits only after it and
by it, final outcomes. `ImplementsGroupOutcome` maps its `verdict` to `decision` and its
`outcome` to `conn`. **MCLcnProtocol** gives deployments: units in processes of their
own, in one shared process, one of them in the initiator's process, or in two replicas
of one module.

**RpcPool** models one process's request pool. `TakePooled`, `TakeFree`, `TakeExtra` and
`TakeFails` are the branches of `addKey`; `Send`, `CheckAnswer`, `WaitEnds`,
`LoadResult`, `ClearUsed`, `ClearRes` the caller (the two writes of `clear` are two
steps); `FindSlot`, `ReturnSlot`, `RemoveKey`, `StoreAnswer` the netty thread that has
the answer. `addKey` is synchronized and one step.

**Snowflake** models `nextId` of each process: a new millisecond, the same millisecond,
an overflow and its wait, clocks that are set at any time. An id is its time and
sequence, because worker and datacenter are 0 in every process.

**RpcKeys** puts a worker into each process and lets clients and managers call each other
with its ids as keys. `Call` is `randomKey` and the send. A message is told to be an answer
by one thing only, that its key is in the receiver's map: `TakeAnswer`, `Handle` (the
services answer over the channel the request came on) and `Discard` (no service has the
command type of an answer) are the three branches of `ReciveDataHandler`. The recursion of
`randomKey` on a key that is in the map already is not a branch of its own: it would return the
key it was called for, and cannot happen while the ids of a process increase. The order of the
messages on one channel is left open, which only adds behaviours. What becomes of slots, and
of answers that a handler never sends, is RpcPool's matter.

**ThreadContext** models the `ThreadLocal` of pooled request threads. `UserRequest` and
`RemoteCall` are `preHandle` with and without a header; `RunTransaction` and
`EndTransaction` are the two halves of `runTransaction` around the business call, nested
up to `MaxDepth`; an end may throw, and then skips the clean-up, as the `finally` block
does. `GiveUp` is a Feign or RestTemplate call that times out at its caller: the caller
goes on, to a fallback or an exception, while the thread that was called works on and is
nobody's to wait for (an `Orphan`). `shown` is a history of what applications did so far
(nested, repeated, plain requests, failed ends).

**RpcChannels** models the channels between clients and managers. `ConnectHost` is
`connect` called by `init`, on a client's starter or on the thread that registers a
channel; `ReConnect` the same method called by `channelInactive` on the event loop of a
lost channel. `lock` holds what the caller inside `connect` waits for and, if it is an
event loop, which. `loop` gives each channel an event loop in turn (`Dial`), `NewGroup`
the new worker group of every `init`. An event loop inside `channelInactive` serves no
other channel of its own (`Busy`). `Activate` enters the channel in the channel group
and starts the thread that registers it (`Register`, `Registered`, `Searched`). On the
manager's side: `BindName`, `CloseChannel`, `PurgeName` (the delayed removal of a name),
`ManagerEnds`.

**TmCluster** extends it with the list in Redis and the life of managers:
`StartManager`, `Bind` (not awaited by the code), `FindManagers`, `AskManager` (the HTTP
request to a listed manager, which announces the new one to all its channels, refuses,
or fails otherwise), `DeleteCondemned` (a refused request and the deletion that follows
it are two steps), `SaveManager`, `StopManager`, `AnswerCluster`, `HearOfManager`.

**AdminConsole** models the sessions of the console. A tab is at the login page, at the detail
page of a row (`/MonitorDetail`), or at one of the other pages, which `/` stands for. In the
browser: `OpenLogin`, `Exit`, `OpenPage` and `OpenWithoutToken` (what a route mounts, and the
request it makes with the token of that moment), `UsePage` (a page turned or a button pressed;
on the detail page also `Delete`, the deletion of its row), `SendPassword` (the button, or Enter
on any page, as a login page never removes its key listener), `LoginAnswered`, `CallAnswered`,
`RowDeleted` (which goes to the list of tasks), `Answered401`. A 401 always removes the token,
in `me()`; the way to the login page is each caller's own, and all take it but the deletion of a
row, which passes an empty callback (`quiet`) and leaves the tab where it is. In the TM, one Redis
command per step: `RefusePassword`, `PushToken`, `ExtendLife`, `CountTokens`, `DropOldest`
(`AdminServiceImpl.login` and `saveToken`); `RefuseNone`, `ReadSize`, `Verify`
(`TokenInterceptor.preHandle` and `findTokens`, which reads the size and then a range that
holds one token more); `RedisThrows`, `ListExpires`. Tokens are numbered in the order of their
pushes. `since` and `overtaken` are a history: how many were pushed between the two reads.

## 3. Runs

Units may be apart (a process each), shared (one process for both) or nested (`u1` in
the initiator's process, on its connection, and `u2` apart). `swallow` stands for a
caller whose fallback hides the failure of a unit, an ordinary use of the framework and
the case that makes the veto matter.

| Run | Instance | Distinct states | Checks |
|---|---|---|---|
| `lcn_calm` | 2 units, nested; swallow, error | 16 000 | `Atomic`, `EndedGroupHoldsNothing`, `DecisionReachesUnits`, `InitiatorSettles`, `CheckConfirmsDecision` |
| `lcn_shared` | 2 units, shared; swallow, slow, offline, dbFail, evict, tcCrash | 995 000 | `TypeOK`, `FailedUnitVetoes`, `CommittedWorkIsDone`, `GroupHasTtl`, `ImplementsGroupOutcome` |
| `lcn_settle` | 1 unit, apart; swallow, httpTimeout, rpcTimeout, slow, expire, offline, tcCrash, tmCrash, redis | 130 000 | `UnitsSettle`, `ImplementsGroupOutcome` |
| `rpc_pool` | 3 requests, 2 at a time, `CacheSize` 1, 2 slots; timeouts, lost answers | 226 000 | `TypeOK`, `ExclusiveSlots`, `SlotsComeBack`, `CallsReturn` |
| `rpc_keys` | 1 manager, 1 client, `SequenceLimit` 2, `MaxTime` 3, `MaxIds` 3 | 1 534 000 | `KeyTypeOK`, `IdsIncrease`, `OwnAnswers`, `AnswersUnderWay` |
| `console` | 2 tabs, 2 calls at once, `MaxTokens` 2, `MaxPushes` 3; expire, redis | 1 443 000 | `TypeOK`, `NewestTokensKept`, `NoTokenNoPage`, `LiveSessionsStay`, `DeadSessionsEnd` |
| `ctx_threads` | 3 threads, 4 contexts, `MaxDepth` 2, symmetric | 1 365 000 | `TypeOK`, `ContextsAreConfined`, `WorksForCaller`, `NotifyIsLast`, `CleanAfterOrdinaryEnds` |
| `cluster` | 1 client, 2 managers (1 configured), `MaxPort` 2, 1 event loop per group, 1 trouble, 2 starts | 135 000 | `TypeOK`, `ReadyIsListed`, `RegistrationStands`, `ToldIsReached`, `LostChannelsReturn` |
| `lcn_replicas` | 2 units in 2 replicas of a module; swallow | | `DecisionReachesUnits` is violated |
| `rpc_stale` | as `rpc_pool`, no timeouts, no losses | | `OwnAnswer` is violated |
| `cluster_new` | 1 client, 2 managers (1 configured), 3 ports, 2 loops, no trouble | | `NewManagersAreReached` is violated |
| `cluster_lock` | 1 client, 3 managers (all configured), 3 ports, 2 loops, 1 trouble | | `AttemptsEnd` is violated |

**What they show.** `lcn_calm`: with no fault but failing business code, every
interleaving of threads, handlers and delay tasks ends all or nothing, no connection stays
open once the group has ended, and the initiator always gets to its end. `lcn_shared`: two
threads that race for one cache entry, delay tasks that run early, modules the TM cannot
reach, refused commits, evictions and processes that stop never make a group commit that a unit
failed in, unless that unit's process stopped before it had reported, nor commit unfinished
work; and only the late join of a unit whose initiator has stopped leaves a hash without a time
to live, after the decision. `lcn_settle`: whatever
crashes, expires, throws in Redis or goes unanswered, the connection of a unit is settled in
the end, and the group still has one decision. `rpc_pool`: slots are exclusive and come
back, and every call returns. `rpc_keys`: ids increase through sequence overflows and clocks that go back; a
caller gets its own answer, and no answer is lost, unless the other end of a channel has drawn
the same key. `console`: with K calls at once the newest `MaxTokens` + 1 - K tokens survive
concurrent logins; whatever order answers come in, no tab comes to a page without a token, and
only the 401 to the deletion of a row leaves one there; a live session ends only for the reasons
its property names, and a dead one that asks for anything else ends at the login page.
`ctx_threads`: contexts stay on their threads; a group that has been notified is at work only
behind a call that timed out; the other properties hold as long as applications stay within what
they name (no throwing end, no nesting; for `WorksForCaller`, no repetition either).
`cluster`: a manager in its first life stays listed, an answered registration stands with
its channel, a client reaches every manager it has been told of, and a lost channel to
a manager that is up is replaced.

**Bounds.** Two units are the fewest that can race for one cache entry, disagree, or be
notified at different times; a third adds no new kind of pair, and all LCN properties
speak of at most two parties. One unit suffices for `UnitsSettle`, which is about one
connection; with all the faults it is also the widest search. (Its two properties also hold
with two units, apart, under {swallow, redis, tmCrash} and under {swallow, redis,
rpcTimeout}: 469 000 states at most.) Three requests on a pool of
one, two of them active, give a slot a late answer, a new owner and a caller outside the
pool at once. A sequence limit of 2 overflows in every
millisecond that gets three ids; two processes at the two ends of a channel are the fewest
that can confuse keys, and the same checks pass with a second client (`MaxTime` 2, `MaxIds` 2,
2.5 million states). Two logins at once are the fewest that can find the list too long
together, three pushes the fewest that can overtake a check by two and drop what it looks for.
The code keeps 3 tokens (`RedisStorage:206`), the run 2, so that three pushes reach the limit;
the theorems hold for any number. By the same bound the list expires only before the last push.
Three threads and depth 2 let a thread serve a call while its caller waits and a third
serves another group. A manager that starts twice is the least that can be deleted late;
one trouble (a broken link, a crash, a wait that times out) is the least at which
reconnecting happens. `LostChannelsReturn` has an exception for a client that has no port
left in the bound (`PortsUsedUp`); it holds without that exception with `MaxPort` 3 and
`MaxStarts` 1 (441 000 states). `MaxStarts`, `MaxPort`, `MaxTroubles`, `MaxTime`, `MaxIds`,
`MaxActive`, `MaxPushes` and `MaxDepth` bound counters that the code leaves open; each is
in the guard
of the action that counts.

**Deadlock** is not checked: a run models one group, or a bounded number of starts, ids,
requests, logins or troubles, and each of these behaviours ends. That nothing ends too early is
what the liveness properties say. **Symmetry** is used in `ctx_threads` only, whose
properties are all safety.

## 4. Fairness

*LcnProtocol.* Weak fairness for each actor on its own: the initiator's thread, each
connection, each unit's thread, each join handler, the create and the notify handler, each
unit's notify handler, each delay task. They run on pools that
one group cannot exhaust (Spring's request threads; `ServerRpcAnswer` and
`ClientRpcAnswer`; the scheduler of `TransactionChecking`, with two threads per processor),
no lock is held over a wait, and each wait for an answer has a time limit
(`Condition.await` in `RpcContent`). A wait
therefore ends, with the answer or, where it is lost or late, without. No fairness is given
to a fault, an expiry, an eviction or a crash: no property counts on one.

*RpcPool.* Weak fairness for the steps of each caller after it has a slot, and for each
netty thread that has an answer. A request need not arrive, and an answer may be lost: the
end of the wait is then what lets the caller return, as the timeout in `await` does.

*TmCluster.* One weak fairness condition on `SystemStep`. Every behaviour is finite
(starts, channels and troubles are bounded), so no part of the system can run for ever
while another waits for its turn, and the one condition gives each its turn. Processes that
start or stop, links that break and waits that time out are the environment's and never
forced.

*AdminConsole.* Weak fairness for what becomes of each call: request threads of the TM
handle it, and the tab handles its answer. What users open, type and leave is up to them, and
expiry is not forced. RpcKeys, Snowflake and ThreadContext state no liveness and no fairness.

## 5. Proofs

All are for arbitrary constants that satisfy the modules' named assumptions: any number of
units and any deployment, any pool size and number of requests, any clocks, threads,
clients, managers, tabs and calls. Where a property of the protocol needs it, a theorem has a
hypothesis on `Faults`, and on the deployment that `NotifiedAtHome`: the TM's notification
goes to the process that runs the unit, which is so unless a module has replicas.

| Hypothesis | What may still go wrong |
|---|---|
| `JoinsInTime` (`VetoHolds`) | swallow, error, slow, offline, dbFail, evict, tcCrash |
| `NothingBreaks` | swallow, error, channel, evict |
| `JoinsReachTheTM` | swallow, error, dbFail, tcCrash, tmCrash |
| `UnitsHearTheTM` | swallow, error, channel, tcCrash |
| `CallsAreAnswered` | swallow, error, channel, dbFail, evict, tcCrash, tmCrash |
| `EndsAreReported` | all but error, httpTimeout, channel |
| `~Fault("expire")` (`EntryExpires`) | all but expire |

Each of these sets may occur together, and deployments with shared and nested processes
satisfy `NotifiedAtHome`. Before each invariant was proved, TLC checked it with two units,
apart, shared and nested, under the whole set of its faults.

| Theorem | Says | Rests on |
|---|---|---|
| `LcnProtocol_proofs!TypeCorrect` | `Spec => []TypeOK` | |
| `Implementation` | `Spec => ImplementsGroupOutcome`, every set of faults | `DecisionInv` |
| `VetoHolds` | `Spec => []FailedUnitVetoes` if `JoinsInTime` | `VetoInv`, `DecisionInv` |
| `LcnGroup_proofs!AllOrNothing` | `Spec => []Atomic` if `NothingBreaks`, `NotifiedAtHome` | `AtomicInv`, `CheckInv`, `SavedVeto` |
| `NothingLeftOpen` | `Spec => []EndedGroupHoldsNothing` if `JoinsReachTheTM`, `NotifiedAtHome` | `EndInv`, `ConnInv` |
| `CommitReachesUnits` | `Spec => []DecisionReachesUnits` if `UnitsHearTheTM`, `NotifiedAtHome` | `ReachInv`, `ConnInv` |
| `CheckIsRight` | `Spec => CheckConfirmsDecision` if `CallsAreAnswered`, `NotifiedAtHome`, no tmCrash | `CheckInv`, `RegisterInv` |
| `WorkIsDone` | `Spec => []CommittedWorkIsDone` if `EndsAreReported` | `WorkInv`, `WritesInProcess` |
| `EntryExpires` | `Spec => []GroupHasTtl` if no expire | `EntryInv` |
| `RpcPool_proofs!PoolTypeCorrect` | `Spec => []TypeOK` | `CallerHasSlot` |
| `SlotsAreExclusive` | `Spec => []ExclusiveSlots`, timeouts and losses included | `SlotInv` |
| `SlotsAreNotLost` | `Spec => []SlotsComeBack` | `ReturnInv` |
| `Snowflake_proofs!IdsAreIncreasing` | `Spec => []IdsIncrease` | `IdInv` |
| `RpcKeys_proofs!KeysTypeCorrect` | `KeySpec => [](KeyTypeOK /\ IdsIncrease)` | `KeyInv` |
| `KeysOwnAnswers` | `KeySpec => []OwnAnswers` | `KeyInv` |
| `KeysAnswersUnderWay` | `KeySpec => []AnswersUnderWay` | `KeyInv` |
| `ThreadContext_proofs!ContextTypeCorrect` | `Spec => []TypeOK` | |
| `Confinement` | `Spec => []ContextsAreConfined` | `UsedExist` |
| `CleanPool` | `Spec => []CleanAfterOrdinaryEnds` | `OrdinaryEndsClear` |
| `WorkIsForCaller` | `Spec => []WorksForCaller` | `ServesHeader` |
| `NotifiedAtLast` | `Spec => []NotifyIsLast` | `GroupInv`, `CallsAreRanked` |
| `TmCluster_proofs!ClusterTypeCorrect` | `Spec => []TypeOK` | `ChannelInv` |
| `RegistrationsStand` | `Spec => []RegistrationStands` | `ChannelInv` |
| `ReadyStaysListed` | `Spec => []ReadyIsListed` | `ListInv` |
| `AdminConsole_proofs!ConsoleTypeCorrect` | `Spec => []TypeOK` | `TypeInv` |
| `ConsoleNoTokenNoPage` | `Spec => NoTokenNoPage` | `PageInv` |
| `ConsoleNewestTokensKept` | `Spec => []NewestTokensKept` | `CountInv` |
| `ConsoleLiveSessionsStay` | `Spec => LiveSessionsStay` | `CheckInv` |

*Implementation.* A commit of `Settle` must be a `Commit` of GroupOutcome, so whoever is
told "commit" must have been told after the decision, and the decision must be taken once.
Neither follows from one state of `decision` and `conn`. `DecisionInv` adds that the
initiator notifies only after its business (`NotifyOnce`), that no handler speaks of an
outcome before `Decide` (`DecidedByHandler`), and that a party whose thread has not come
to its connection has none (`FreshConnection`), without which a second `Open` could follow
an outcome. Each step of the two sides is then a step of GroupOutcome or a stutter.

*VetoHolds.* The veto is saved by `join-group`, and `notify-group` reads it; the property
needs the first to end before the second starts. That is so because the initiator waits
for the unit it called, or has stopped and notifies nobody (`RunningUnitIsCalled`,
`CallerWaits`), a failed unit does not answer before its join is answered (`FailedUnitJoins`),
and the join is answered only once the veto is saved (`VetoIsSaved`). A unit whose process stops
reports nothing, and is the exception the property names. Each of the faults excluded by the hypothesis
`JoinsInTime` breaks one link of this chain, and TLC shows a violation with each (section
7), a failing Redis command among them, since the initiator takes no notice of the failure
it answers: the hypothesis is as weak as the faults allow.

*SlotsAreExclusive.* `addKey` looks only at `used`; a slot in a caller's hands must be
marked so (`HeldIsUsed`), although `clear` writes `used` before `res`. *IdsAreIncreasing*
needs that no id is ahead of the worker's last time and sequence, except while it waits for
the next millisecond (`Behind`). *KeysOwnAnswers* and *KeysAnswersUnderWay* rest on what is on
the wire: a request comes from a caller that drew its key, and an answer from the process that
was called and has handled it (`WireIsGenuine`); a process waits with keys of its own only
(`WaitsForOwn`). *RegistrationsStand* needs that the two ends of a channel
agree on when it opened (`SeenByBoth`), and that a delayed removal is only under way for a
closed channel (`PurgesAreClosed`). *ReadyStaysListed* needs that a manager is condemned by
another only after its first life (`OnlyTheDeadAreCondemned`): the list a starting manager
reads holds only managers that have started (`KnownHaveStarted`), and one in its first
life answers. *ConsoleNewestTokensKept* is about several counts that are taken before the pops
they allow: the logins about to pop (`Dropping`) are either matched by tokens beyond the ones
pushed since the expiry, or by calls, of which each pops once (`CountInv`).
*ConsoleLiveSessionsStay* needs that a check which looks for a live token in the range it
counted finds it unless two pushes went by: the list is the newest tokens in the reverse order
of their pushes (`NewestFirst`), so one push moves a token by one place, and the range has one
to spare (`CheckInv`).

**LcnGroup_proofs.** What the parties achieve together rests on a few facts that build on
each other.

- *One at a time* (`AloneInv`). While answers between applications are waited for, a unit
  runs only as the one its initiator called, or after the initiator's process has stopped;
  nothing has been notified while it runs.
- *Joins are registered* (`RegisterInv`). With every call answered, a unit that returned is in
  the group's entry when the handler of notify-group reads it, or has saved its veto.
- *Only the tasks of an abandoned group fire* (`CheckInv`). A group is `Abandoned` when its
  initiator will not notify (its create failed, or its process stopped) or the handler that
  notified died. In any other a unit whose delay task waits is on its way to be told
  (`ToTell`). So the answer "rollback" that the TM gives of a group it no longer knows goes
  to nobody whose group commits, `CheckIsRight`. Once abandoned always abandoned
  (`AbandonedForGood`), and no commit follows.
- *AllOrNothing.* `Atomic` is not inductive: a rollback before the decision is harmless only
  if no commit can follow. `AtomicInv` says that a commit follows its decision, and a rollback
  a decision to roll back, a veto or the group's being abandoned; `SavedVeto` that a failed
  unit that was heard has its veto saved, which `Decide` reads.
- *NothingLeftOpen* and *CommitReachesUnits.* A notification settles what lies in its
  process's cache, so an open connection has to be the cached one (`ConnInv`: two threads that
  both miss the cache would open two, and a unit that is told before it opens would open one
  afterwards). Given that, whoever has an open connection after the decision is still to be told
  (`EndInv`); and as long as the group may commit, a unit's work is on an open connection, or
  committed already (`ReachInv`).
- *WorkIsDone.* A commit follows a decision, and that an initiator whose business ended well:
  nothing runs then. What a failed unit wrote was rolled back in its own process, on its own
  connection or that of another that it shared (`WritesInProcess`), or it lies on a connection
  the cache has lost, which nobody commits (`FailedWorkIsUndone`).
- *EntryExpires.* Only a clean-group deletes the entry, and that follows a notification
  (`CleanedAfterNotice`). A unit that is or was told is one that the handler of notify-group read
  in the entry, so its join had been answered then (`ToldInOrder`, `MembersJoined`). A join that
  found the entry and puts its unit only after the deletion is therefore of a unit that is not
  told, and comes after the decision: the entry it brings back, the case the property excepts,
  stays as it is (`LeftForEver`). Nothing else can make one without a time to live, whichever
  calls are abandoned, unanswered or fail, and whichever processes stop. A hash that expires
  between `hasKey` and `put` would break this, hence the hypothesis.

*SlotsAreNotLost.* A key whose answer has not given its slot back owes it (`Owes`). Every pooled
slot is on the free list or owed (`FreeOrOwed`), not both (`OwedIsNotFree`), on the list once
(`FreeOnce`), and owed by one key (`OneOwner`). The list's length is then the number of pooled
slots that no key keeps, by a bijection. A slot may be on the list while its caller still
reads, the reason why `SlotsAreExclusive` looks at the marks instead.

*ThreadContext.* `CleanPool` and `WorkIsForCaller` follow a thread's stack: a thread whose
transactions are over has no context, and one that serves a call runs the one its interceptor
made. `NotifiedAtLast` is about several threads: a thread in a group is its initiator's, or was
given up by its caller, or has its caller, which is in the group too, waiting for it
(`JoinsCaller`); and an initiator that has notified has left its context (`InitiatorIsDone`). If
a thread is left in a notified group, there is one with the least rank, as callers form no cycle
(`CallsAreRanked`); it has no caller below it and is not the initiator, so its caller has given it
up (`FirstIsOrphan`).

**Only model-checked.** The liveness properties (`UnitsSettle`, `InitiatorSettles`,
`CallsReturn`, `ToldIsReached`, `LostChannelsReturn`, `DeadSessionsEnd`), which
the prover cannot treat. Every invariant and every action property of a passing run has a
theorem. A few hypotheses about groups are narrower than what TLC finds: section 7 names the
faults that do no harm in its instances and are not in the theorem.

## 6. Findings

With a run that shows it (the quotations are in `PROJECT.json`):

- **A unit in a second instance of a module is never told** (`lcn_replicas`,
  `LCNTransactionManager:99`): the TM notifies the first channel with the module's name.
  The unit's connection waits for its delay task, which finds no group and rolls back
  what the rest has committed.
- **A caller may get the answer to another's request** (`rpc_stale`, `RpcContent:33`):
  `clear` lets a slot go before it empties it.
- **An announced manager is not connected to** (`cluster_new`, `LCNCmdType:118`): the
  clients have no command for the announcement.
- **Two threads of a client may wait for each other** (`cluster_lock`,
  `NettyRpcClientInitializer:82`): one has the lock of `connect` and waits for an event
  loop, which waits for the lock in `channelInactive`. With one event loop per group two
  managers are enough.

Without a run of their own, and the variation of a run that shows them:

- The loop that repeats `notify-group` cannot be reached: an unanswered request throws
  (`TransactionMsgSenger:56`) where its caller looks for an empty answer
  (`TransactionNotifyTransaction:46`). `InitiatorSettles` fails when `lcn_calm` gets
  rpcTimeout.
- Once the TM has cleaned a group it says "rollback" of it
  (`AskTransactionStateExecuteService:37`): a unit the TM could not reach rolls back what
  others committed. `CheckConfirmsDecision` fails with offline.
- `join-group` may put a unit into a group that was removed after `hasKey`, and the new
  hash has no time to live (`RedisStorage:118`). `GroupHasTtl` names it as its exception, and
  `lcn_shared` reaches it when the initiator's process stops; the property fails with expire.
- A call that times out lets the initiator notify its group while the thread that was called
  still runs it. `NotifyIsLast` names it as its exception; `AloneInv` of LcnGroup_proofs needs
  that there is no httpTimeout.
- A business that throws an `Error` counts as success, for only `Exception`s set the state
  of the context (`TransactionLocalContext:53`). `CommittedWorkIsDone` fails with error.
- A failed end leaves its context on the pooled thread (`XLTransactionManager:60`): where
  `tryEndTransaction` throws, the clean-up in the same `finally` block is skipped, and the
  thread's next request keeps the old group, for `RpcTracingContext:37` does not replace one
  that is there. `CleanAfterOrdinaryEnds` and `WorksForCaller` name it as their exception.
- All processes use worker 0 of datacenter 0 (`SnowflakeIdWorker:73`), though its comment
  promises ids without collisions in the whole distributed system (`:13`). Two groups may get
  one id; and a process at the other end of a channel may take a request for the answer to its
  own, the exception `SharedKey` of `OwnAnswers`. Clients with equal keys do not disturb
  each other.
- Where Redis fails in `create-group` or `join-group`, the failure that is answered counts as
  consent (`TransactionJoinTransaction:46` looks at nothing in it). Section 7 says what that
  breaks.
- A transaction begun inside another ends the group early (`XLTransactionManager:38`), and
  one that follows another on the thread has lost the group (`XLTransactionManager:62`);
  `NotifyIsLast` and `WorksForCaller` name these cases as their exceptions.
- A second unit on a shared connection may join after the delay task has cleaned the
  cache. `UnitsSettle` fails with shared and slow.
- The configuration calls `reconnectCount` the number of attempts to reconnect, and the
  code makes one (`NettyRpcClientInitializer:97`).
- A manager that restarts may be deleted by one that asked it while it was down
  (`TMAutoCluster:86`): `ReadyIsListed` fails without `starts[m] = 1`.
- `isExecuteTransaction`, which would let SUPPORTS run without a group, has no caller
  (`annotation/LcnTransaction:28`).
- The detail page of the console ignores a deletion that failed (`index.js:38`, an empty failure
  callback): the answer 401 removes the token and the tab stays on the page. `NoTokenNoPage` and
  `DeadSessionsEnd` name it as their exception.
- The console: each login page leaves a key listener on the document, so that Enter on a later
  page sends the old login again; a check that fails in Redis is answered 401 and ends the
  session; a late 401 removes the token of a newer login; two logins at once may each drop a
  token where one is too much (`RedisStorage:205`); a check that two logins overtake misses a
  token that is there (`RedisStorage:213`), while one is harmless, as the range read is one too
  long; a login cut short after its push leaves a token nobody has, in a list that may have no
  time to live; only logins extend that time.
- The log page sends its dates as `ld` and `rd`, where `DeleteLogsReq` has `lTime` and
  `rTime`: the button that asks "您确定清除当前检索条件日志吗？" (clear the logs of the present
  search?) clears without regard to the dates. Turning a page forgets the filters, a search
  keeps the page number, and answers to list requests are shown in the order they come. With
  the log switched off, each mount of the menu removes one entry more.

## 7. What holds only without certain faults

Found by giving the LCN runs one more fault each, with swallow in all of them.

| Property | Broken by | Unharmed by |
|---|---|---|
| `ImplementsGroupOutcome` | none | all (proved) |
| `FailedUnitVetoes` | httpTimeout, rpcTimeout, channel, expire, tmCrash, redis | error, slow, offline, dbFail, evict, tcCrash (proved) |
| `Atomic` | httpTimeout, rpcTimeout, slow, offline, dbFail, expire, redis, tcCrash, tmCrash, replicas | error, channel, evict (proved) |
| `EndedGroupHoldsNothing` | httpTimeout, rpcTimeout, channel, offline, evict, expire, redis, replicas; slow when shared or nested | error, dbFail, tcCrash, tmCrash (proved) |
| `DecisionReachesUnits` | httpTimeout, rpcTimeout, slow, offline, dbFail, evict, expire, redis, replicas; tmCrash when shared | error, channel, tcCrash (proved) |
| `CheckConfirmsDecision` | httpTimeout, slow, offline, expire, redis, tmCrash | error, channel, dbFail, evict, tcCrash (proved), rpcTimeout |
| `CommittedWorkIsDone` | httpTimeout, error; channel when shared or nested | rpcTimeout, slow, offline, dbFail, evict, expire, redis, tcCrash, tmCrash (proved) |
| `GroupHasTtl` | expire | all others (proved) |
| `InitiatorSettles` | rpcTimeout, redis, tcCrash, tmCrash | httpTimeout, slow, error, channel, offline, dbFail, evict, expire |
| `UnitsSettle` | evict; channel; shared with slow, httpTimeout or redis | the faults of `lcn_settle`, apart |

"Proved" is for all the faults named before it at once, those of the theorem's hypothesis
(section 5), and any number of units.

That `Atomic` gives way to a lost message or a crash is in the nature of a protocol
without a log: the decision is in a handler's frame, and the units roll back on their own
after `dtxTime`. The table says which comfort remains.

## 8. What is not modelled

- *Components left out.* The exception log, the serializers, the wiring and configuration,
  the demo applications: rows, conversions and beans without interaction worth a search. Of the
  console, the log, exception and client pages and the menu (section 6 says what was seen in
  them) and `findByLimitAndFields`, a query. Of the load balancer, the draw and a channel that
  closes during it. Logging everywhere. `removeToken` has no caller.
- *Bundled libraries.* `static/admin/js/index.js` is a bundle. The application's own code is on
  its line 38; the other 37 lines are React, moment, lodash, axios and their like, and the
  comments that name their licences.
- *Paths of the console.* The page calls `/admin/...` and the controllers are at
  `/static/admin/...`; the model takes it that something in front maps the one to the other.
- *The database.* The JDBC delegates of `ConnectionProxy` are one step, `EndInitiator` or
  `EndUnit`, that says whether the business threw. A Redis command that throws is a fault of
  LcnProtocol and AdminConsole, not of TmCluster.
- *Answers never sent.* A service of the TM that throws outside its own `try` answers nothing
  (`ServerRpcAnswer` logs it): that is a lost answer of RpcPool.
- *Reactions to nothing that happens.* The reconnection in `exceptionCaught`
  (`NettyClientRetryHandler:84`) is for a refused connection, which netty reports to the promise
  of `connect` and not to the pipeline. `TMAutoCluster` deletes a listed manager that answers
  with a status other than 200 and no server error; the manager's controller answers no such
  status.
- *Merged steps.* Setting a state key and its time to live (`SaveVeto`); putting a
  connection into the cache and `setAutoCommit` (`OpenConnection`); the synchronized
  `addKey`. The delay before a reconnection and the heartbeats are not seen: a channel is
  lost when its link breaks. The twenty minutes of the token list do not pass between the
  command that sets them and the end of that login.
- *Bounds by construction.* LcnProtocol follows one group with units called one after the
  other by the initiator; units do not call units. An address is a channel of its own in
  TmCluster: ports are not used again.

## 9. Plan

1. *More of the system.* The command types and their dispatch, whose missing case is a
   finding above; the propagation rules, SUPPORTS among them, in ThreadContext; units that call
   units; ports that are used again.
2. *More proofs.* What TLC finds unharmed beyond a hypothesis: rpcTimeout for `CheckIsRight`,
   channel for `WorkIsDone` and tmCrash for `CommitReachesUnits`, both with a process for each
   unit. The safety half of `UnitsSettle`: an open connection of a unit that returned has a
   delay task, or is on its way to be told.
