# A verification project for the Tsunagari backend

Tsunagari bridges tokens between EVM networks and Solana. This directory holds
TLA+ models of the backend in `src/src/`, the TLC configurations that check
them, and TLAPS proofs about them. Paths below are relative to the root of the
repository's tree (`src/`), so the queue processor is `src/queue/queue.processor.ts`.

Several backends (*nodes*) run side by side. They share one Redis, which holds a
list of signatures per message and the BullMQ queue, and nothing else. A node
that sees a lock or burn log signs a message derived from the transaction hash,
pushes the signature on the shared list, and queues a job when the list has
reached the threshold. The worker of some node takes the job, takes the list,
and submits it to the bridge contract of the destination.

## 1. Inventory

| Component | Source | State | Operations | Interacts with |
|---|---|---|---|---|
| Ethereum client | `ethereum-client/ethereum-client.service.ts`, `utils.ts` | providers, sockets and wallets per chain | subscribe, reconnect, lock and burn handlers, sign, mint, unlock, threshold | pushes to and counts the Redis list, calls `addToQueue`, calls the contracts |
| Solana client | `solana-client/solana-client.service.ts`, `pda-deriver.ts` | connections, wallet, program | subscribe, lock and burn handlers, sign, mint, unlock, threshold | as above |
| Redis client | `redis-client/redis-client.service.ts` | one connection | `rpush`, `llen`, `lrange`, `del`, ping, quit, retry strategy | the lists, shared by all nodes |
| Queue service | `queue/queue.service.ts`, `queue/job/` | the BullMQ queue (in Redis, shared) | `addToQueue`, `getJobStatus` | called by the handlers |
| Queue processor | `queue/queue.processor.ts` | the job it is running | `process`, completed / failed / active events | reads and deletes lists, calls the clients, stores transactions over gRPC |
| Transactions | `transactions/`, `proto/` | none here | `StoreTransaction` | an API outside this repository |
| Bridge contracts | only their ABI, IDL and callers | signatures used, payments made | mint, unlock, threshold | outside this repository |
| Modules, `main.ts` | `*.module.ts` | none | wiring, start and stop hooks | - |

What is hard about this code:

- **Interleaving.** A handler awaits the signature, the threshold, `llen`,
  `getJob` and `add`; a worker awaits `lrange`, `del` and the submission. The
  steps of every handler and worker of every node interleave on two shared
  objects, the list and the job id, without any lock or transaction.
- **Stale reads.** A count is compared after the list may have been deleted; a
  job is added after another node found none and added its own; signatures
  pushed after `lrange` are deleted by `del`.
- **Failure.** Redis commands swallow their errors, and wait without limit for a
  connection that may never come; `processJob` swallows all other errors, a
  completed job is removed whatever its run did, a stalled job is run again
  beside its first run, a transaction that was sent outlives its worker or is
  waited for without a timeout, a node can end at every await (some handler
  errors are unhandled rejections, which end the process).
- **Delivery.** Logs can be missed (nothing is replayed) or notified again; a Redis
  command whose answer was lost is sent again.
- **Numbers.** The Solana handlers compute amounts in floating point, the Solana
  calls divide without remainder.
- **Identity.** The message, the list and the job id depend on the transaction
  hash alone; two logs of one transaction share them. On Solana two messages may
  even have the same bytes.

What makes the parts correct:

| Part | Correct when |
|---|---|
| Handlers | a full list never stays without a job; a job is queued only for a quorum; logs are signed only after they were mined |
| Lists | deleting one never costs a signature that is still needed; nobody counts a list before its own push |
| Redis client | a command is executed in its caller's order and ends, also when the connection never comes back |
| Queue | a job is not lost with its worker; one id is one transfer |
| Processor | a failed run costs nothing that cannot be recovered; a record means a payment |
| Relay and contracts | a transfer is paid at most once, by a quorum, at its destination, and eventually |
| Amounts and custody | what is paid is what was locked, up to the decimals of the destination; the vault covers what circulates |
| Connection | a node that loses its socket hears the chain again, once |

## 2. Modules

| Module | What it models |
|---|---|
| `Transfers` | The constants: nodes, chains, transactions, transfers and their logs; the message and job id of a transfer, which signing scheme and which threshold a handler uses, which logs are handled in sequence. |
| `BridgeContract` | The destinations (external): a ledger of payments per chain; a list is accepted if it is long enough, without repetition, of the right scheme, and no signature in it was used before for what the chain reads as the same message. |
| `JobQueue` | The BullMQ queue as `queue.service.ts` uses it: a job id is free, waiting, active with an owner, or failed. |
| `BridgeRelay` | The system: handlers, lists, queue, workers, contracts and records of all nodes, with crashes and faults. Uses the three above. |
| `BridgeTransfer` | The abstract promise: transactions lock, nodes approve, a transfer is settled once after a threshold of approvals. |
| `Amounts` | Pure operators: JavaScript's numbers and their printed form, the amount of a job, what is paid for it, what can be paid. |
| `Custody` | One token and its wrapped form: lock, burn, mint, unlock and rejected jobs, with the amounts of `Amounts`. |
| `Escrow` | The abstract promise of custody: value moves between a reserve and what circulates; a transfer says its value nearly, and nothing else adds any. |
| `Connection` | One node and its Ethereum sockets: start-up, losses, errors, reconnections, timeouts. |
| `RedisConnection` | One Redis client and the handlers that share it: commands that wait, are written again, carried out or refused, answered or rejected, and the retry strategy. |
| `ListCommands` | The abstract promise of the Redis client, which is what `BridgeRelay` assumes: pushes, refusals, counts, failures, repetitions. |
| `MCBridgeRelay`, `MCCustody`, `MCConnection`, `MCRedisConnection` | Constants for TLC. |
| `BridgeRelay_proofs`, `Custody_proofs`, `Connection_proofs`, `RedisConnection_proofs` | Theorems about the modules they are named after. |
| `BridgePromise_proofs` | The proof that `BridgeRelay` implements `BridgeTransfer`. |
| `BridgeLists_proofs` | Theorems about the lists and jobs of `BridgeRelay`, with crashes: a full list is served, a job has a quorum and one worker. |
| `Amounts_proofs` | Theorems about JavaScript's numbers: when an amount comes out as it went in. |
| `BridgeQuiet_proofs` | Theorems about `BridgeRelay` without crashes and lost commands. |

### How `BridgeRelay` corresponds to the code

Every call of a handler is a record (node, transfer, copy), where `copy` counts
the deliveries of one log to one node; `handler` holds the await it is at.

| Action | Code | Remarks |
|---|---|---|
| `Emit` | the origin contract's event reaches `contract.on` / `onLogs` | only running nodes are notified |
| `Push` | from the notification to the await of the threshold | `rpush` is called without `await`. It is sent before the `llen` of the same client on the same connection, so its effect precedes that `llen`; other nodes see it at any earlier or later time, which is the time this action happens |
| `Count` | `llen` and the comparison | a failed `llen` returns `undefined`, and `undefined >= n` is false. The Solana handlers compare after one more await (the mint's decimals); the count is fixed by then, so nothing is lost |
| `CheckJob`, `AddJob` | the two awaits of `addToQueue` | errors are logged and the job forgotten |
| `Take` | BullMQ calls `process` | one job at a time per worker (concurrency 1) |
| `ReadList`, `DeleteList` | `lrange` and `del` of `processJob` | an empty list returns; a failed `del` is only logged; other errors end in the `catch` |
| `Submit` | the call of a contract, up to the hash of its transaction | ethers estimates the gas and Anchor simulates first, so a list that the contract rejects now is never sent |
| `Mined`, `WaitFails`, `Evicted` | `tx.wait()`, Anchor's confirmation | a receipt (or a revert, if another transaction came first); an error of the wait itself; a transaction that is dropped, for which `tx.wait()` waits for ever and Solana's blockhash expires |
| `MinedUnwatched` | a chain mines what nobody waits for any more | after `WaitFails` or a crash |
| `Finish` | `process` resolves, the job is removed, `onCompleted` stores the transaction | a worker that lost its lock completes nothing |
| `Crash`, `Restart` | the process ends, is started again | handlers of a crashed node are gone, its job stays active until the stalled check |
| `PutBackOrphan`, `PutBackSlow` | BullMQ's stalled check | put back `MaxStalls` times, then failed |

The Ethereum handlers of a transaction run independently; the callback of the
Solana client awaits its handlers one after the other, which is the second
conjunct of `Push`.

Faults are disjuncts of the action they disturb, each of a kind in `Faults` and
at most `MaxFaults` in a behaviour: `miss` and `duplicate` (notifications),
`redis` (a command fails), `resend` (ioredis repeats an unanswered `rpush` or
`del` after a reconnection: `Resend`, `DeleteList`), `threshold` (the bridge
raised it after a handler had read it: `CountOutdated`), `queue` (`getJob` or
`add` fails), `submit` (nothing was sent), `receipt` (it was, and the wait
failed), `drop` (it was, and is never mined), `grpc` (the record is lost),
`crash`, `stall`.

What is abstracted: tokens and recipients, and amounts, which `Custody` has;
hashing (a transaction has a message and a message a job id, given by constants,
so collisions are instances too; `BytesOf` says which messages Solana cannot tell
apart, because `unlockTokens` and `mintWrappedTokens` read the decimal message as
hexadecimal pairs and lose an odd last digit); the bytes of signatures (a
signature is who signed and in which scheme, because signing is deterministic).
`Threshold` is what a contract asks for when it is called; a handler that read an
older, lower value is the fault `threshold`. Replacing signers is not modelled.

### How `Amounts` and `Custody` correspond to the code

A job carries an amount in units of 10^-18, as a decimal string. Ethereum's
handlers print a `bigint`. Solana's compute
`Number(amount) * Math.pow(10, ETH_DECIMALS - decimals)` and print the result
(`solana-client.service.ts:157`, `:211`); the processor reads it with `BigInt`,
and the Solana calls divide by the same power of ten (`:275`, `:353`).

`Round` and `Printed` are JavaScript's conversion to `Number` (nearest, ties to
even) and `toString` (fewest digits that read back), on positive integers.
`Printed` is not the identity: `toString` may print an integer whose digits
differ from the exact value of the number, which is why amounts beyond 2^53
often survive. From 10^21 the form has an exponent, here the value
`Exponential`, which `BigInt` rejects.

`Custody` follows one token that is native on one of the two kinds of chain. The
relay between them is one step here: `Lock` or `Burn` makes the job, `Mint` or
`Unlock` pays it, `Reject` is a run that throws (an unreadable amount, one beyond
`u64`, a vault that is short) and is forgotten. One transfer per direction is
under way at a time; that more are does not matter to what is summed. The variable
`gained` is history: how much jobs have said beyond the amounts of their logs,
which only floating point does.

The number format is a constant. `MCCustody` scales it down and keeps the order of
the real limits:

| | backend | `MCCustody` |
|---|---|---|
| `Significands` | 2^53 | 32 (one digit survives, not fifteen) |
| `U64`, the bound of an amount on Solana | 2^64, beyond 2^53 | 40, beyond 32 |
| `PlainBelow`, from which numbers print with an exponent | 10^21 | 100 |
| unit of Ethereum | 10^-18 | 10^-1 (scales 1 and 10) |

So `Number(amount)` loses a unit (35 becomes 36), the product is rounded, and
`toString` prints another decimal than the product (7 * 10 becomes 72, printed 70).

### How `Connection` corresponds to the code

`sockets[c]` holds every provider ever created for a network, since none is ever
closed or stripped of its listeners, with how far its set-up got: `half` is the
keep-alive interval and the error handler, `full` the contract's listeners too.
`SetUpNext` is one turn of the loop in `setupAllEventListeners`, with its end at
the first network whose contract cannot be made, which is half set up by then.
`Break` is the loss of a connection. `OnError` is the `error` handler, which is never
removed and runs for every error event: the first after a loss, one that is
repeated, and one of a socket that lives on (ethers also reports failures of
requests there). `OnTimeout` is the `setTimeout` of a failed attempt. Both run
`Reconnect`, which is `reconnectWebSocket`: the new provider is ready and set up, is
not ready (it stays open, and nothing more happens), its creation throws, or its
set-up throws after the socket is stored and half set up; the last two schedule
another attempt. A socket that closes without an error event is `Break` without
`OnError`: the node is not told.

Which outcome is usual depends on ethers: `ready` is read in the same turn in
which the socket was created, and a library whose providers become ready only
when the connection is open makes "not ready" the rule. The repository's
tests mock the first three outcomes; the run has all four.

### How `RedisConnection` corresponds to the code

The handlers of a node share one `RedisClientService`, and so one ioredis client;
the queue module creates another for the worker. `Push` and `Count` issue a
handler's `rpush` and `llen`. `pending` holds, in the order of issue, what was
written and not answered and what waits for a connection: after a loss ioredis
writes the first again, ahead of the second, so one queue stands for both, and
`served` says how many of it the server has dealt with on this connection: it carries
a command out (`Execute`) or answers it with an error (`Refuse`: out of memory,
read-only, loading), which rejects that command alone and which
`redis-client.service.ts` logs and forgets. `Retry` is
`retryStrategy` (`redis-client.service.ts:34`): up to `maxRetries` attempts, then
the client ends and rejects everything. `maxRetriesPerRequest: null` is why
commands wait for all of them. `Init` and `Settled(Ping)` are the ping of
`onModuleInit`, which start-up awaits.

One thing is assumed of the network: a command that was on its way when its
connection broke has arrived, or never does, by the time the client connects again.

The module justifies how `BridgeRelay` treats Redis, and `ListCommands` is the
link: it is written in the terms of the relay (`pushes` and `counts` of calls),
`RedisConnection` implements it, and its actions are those of the relay - `Push`
once is the relay's `Push`, again its `Resend`, `Count` its `Count`, a failed
count its fault. A command that is refused or rejected, or whose caller would wait
until it is, is the fault `redis`; one that is executed twice is the fault `resend`, and
`PushesSettled` is why `Resend` needs its handler still at `count`, at most once
per lost connection (each of which the relay counts as a fault);
`CountSeesOwnPush` is why `Push` is one step and `Count` a later one though
nothing awaits the push, and why a count without it takes the fault `redis`. The
worker awaits each of its commands, so its client is this one with one call at a time.

## 3. Properties and runs

Deadlock is not checked because the bounded systems stop: each transaction is
emitted once and the nodes then have nothing to do; sockets that never break
again leave a node with nothing to reconnect; calls that are answered leave a Redis
client with nothing to do; a full vault with an empty wrapped supply has no
transfer left within the bounds.

Safety, whatever the faults:

- `PaidOnce` - a transfer is paid at most once.
- `PaidOncePerDigest` - of the transfers that a contract cannot tell apart (logs
  of one transaction, messages with the same bytes on Solana) at most one is paid.
- `PaidByQuorum` - a payment is for a mined transfer, at its destination, and
  carries a threshold of distinct nodes that handled a log of its message.
- `ImplementsPromise` - `BridgeRelay` implements `BridgeTransfer`: a push is an
  approval, a payment a settlement, everything else a stutter.

Without crashes, Redis failures and repeated logs, for transactions with one
transfer (a log may be missed, a job stalled, a receipt or a record lost):

- `QuorumServed` - once a threshold has signed and nobody is still counting, the
  transfer is secured (see below), or its job waits for a worker, or is run by one.
- `PaidAtRest` - when nobody will do anything more for a mined transfer, it is
  paid, unless fewer nodes than the threshold heard of it. None of the ways in which
  the code gives up - a job that is there already, a swallowed error, a failed
  job - gives up on a transfer that is still to be paid. `Delivered` adds
  that the system comes to rest.
- `QueuedOnlyByQuorum` - a job is queued only when a threshold of distinct nodes has
  signed. It holds with crashes too, and where it does not is in section 4.
- `FailsOnlyWhenSecured`, `RecordedOnlyWhenSecured`, `DropsOnlySpares` - a run
  that fails, a record that is stored, and signatures that are deleted, only
  when the transfer is *secured*: paid, or in the hands of a worker whose list
  the contract accepts.
- `Delivered` - a mined transfer is eventually paid, unless fewer nodes than the
  threshold heard of it or its own transaction was dropped and its worker waits
  for ever; that worker holds up no other transfer, because another node's takes it.

With crashes:

- `FullListIsServed` - a list that the contract would accept has a job that waits,
  is run by a worker that has not deleted the list, or will be put back, or a handler
  that is about to queue it. Two gaps remain, each named with what it takes: all
  nodes that signed from the one on that filled the list died before they could
  queue it (`LateSignersDied`; no restart repeats those steps), or one worker of the
  job more was lost than BullMQ puts it back for (`LostTooOften`; the job fails, is
  run by nobody, and its id stays taken, so `addToQueue` adds no other).
- `OneWorkerPerJob` - no job has two workers unless a lock was lost by a worker
  that goes on: not after a crash, a completion, or a job that is queued again.
- `ActiveJobsEnd` - no job stays locked by a process that is gone (a worker that
  waits for ever for its transaction keeps its lock).
- `OrphanedQuorumIsPaid` - a job whose worker died before it deleted the list
  is put back and paid, unless its next worker is lost too.

Amounts and custody:

- `JobsAreNear` - a job that can be read says what was locked or burned to four parts
  in `Significands` (2^53), after three roundings; and to the last unit, unless the
  amount has more digits than a number keeps.
- `Backed` - the vault covers the wrapped tokens and the transfers under way,
  however often amounts go back and forth between units, up to what floating
  point has added (`gained`).
- `ImplementsEscrow` - `Custody` implements `Escrow`: a job says its value nearly or
  cannot be read, no other step adds value, a payment is less than one unit of the
  mint short, and a transfer that can be read fails only because its payment does not
  fit a `u64`, or because the vault is short by what floating point added to
  earlier ones. That does happen, in the run too: `unlockTokens` may fail for the last
  holder of a token after amounts of more than 15 digits were rounded up.

Connection:

- `OneAttemptPerError` - every error event, a repeated one included, leads to exactly
  one socket more, or one timeout that is pending: none is forgotten, none counts
  twice. As sockets and keep-alive intervals are never closed, it is also how many of
  them there are, with one more for each set-up that threw half-way.
- `HeardOncePerAlarm` - however losses, retries and timeouts overlap, a network
  has at most one live subscription, plus one per error event that was not the
  first to report a lost one.
- `DeafOnlyByDroppedProvider` - a node that was told of its losses and hears
  nothing has a reconnection pending, unless a new provider was not ready.
- `HeardAgain` - such a node eventually hears the network again, with the same
  exception.

Redis client:

- `CountSeesOwnPush` - no list is counted without the caller's own signature, though
  the push is not awaited, unless Redis refused to push it: never because the two
  commands overtook each other. The last handler to count sees all that was pushed.
- `PushesSettled` - no push is executed (again) once its caller knows its count.
- `ImplementsListCommands` - `RedisConnection` implements `ListCommands`: a
  signature is pushed once, and at most once more per lost connection, until its
  handler knows its count, and no count arrives before the push was carried out or
  refused.
- `EveryCommandEnds` - nobody waits for ever, even if Redis never comes back.

| Run | Instance | Shows |
|---|---|---|
| `AnyFaults` | 2 nodes, T = 2, 2 copies, any 3 of 11 kinds of fault | `PaidOnce`, `PaidByQuorum`, refinement of the promise, and the type invariant, when lists are rebuilt and resubmitted and two transactions are under way together |
| `SolanaBatch` | 2 nodes, one Solana transaction with two transfers to one chain, a missed or repeated notification | `PaidOncePerDigest`, `PaidByQuorum` when the list and the job id are shared, with handlers in sequence |
| `Quiet` | 3 nodes, T = 2 (origin's T = 1), 3 faults that lose no signature | the six safety properties of a quiet system |
| `Live` | 2 nodes, T = 2, two transfers between two networks, 1 missed log or dropped transaction | `Delivered` |
| `CrashRecovery` | 3 nodes, T = 2, 2 crashes | `FullListIsServed`, `OneWorkerPerJob`, `ActiveJobsEnd`, `OrphanedQuorumIsPaid` |
| `Custody` | 2 scales, either home, amounts with fewer and with more digits than the number format keeps | `JobsAreNear`, `Backed`, `ImplementsEscrow` |
| `Connection` | 2 networks, 3 failures, 3 error events per network, all outcomes | the four properties of the connection |
| `RedisConnection` | 2 calls, 2 attempts to reconnect, 2 lost connections, any command refused | the four properties of the client |

Bounds. Two nodes with T = 2 are the smallest system in which every signature
matters; three with T = 2 the smallest with a spare one, where late signatures
and second quorums appear. Two copies allow one repeated log, with which two
nodes fill the list a second time. Two transfers are enough for what they share
(a list, a job id, a worker). Three faults allow, for example, a lost receipt, a
rebuilt list and a stalled job in one behaviour. Two crashes with a job that is put
back once are the smallest case in which a job fails, and with three nodes and T = 2
in which both late signers die.
Symmetry over nodes is used only in runs without liveness. The theorems of
section 5 remove these bounds for the safety properties of payments. The amounts
of `Custody` are small ones and two that `Number` cannot keep (33 and 35), and their
multiples by the scales are beyond its 5 bits, so rounding, printing, gains, losses,
`u64` and a vault that is short all happen; vaults of 60 and 50 units allow
several transfers each way. Three failures and three error events per network are
a loss that is reported twice with a failed retry, or a loss of each network with a
set-up that throws. Two attempts and two losses let the Redis client recover,
lose its connection between a push and a count, and give up, in one behaviour; two
calls interleave.

Fairness. `FairSpec` assumes that a handler or worker of a running node that can
take a step eventually does (the event loop goes on, and `EveryCommandEnds` says
that no Redis call is waited for without end), that a chain mines a transaction
that was sent and not dropped, and that BullMQ checks for stalled jobs. Nothing is
assumed about users, faults or restarts. A handler or worker has one step at a
time, so weak fairness of the disjunction is weak fairness of its next step.
`Connection` assumes only that timeouts fire; that failures stop is in their
bound, and without it no reconnection could be promised. `RedisConnection` assumes
that an attempt to connect ends, well or not, and that a connected server
executes and answers; that one ever succeeds is not assumed.

## 4. Where the code departs from its own text

Each is a run in which TLC finds the property violated. For three of them a theorem
of section 5 says where the divergence ends: `QueuedByQuorum` proves
`QueuedOnlyByQuorum` when the conditions that the two runs `ShortQuorum...` break
hold, and `ReadBelowLimit` and `SmallAmountsAreRead` that amounts of few digits are
read exactly when they are below 1000 whole tokens.

- `FailedJob`: "@throws Error if the job processing fails"
  (`queue.processor.ts:71`) - `processJob` catches everything, so a failed run
  completes, the job is removed, and the attempts and backoff of
  `queue.service.ts:40-44` are never used. The signatures are already deleted.
- `ShortQuorumOneTx`: "should not add job when threshold not met"
  (`ethereum-client.service.spec.ts:208`) - two logs of one transaction share
  the list, so one node's two signatures meet a threshold of two.
- `ShortQuorumSolana`: "Gets the required threshold of signatures for a specific
  chain" (`ethereum-client.service.ts:518`) - the Solana handlers compare with
  Solana's threshold whatever the destination. If it is the lower one, the job
  runs early, deletes the list and cannot pay.
- `LargeAmounts`: "as a string to handle large numbers"
  (`transactions/dto/transaction.dto.ts:22`) - amounts of 1000 whole tokens and
  more from Solana are printed with an exponent (`solana-client.service.ts:157`),
  `BigInt` throws on them in the processor, after the signatures were deleted. In
  the run, where numbers print plainly below 100, it is 33 or 35 of a mint of scale 10.

Not runs, but worth knowing. For mints of 13 to 18 decimals an amount beyond 2^52 may
come out a few units off, in either direction (`Number(amount)` alone is off beyond
2^53), and where units were added the vault may later be short of them. A job that lost
more workers than BullMQ puts it back for stays in the queue as failed, keeps its id,
and so keeps its transfer from being queued again, even if its list is full
(`FullListIsServed`). An `rpush` that Redis refuses is logged and the handler counts
without its signature. A completed job frees its id (`queue.service.ts:45`), so a
handler that counted late queues the transfer again; the second run finds no signatures,
completes, and is stored like the first. `reconnectWebSocket` does not try again after a
provider that is not ready, a case `ethereum-client.service.spec.ts` tests twice, as
"should retry on failure" (`:353`) and as "should not reconnect if provider is not
ready". `PaidOnce` needs `QuorumsIntersect`, that is 2T > N for every chain, which
nothing in the repository enforces. With N = 2 and T = 1 TLC pays a transfer twice
without any fault: each node's signature is a quorum, and the second arrives after the
first was consumed.

## 5. Proofs

`BridgeRelay_proofs` proves, for every value of the constants that satisfies the
assumptions in `Transfers`, `JobQueue` and `BridgeRelay`:

- `TypeCorrect` == `Spec => []TypeOK`. One lemma per kind of update (a job, a
  list, a payment), one step per action.
- `PaidAtMostOncePerDigest` == `QuorumsIntersect => (Spec => []PaidOncePerDigest)`.
  The property is not inductive: it says nothing of which signatures a payment
  consumed. The invariant (`PaymentInv`) adds that every payment is at its
  destination, carries a threshold of signatures of that chain's scheme, and
  that two payments for messages the chain cannot tell apart share no
  signature. With one scheme per chain, signatures are as many as signers
  (`OneSignaturePerSigner`); two disjoint sets of signers, each of more than half
  of the nodes, do not exist. The theorem covers any number of transfers in one
  transaction and of messages with the same bytes; the run shows the former.
- `PaidAtMostOnce` == `QuorumsIntersect => (Spec => []PaidOnce)`, which follows.
- `PaidOnlyByQuorum` == `Spec => []PaidByQuorum`, from the same invariant and
  `Provenance`, which follows a signature from the handler that made it to the
  list, the worker that read it, the transaction that was sent and the payment:
  whoever signed has handled a log of the message, and every log in progress,
  job and run stems from a mined transaction. No assumption on thresholds is
  needed.

`BridgePromise_proofs` proves `RelayImplementsPromise` ==
`QuorumsIntersect => (Spec => ImplementsPromise)`: `BridgeRelay` implements
`BridgeTransfer`, for all faults and any number of them. Initial states map to
initial states (`InitImplements`). An emission maps to `Lock`, because no handler
ran before it (`HandlerInv`); a push to `Approve`, which may change nothing when
the node has approved before; a step that changes a ledger to `Settle`: the
signatures that it brings are approvals by `Provenance`, and by `PaidAtMostOnce`
in the next state nothing was paid before. Every other step changes none of the
three (`OthersStutter`), because no handler that pushed is forgotten.

Besides these hypotheses, the two modules use only the constants' assumptions.

`BridgeLists_proofs` proves `FullListServed`: `FullListIsServed` for any number of
nodes, transfers and faults of the kinds in `KeepsLists` (missed logs, crashes,
stalls, failed or dropped transactions, lost receipts and records). Its hypotheses
are that quorums intersect, that each transfer has a message and job id of its
own (`Distinguished`: one bridge log per transaction, no collision of hashes) and
that handlers compare with the destination's threshold (`AsksDestination`: true
of all transfers from Ethereum). The property is not inductive, because it says
nothing of lists that are not yet full. The invariant (`ListsAccounted`) says of
every transfer that its list is `Fresh` - as long as the number of nodes that
signed; when full, with a job, or a handler that will still count it or has
died; with a job only when full; and with no run further than `del`, so that no run
can remove the job - or `Spent`: a threshold of those who signed had their
signatures taken, so that what remains can never be full again. It needs to know
that lists hold no signature twice (`Orderly`). The two gaps have an invariant each:
as long as a full list has no job, each of its late signers has still to count it or
has died (`LateSignersPending`: whoever pushes a signature on a list that is full
with it will see it full), and every time a job is put back, a fault was
spent on it (`StallsPaidFor`), so a job that failed cost more than `MaxStalls`.
Each hypothesis on the faults is needed: a failed `llen`, a failed `getJob` or `add`,
a repeated `rpush` or log and a raised threshold can each leave a full list alone,
which TLC finds with three nodes.

The same invariant gives `QueuedByQuorum` (`QueuedOnlyByQuorum`), without
`QuorumsIntersect`: a list that has a job is `Fresh` and full, or `Spent`, and both
mean a threshold of signers. `JobsHaveOneWorker` (`OneWorkerPerJob`) needs no
hypothesis but that no worker loses a lock while it goes on (`stall` is not among the
faults), whatever else fails. The property is not inductive: a job that waits while
somebody runs it would be taken a second time. The invariant (`RunsLocked`) is that whoever
runs a job owns its lock, so the job is neither waiting nor free.

`BridgeQuiet_proofs` proves the other five properties of a quiet system,
`QuorumServed` (`QuorumIsServed`), `PaidAtRest` (`RestIsPaid`),
`FailsOnlyWhenSecured` (`FailuresAreHarmless`), `RecordedOnlyWhenSecured`
(`RecordsAreOfSecured`) and `DropsOnlySpares` (`DroppedAreSpares`), for any number
of nodes, transfers and faults of the kinds in `Harmless`, and any threshold: they
do not need `QuorumsIntersect`. The invariant (`ServedOrSecured`) is that a
transfer is secured, or its list is `Fresh`, nobody has read it, nothing was
recorded, and its job, if there is one, waits or is run. Being secured is stable
(`SecuredStays`): a list stays acceptable until its transfer is paid, because
until then its contract has used no signature for it. The only step from unserved
to secured is `lrange` by a run, which finds a full list without repetition
(`ReadSecures`). For `RestIsPaid` one more invariant is needed, `NodesNotified`:
once a transfer is mined, every node has a call for it that was at least notified,
or lost. So at rest all nodes that were not lost have signed (`RestIsSigned`),
which is a quorum, and of the three things that `QuorumServed` leaves, rest
excludes all but payment.

`Amounts_proofs` is about `Round` and `Printed`, for every number format that
satisfies `NumberAssumption` (units in the last place are 1 and its doublings, the
powers of ten divide each other, an even number of significands), of which IEEE
doubles and `toString` are one and `MCCustody`'s format another:

- `PrintedExactly`: if an amount is below half the significands (with doubles,
  4.5 * 10^15), its product with a power of ten is printed exactly, though the
  product itself may need far more bits than a double has. The exact
  product reads back as the rounded number (`RoundedIsNear`), so it is among the
  decimals `toString` chooses from; those with the fewest digits are multiples of
  at least the same power of ten, and of its multiples no other is as near
  (`OnlyMultiple`), because neighbours are further apart than a unit in the last place.
- `ReadBelowLimit`: for such amounts `JobAmount` is the exact product below the limit
  and unreadable from there on: rounding never carries a product across 10^21, which
  is itself a floating-point number (`LimitIsNumber`).
- `JobIsNear`: a job of any amount, of any number of digits, is within four parts in
  `Significands` of the exact product, or unreadable. Each of the two conversions is
  off by one part at most (`RoundLoses`, `RoundGains`), and so is what `toString`
  prints, because it reads back as the number it was printed from
  (`PrintedReadsBack`); that errors of errors stay within the fourth part is
  `SmallErrors`.

`Custody_proofs` proves, for every set of scales and of amounts, with any number of
transfers, under one hypothesis, `FloatsReach`: no amount comes near the largest
floating-point number (with doubles, 10^308):

- `JobsNear` (`JobsAreNear`): from `JobIsNear`, and for exactness from
  `KeptDigitsArePrinted`, about amounts of few digits in the sense above and about
  scales so large that a longer amount prints with an exponent (`LargeProduct`). Of
  real mints, those with 12 decimals or less keep every `u64`, since
  (2^53 - 1)(2^53 - 2) * 10^6 is more than 2 * 2^53 * 10^21; those with 13 to 18
  decimals keep amounts below 2^52 - 1.
- `TypeCorrect` and `VaultBacksTokens` (`Backed`). `TypeOK /\ Backed` is inductive;
  the arithmetic is in `ScalingDown` (division gives back at most what went in, and
  less than a unit less) and `PaidValue`, the bookkeeping in `StartUnderWay` and
  `EndUnderWay`.
- `CustodyImplementsEscrow` (`ImplementsEscrow`): initial states map to initial
  states, and each action to the one of `Escrow` it is named for, or a stutter
  (a job that cannot be read is worth nothing). That a rejected transfer maps to
  `Void`, which allows no other reasons than the limit and a reserve that is short
  after something was gained, is where `Backed` is needed.
- `CustodyIsSafe`: if all amounts keep their digits (`DigitsKept`), nothing is ever
  gained, so that the vault covers everything and is never short.
- `SmallAmountsAreRead`: `LargeAmountsAreRead`, the property of the run
  `LargeAmounts`, for amounts of few digits below the limit.

TLC evaluates `NumberAssumption`, `FloatsReach` and `LimitIsNumber` for the instance
in `MCCustody`; that doubles satisfy them is plain arithmetic. `DigitsKept` does not
hold there: the instance is about the amounts for which it fails.

`Connection_proofs` proves, for any number of networks, failures and errors and
for all outcomes, `TypeCorrect`, `AttemptsConserved` (`OneAttemptPerError`),
`HeardOnce` (`HeardOncePerAlarm`) and `DeafOnlyWhenDropped`
(`DeafOnlyByDroppedProvider`). The invariant is the conservation of attempts -
sockets and pending timeouts of a network, without the sockets whose set-up threw, are
as many as its first socket and its error events - with two facts: what was
noticed is gone and set up, and there is a first socket. Every error event is
counted, so nothing is assumed about how often a dead socket reports its loss. A
network is heard by sockets that live, which are not among those noticed, so there are
at most one more than error events that were not first reports; when all were
noticed, a timeout must be pending.

`RedisConnection_proofs` proves, for any number of calls, losses and attempts,
`TypeCorrect`, `OwnPushCounted` (`CountSeesOwnPush`) and `PushesEnd`
(`PushesSettled`). The invariant says where a handler's two commands may be: a
command is in the queue exactly once, and only while it is pending; an `llen` has
its `rpush` ahead of it, executed or refused; what was served on this connection is a
prefix of the queue. No command overtakes another, and an answered one leaves.

It also proves `ConnectionImplementsListCommands` (`ImplementsListCommands`): issuing and
reconnecting are stutters, `Execute` is a push, `Refuse` a refusal, the answer to an
`llen` that was carried out is a count.
The guard of the abstract push, fewer pushes than connections, needs one more
invariant (`RunsInv`): a connection executes a command at most once, so
what was not executed on this one ran at most as often as others were lost. That it
is only pushed until its handler has a count is `NoPushAfterCount`, from above.

Model-checked only: liveness (`Delivered`, `ActiveJobsEnd`, `OrphanedQuorumIsPaid`,
`HeardAgain`, `EveryCommandEnds`), which needs fairness and so `ENABLED`, out of the
prover's reach. What safety has to say of it is proved: that nobody gives up early
(`PaidAtRest`, `FullListIsServed`, `DeafOnlyByDroppedProvider`). Every invariant,
action property and refinement that a passing run checks is stated by a theorem.

## 6. Plan

1. *(done)* The relay: `Transfers`, `BridgeContract`, `JobQueue`, `BridgeRelay`,
   its abstract specification, its runs and the safety theorems; transactions
   that outlive their workers, and what the chains cannot tell apart.
2. *(done)* `Amounts` and `Custody`, with the theorem that the vault covers what
   circulates.
3. *(done)* `Connection`: start-up, reconnection and its retries, with theorems.
4. *(done)* `RedisConnection`: the retry strategy and commands that wait, with
   theorems.
5. *(done)* The theorem that the relay implements its promise.
6. *(done)* The quiet-system properties and `FullListIsServed` as theorems.
7. *(done)* Abstract specifications of custody and of the Redis client, which
   `Custody` and `RedisConnection` implement; `PaidAtRest`, `QueuedOnlyByQuorum` and
   `OneWorkerPerJob`; the theorems about floating point.
8. To prove next: the safety half of `OrphanedQuorumIsPaid` and of `Delivered` with
   dropped transactions, as `PaidAtRest` is for quiet systems: with crashes and hung
   workers, at rest every transfer is paid or one of the named losses happened to it.
9. Several tokens or transfers of one direction under way together in `Custody`.
10. Governance: thresholds and signers that change while signatures are collected,
   as far as the IDL says how.

## 7. Not modelled

Nest wiring and configuration, and the order in which Nest initialises providers
(a job taken before its clients are ready is the fault `submit`). Logging.
`getJobStatus`, which reads only. The fields of jobs and records (passed on
unchanged). ABIs and generated types, beyond what the IDL says of errors and
parameters. Signers that join or leave, and fees that a contract may take. What
a contract does beyond the checks named above. Mints with more than 18 decimals,
whose scale would be a fraction. Solana's subscription, which `@solana/web3.js`
keeps up itself. What keep-alive pings ask for. `quit` and the removal of
listeners: they belong to a shutdown that `main.ts` never starts, because it
enables no shutdown hooks.
