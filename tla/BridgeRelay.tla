---------------------------- MODULE BridgeRelay ----------------------------
(***************************************************************************)
(* The path of a cross-chain transfer through the validator nodes: every   *)
(* node that sees the origin log signs its message, pushes the signature   *)
(* on the list the nodes share in Redis, counts the list, and queues a job *)
(* when the count reaches the threshold; the worker of some node takes the *)
(* job, takes the list, and submits it to the destination.                 *)
(*                                                                         *)
(* A handler and a worker are cut at every await, so the steps of all the  *)
(* handlers and workers interleave.  A step that can go wrong has a second *)
(* disjunct for it, enabled by the fault it stands for.                    *)
(***************************************************************************)
EXTENDS BridgeContract, JobQueue

CONSTANTS
    Copies,         \* how often one log can reach one node: 1 .. Copies
    Faults,         \* the kinds of fault that may happen
    MaxFaults       \* bound: how many of them do

ASSUME RelayAssumption == Copies \in Nat \ {0} /\ MaxFaults \in Nat

VARIABLES
    emitted,        \* transactions mined at their origin
    up,             \* nodes whose process runs
    handler,        \* step of each handler call
    sigs,           \* message -> list of signatures in Redis
    worker,         \* what the queue processor of each node is doing
    unwatched,      \* transactions sent to a destination that no worker awaits
    records,        \* transfer -> how often StoreTransaction recorded it
    faults          \* faults so far

vars == <<emitted, up, handler, sigs, worker, unwatched, records, faults, ledger, jobs>>

-----------------------------------------------------------------------------
(* One call of a handler: a node, a transfer, and which copy of its log.   *)
Calls == [node : Nodes, transfer : Transfers, copy : 1 .. Copies]

(* none - no notification     lost - the notification never arrived        *)
(* wire - on its way          dead - the node crashed after the push       *)
(* count, check, add - awaiting llen, getJob, queue.add                    *)
HandlerSteps == {"none", "wire", "count", "check", "add", "done", "lost", "dead"}

InProgress == {"count", "check", "add"}

Pushed == InProgress \cup {"done", "dead"}

Idle == [step |-> "idle"]

(* held is the result of lrange; failed says that the catch of processJob  *)
(* swallowed an error.  wait - the transaction is sent; hung - it will     *)
(* never be mined, and tx.wait() knows no timeout.                         *)
Runs == [step : {"lrange", "del", "submit", "wait", "hung", "complete"},
         transfer : Transfers, held : Seq(Signatures), failed : BOOLEAN]

(* A mint or unlock call that was sent to the chain of its transfer. *)
Sent == [transfer : Transfers, held : Seq(Signatures)]

Working(n) == worker[n] # Idle

JobOf(e) == JobId(Message(e))

Running(n, j) == Working(n) /\ JobOf(worker[n].transfer) = j

(* The nodes whose handler got as far as pushing a signature for m. *)
Signers(m) ==
    {n \in Nodes : \E c \in Calls : /\ c.node = n
                                    /\ Message(c.transfer) = m
                                    /\ handler[c] \in Pushed}

TypeOK ==
    /\ LedgerTypeOK
    /\ QueueTypeOK
    /\ emitted \subseteq Txs
    /\ up \subseteq Nodes
    /\ handler \in [Calls -> HandlerSteps]
    /\ sigs \in [Messages -> Seq(Signatures)]
    /\ worker \in [Nodes -> Runs \cup {Idle}]
    /\ unwatched \subseteq Sent
    /\ records \in [Transfers -> Nat]
    /\ faults \in Nat

Init ==
    /\ ContractInit
    /\ QueueInit
    /\ emitted = {}
    /\ up = Nodes
    /\ handler = [c \in Calls |-> "none"]
    /\ sigs = [m \in Messages |-> <<>>]
    /\ worker = [n \in Nodes |-> Idle]
    /\ unwatched = {}
    /\ records = [e \in Transfers |-> 0]
    /\ faults = 0

Fault(kind) ==
    /\ kind \in Faults
    /\ faults < MaxFaults
    /\ faults' = faults + 1

NoFault == UNCHANGED faults

-----------------------------------------------------------------------------
(* The origin chains and their notifications.                              *)

Notification(c) == {d \in Calls : /\ d.node = c.node
                                  /\ d.copy = c.copy
                                  /\ d.transfer \in DeliveredWith(c.transfer)}

(* A user's transaction is mined; the running nodes are notified of its    *)
(* logs.  A node that is down never is: nothing is replayed at start-up.   *)
Emit(t) ==
    /\ t \notin emitted
    /\ emitted' = emitted \cup {t}
    /\ handler' = [c \in Calls |->
                     IF Log[c.transfer].tx = t /\ c.copy = 1 /\ c.node \in up
                     THEN "wire" ELSE handler[c]]
    /\ UNCHANGED <<up, sigs, worker, unwatched, records, faults, ledger, jobs>>

(* A notification is dropped: the socket was closed or never set up again. *)
Miss(c) ==
    /\ \A d \in Notification(c) : handler[d] = "wire"
    /\ Fault("miss")
    /\ handler' = [d \in Calls |-> IF d \in Notification(c) THEN "lost" ELSE handler[d]]
    /\ UNCHANGED <<emitted, up, sigs, worker, unwatched, records, ledger, jobs>>

(* The same log is notified again: a reorganisation mined it a second time *)
(* or two subscriptions of the node are alive.                             *)
Redeliver(c) ==
    /\ c.copy > 1
    /\ c.node \in up
    /\ Log[c.transfer].tx \in emitted
    /\ \A d \in Notification(c) : handler[d] = "none"
    /\ Fault("duplicate")
    /\ handler' = [d \in Calls |-> IF d \in Notification(c) THEN "wire" ELSE handler[d]]
    /\ UNCHANGED <<emitted, up, sigs, worker, unwatched, records, ledger, jobs>>

-----------------------------------------------------------------------------
(* The event handlers: handleTokensLockedEvent and its burn counterpart,   *)
(* of the Ethereum and of the Solana client.                               *)

MoveTo(c, step) == handler' = [handler EXCEPT ![c] = step]

(* Variants: each delivery, or each log, is signed with its own nonce.     *)
SignatureOf_PerDelivery(c) ==
    [by |-> c.node, scheme |-> SchemeOf(Log[c.transfer].to), nonce |-> c.copy]

SignatureOf_PerLog(c) ==
    [by |-> c.node, scheme |-> SchemeOf(Log[c.transfer].to), nonce |-> Log[c.transfer].index]

(* Signing is deterministic: a second delivery yields the same signature.  *)
SignatureOf(c) == [by |-> c.node, scheme |-> SchemeOf(Log[c.transfer].to)]

(* A variant: every push leaves its signature twice.                       *)
Rpush_Twice(m, s) == sigs' = [sigs EXCEPT ![m] = Append(Append(@, s), s)]

Rpush(m, s) == sigs' = [sigs EXCEPT ![m] = Append(@, s)]

(* Up to the await of the threshold: sign, and rpush without awaiting it.  *)
(* rpush and the llen below share a connection, so they run in this order; *)
(* a failed rpush is only logged.                                          *)
Push(c) ==
    LET m == Message(c.transfer)
        s == SignatureOf(c)
    IN  /\ handler[c] = "wire"
        /\ \A f \in EarlierInLog(c.transfer) :
              handler[[c EXCEPT !.transfer = f]] \notin {"wire"} \cup InProgress
        /\ MoveTo(c, "count")
        /\ \/ NoFault /\ Rpush(m, s)
           \/ Fault("redis") /\ UNCHANGED sigs
        /\ UNCHANGED <<emitted, up, worker, unwatched, records, ledger, jobs>>

(* The connection broke before the answer to rpush: the client, connected  *)
(* again, sends it again, ahead of the llen.                               *)
Resend(c) ==
    /\ handler[c] = "count"
    /\ Fault("resend")
    /\ Rpush(Message(c.transfer), SignatureOf(c))
    /\ UNCHANGED <<emitted, up, handler, worker, unwatched, records, ledger, jobs>>

(* A variant: the comparison is strict.                                    *)
ThresholdMet_Strict(c) == Len(sigs[Message(c.transfer)]) > HandlerThreshold(c.transfer)

ThresholdMet(c) == Len(sigs[Message(c.transfer)]) >= HandlerThreshold(c.transfer)

(* llen and the comparison.  A failed llen is undefined, which is not >=   *)
(* any threshold.                                                          *)
Count(c) ==
    /\ handler[c] = "count"
    /\ \/ NoFault /\ ThresholdMet(c) /\ MoveTo(c, "check")
       \/ NoFault /\ ~ ThresholdMet(c) /\ MoveTo(c, "done")
       \/ Fault("redis") /\ MoveTo(c, "done")
    /\ UNCHANGED <<emitted, up, sigs, worker, unwatched, records, ledger, jobs>>

(* The bridge raised its threshold after the handler had read it, and the  *)
(* list has the length that was asked for before.                          *)
CountOutdated(c) ==
    /\ handler[c] = "count"
    /\ ~ ThresholdMet(c)
    /\ Fault("threshold")
    /\ MoveTo(c, "check")
    /\ UNCHANGED <<emitted, up, sigs, worker, unwatched, records, ledger, jobs>>

(* addToQueue, first await: is there a job with this id?  An error is      *)
(* logged and the job forgotten.                                           *)
CheckJob(c) ==
    /\ handler[c] = "check"
    /\ \/ NoFault /\ Exists(JobOf(c.transfer)) /\ MoveTo(c, "done")
       \/ NoFault /\ ~ Exists(JobOf(c.transfer)) /\ MoveTo(c, "add")
       \/ Fault("queue") /\ MoveTo(c, "done")
    /\ UNCHANGED <<emitted, up, sigs, worker, unwatched, records, ledger, jobs>>

(* addToQueue, second await: queue.add. *)
AddJob(c) ==
    /\ handler[c] = "add"
    /\ MoveTo(c, "done")
    /\ \/ NoFault /\ Enqueue(JobOf(c.transfer), c.transfer)
       \/ Fault("queue") /\ UNCHANGED jobs
    /\ UNCHANGED <<emitted, up, sigs, worker, unwatched, records, ledger>>

-----------------------------------------------------------------------------
(* The queue processor: one job at a time per node.                        *)

(* BullMQ calls process. *)
Take(n, j) ==
    /\ n \in up
    /\ ~ Working(n)
    /\ Fetch(n, j)
    /\ worker' = [worker EXCEPT ![n] = [step |-> "lrange", transfer |-> jobs[j].transfer,
                                        held |-> <<>>, failed |-> FALSE]]
    /\ UNCHANGED <<emitted, up, handler, sigs, unwatched, records, faults, ledger>>

At(n, step) == Working(n) /\ worker[n].step = step

(* A variant: the range stops one short of the end.                        *)
Lrange_ButLast(m) == SubSeq(sigs[m], 1, Len(sigs[m]) - 1)

Lrange(m) == sigs[m]

(* A variant: a run with an empty list waits for signatures.               *)
ReadList_Waits(n) ==
    LET list == Lrange(Message(worker[n].transfer))
    IN  /\ At(n, "lrange")
        /\ NoFault /\ list # <<>>
        /\ worker' = [worker EXCEPT ![n].step = "del", ![n].held = list]
        /\ UNCHANGED <<emitted, up, handler, sigs, unwatched, records, ledger, jobs>>

(* An empty list ends the run without an error.  A failed lrange is        *)
(* undefined, and reading its length throws into the catch.                *)
ReadList(n) ==
    LET list == Lrange(Message(worker[n].transfer))
    IN  /\ At(n, "lrange")
        /\ \/ /\ NoFault /\ list = <<>>
              /\ worker' = [worker EXCEPT ![n].step = "complete"]
           \/ /\ NoFault /\ list # <<>>
              /\ worker' = [worker EXCEPT ![n].step = "del", ![n].held = list]
           \/ /\ Fault("redis")
              /\ worker' = [worker EXCEPT ![n].step = "complete", ![n].failed = TRUE]
        /\ UNCHANGED <<emitted, up, handler, sigs, unwatched, records, ledger, jobs>>

(* A run ends; an error of any call ends in the same catch.                *)
Ends(n, failed) == worker' = [worker EXCEPT ![n].step = "complete", ![n].failed = failed]

(* del drops the whole list, also what was pushed since lrange.  A failed  *)
(* del is logged, and the run goes on.  A del whose answer was lost with   *)
(* the connection is sent again.                                           *)
DeleteList(n) ==
    LET Forget == sigs' = [sigs EXCEPT ![Message(worker[n].transfer)] = <<>>]
        Submits == worker' = [worker EXCEPT ![n].step = "submit"]
    IN  /\ At(n, "del")
        /\ \/ NoFault /\ Forget /\ Submits
           \/ Fault("redis") /\ UNCHANGED sigs /\ Submits
           \/ Fault("resend") /\ Forget /\ UNCHANGED worker
        /\ UNCHANGED <<emitted, up, handler, unwatched, records, ledger, jobs>>

AcceptsNow(tx) == Accepts(Log[tx.transfer].to, Message(tx.transfer), tx.held)

(* The call to the destination, up to the hash of its transaction.  Its    *)
(* gas estimate, or its simulation on Solana, runs the contract: a list    *)
(* that the contract rejects now is never sent.                            *)
Submit(n) ==
    /\ At(n, "submit")
    /\ \/ /\ NoFault /\ AcceptsNow(worker[n])
          /\ worker' = [worker EXCEPT ![n].step = "wait"]
       \/ NoFault /\ ~ AcceptsNow(worker[n]) /\ Ends(n, TRUE)
       \/ Fault("submit") /\ Ends(n, TRUE)
    /\ UNCHANGED <<emitted, up, handler, sigs, unwatched, records, ledger, jobs>>

(* The destination executes a transaction.  It may reject now what it      *)
(* accepted before: somebody else's transaction came first.                *)
Execute(tx) == IF AcceptsNow(tx) THEN Pay(tx.transfer, tx.held) ELSE UNCHANGED ledger

SentBy(n) == [transfer |-> worker[n].transfer, held |-> worker[n].held]

(* tx.wait() returns a receipt, or throws when the transaction reverted.   *)
Mined(n) ==
    /\ At(n, "wait")
    /\ NoFault
    /\ Execute(SentBy(n))
    /\ Ends(n, ~ AcceptsNow(worker[n]))
    /\ UNCHANGED <<emitted, up, handler, sigs, unwatched, records, jobs>>

(* The wait ends with an error of its own; the transaction is still there. *)
WaitFails(n) ==
    /\ At(n, "wait")
    /\ Fault("receipt")
    /\ unwatched' = unwatched \cup {SentBy(n)}
    /\ Ends(n, TRUE)
    /\ UNCHANGED <<emitted, up, handler, sigs, records, ledger, jobs>>

(* The transaction is never mined.  On Solana its blockhash expires, which *)
(* throws; tx.wait() waits for ever.                                       *)
Evicted(n) ==
    /\ At(n, "wait")
    /\ Fault("drop")
    /\ IF Log[worker[n].transfer].to = Solana
       THEN Ends(n, TRUE)
       ELSE worker' = [worker EXCEPT ![n].step = "hung"]
    /\ UNCHANGED <<emitted, up, handler, sigs, unwatched, records, ledger, jobs>>

(* A transaction that nobody waits for any more is mined. *)
MinedUnwatched(tx) ==
    /\ unwatched' = unwatched \ {tx}
    /\ Execute(tx)
    /\ UNCHANGED <<emitted, up, handler, sigs, worker, records, faults, jobs>>

(* process returned, failed or not: BullMQ completes the job, and the      *)
(* completed event stores the transaction, unless the gRPC call fails.  A  *)
(* worker that lost the lock of its job completes nothing.                 *)
Finish(n) ==
    LET e == worker[n].transfer
    IN  /\ At(n, "complete")
        /\ worker' = [worker EXCEPT ![n] = Idle]
        /\ Complete(n, JobOf(e))
        /\ \/ /\ NoFault /\ HoldsLock(n, JobOf(e))
              /\ records' = [records EXCEPT ![e] = @ + 1]
           \/ /\ NoFault /\ ~ HoldsLock(n, JobOf(e))
              /\ UNCHANGED records
           \/ /\ Fault("grpc") /\ HoldsLock(n, JobOf(e))
              /\ UNCHANGED records
        /\ UNCHANGED <<emitted, up, handler, sigs, unwatched, ledger>>

-----------------------------------------------------------------------------
(* Crashes.  A handler that throws (a token that is not configured, a      *)
(* failed threshold or mint call) is a rejected promise nobody handles,    *)
(* which ends the process too: the same as a crash at that await.  What    *)
(* was sent to a chain stays there.                                        *)

AfterCrash(step) ==
    CASE step = "wire"        -> "lost"
      [] step \in InProgress  -> "dead"
      [] OTHER                -> step

Crash(n) ==
    /\ n \in up
    /\ Fault("crash")
    /\ up' = up \ {n}
    /\ handler' = [c \in Calls |-> IF c.node = n THEN AfterCrash(handler[c]) ELSE handler[c]]
    /\ worker' = [worker EXCEPT ![n] = Idle]
    /\ unwatched' = unwatched \cup IF At(n, "wait") THEN {SentBy(n)} ELSE {}
    /\ UNCHANGED <<emitted, sigs, records, ledger, jobs>>

Restart(n) ==
    /\ n \notin up
    /\ up' = up \cup {n}
    /\ UNCHANGED <<emitted, handler, sigs, worker, unwatched, records, faults, ledger, jobs>>

(* The process that held the lock of the job is gone. *)
Orphaned(j) == Active(j) /\ ~ Running(jobs[j].owner, j)

(* A running node finds a job whose owner is gone, *)
PutBackOrphan(j) ==
    /\ up # {}
    /\ Orphaned(j)
    /\ PutBack(j)
    /\ UNCHANGED <<emitted, up, handler, sigs, worker, unwatched, records, faults, ledger>>

(* or one whose owner still runs it but was too slow to renew the lock.    *)
PutBackSlow(j) ==
    /\ Active(j) /\ Running(jobs[j].owner, j)
    /\ Fault("stall")
    /\ PutBack(j)
    /\ UNCHANGED <<emitted, up, handler, sigs, worker, unwatched, records, ledger>>

-----------------------------------------------------------------------------
HandlerStep(c) == Push(c) \/ Count(c) \/ CheckJob(c) \/ AddJob(c)

WorkerStep(n) ==
    \/ \E j \in JobIds : Take(n, j)
    \/ ReadList(n)
    \/ DeleteList(n)
    \/ Submit(n)
    \/ Mined(n)
    \/ Finish(n)

Next ==
    \/ \E t \in Txs : Emit(t)
    \/ \E c \in Calls : Miss(c) \/ Redeliver(c) \/ HandlerStep(c)
                        \/ Resend(c) \/ CountOutdated(c)
    \/ \E n \in Nodes : WorkerStep(n) \/ WaitFails(n) \/ Evicted(n) \/ Crash(n) \/ Restart(n)
    \/ \E tx \in unwatched : MinedUnwatched(tx)
    \/ \E j \in JobIds : PutBackOrphan(j) \/ PutBackSlow(j)

Spec == Init /\ [][Next]_vars

(* The event loop runs every handler and worker that has something to do,  *)
(* a chain mines what was sent to it and not dropped, and BullMQ looks for *)
(* stalled jobs periodically.  Nothing makes a user send a transaction, a  *)
(* fault happen or an operator restart a node.                             *)
Fairness ==
    /\ \A c \in Calls : WF_vars(HandlerStep(c))
    /\ \A n \in Nodes : WF_vars(WorkerStep(n))
    /\ \A j \in JobIds : WF_vars(PutBackOrphan(j))
    /\ WF_vars(\E tx \in unwatched : MinedUnwatched(tx))

FairSpec == Spec /\ Fairness

-----------------------------------------------------------------------------
(* Properties of every run, whatever the faults.                           *)

(* A transfer is paid at most once.  The list, the job id and the job are  *)
(* no protection: late handlers, stalled jobs and repeated logs all submit *)
(* a second time, and every node's signatures are pushed again after del.  *)
(* It takes QuorumsIntersect and signatures that repeat exactly.           *)
PaidOnce ==
    \A c \in Chains : \A p, q \in ledger[c] :
        p.transfer = q.transfer => p = q

(* Of the transfers that a contract cannot tell apart - the logs of one    *)
(* transaction to one chain, or messages with the same bytes on Solana -   *)
(* at most one is ever paid: nobody can use signatures made for one to be  *)
(* paid for another as well.                                               *)
PaidOncePerDigest ==
    \A c \in Chains : \A p, q \in ledger[c] :
        Digest(c, Message(p.transfer)) = Digest(c, Message(q.transfer)) => p = q

(* Whatever is paid was mined at its origin, is paid at its destination,   *)
(* and was signed by a threshold of distinct nodes that handled its log.   *)
PaidByQuorum ==
    \A c \in Chains : \A p \in ledger[c] :
        LET signers == {s.by : s \in p.signatures}
        IN  /\ Log[p.transfer].to = c
            /\ Log[p.transfer].tx \in emitted
            /\ signers \subseteq Signers(Message(p.transfer))
            /\ Cardinality(signers) >= Threshold[c]

(* The relay implements the promise of BridgeTransfer: a step of a handler *)
(* that pushes is an approval, a step of a contract that pays a settlement.*)
Promise ==
    INSTANCE BridgeTransfer
    WITH locked   <- emitted,
         approved <- [m \in Messages |-> Signers(m)],
         settled  <- [e \in Transfers |->
                        Cardinality({p \in ledger[Log[e].to] : p.transfer = e})]

ImplementsPromise == Promise!Spec

-----------------------------------------------------------------------------
(* Properties of the runs in which no log is repeated, Redis answers and   *)
(* no process crashes (a log may be missed, a lock lost, a receipt or a    *)
(* record dropped), and every transfer has a transaction of its own.       *)

(* The transfer is paid, or it is about to be: a worker holds a list that  *)
(* its contract accepts, or sent it and forgot about it.                   *)
Secured(e) ==
    \/ Paid(e)
    \/ \E n \in Nodes : /\ Running(n, JobOf(e))
                        /\ worker[n].step \in {"del", "submit", "wait"}
                        /\ Accepts(Log[e].to, Message(e), worker[n].held)
    \/ \E tx \in unwatched : tx.transfer = e /\ AcceptsNow(tx)

(* Once a threshold of nodes has signed and no handler is still counting,  *)
(* somebody has taken charge: a worker runs the job, or it waits for one.  *)
(* Every handler reads the length of a list that others push to and a      *)
(* worker deletes, and exactly the one that matters must see it full.      *)
QuorumServed ==
    \A e \in Transfers :
        (/\ Cardinality(Signers(Message(e))) >= Threshold[Log[e].to]
         /\ \A c \in Calls : c.transfer = e => handler[c] \notin InProgress)
        => Secured(e) \/ Waiting(JobOf(e)) \/ \E n \in Nodes : Running(n, JobOf(e))

(* An error that processJob swallows costs nothing: when a run fails, the  *)
(* transfer is paid or another run is about to pay it.                     *)
FailsOnlyWhenSecured ==
    \A n \in Nodes :
        At(n, "complete") /\ worker[n].failed => Secured(worker[n].transfer)

(* A transaction is stored in the API only when its transfer is paid or    *)
(* about to be - though onCompleted runs after every run of a job, also    *)
(* after those that failed or found no signatures.                         *)
RecordedOnlyWhenSecured ==
    \A e \in Transfers : records[e] > 0 => Secured(e)

(* del also drops what was pushed after lrange.  Those signatures are      *)
(* spare: whenever a list is dropped, the transfer is secured.             *)
DropsOnlySpares ==
    [][\A e \in Transfers :
         Len(sigs'[Message(e)]) < Len(sigs[Message(e)]) => Secured(e)']_vars

(* The handlers of so many nodes never hear of the log that the others are *)
(* fewer than the threshold.                                               *)
TooFewNotified(e) ==
    LET Missed == {n \in Nodes : \E c \in Calls : /\ c.node = n /\ c.transfer = e
                                                 /\ handler[c] = "lost"}
    IN  Cardinality(Nodes \ Missed) < Threshold[Log[e].to]

(* Nobody will do anything more for the transfer. *)
AtRest(e) ==
    /\ \A c \in Calls : c.transfer = e => handler[c] \notin {"wire"} \cup InProgress
    /\ ~ Waiting(JobOf(e))
    /\ \A n \in Nodes : ~ Running(n, JobOf(e))
    /\ \A tx \in unwatched : tx.transfer # e

(* When everybody has finished with a mined transfer it is paid, unless    *)
(* fewer nodes than the threshold were notified: none of the ways to give  *)
(* up - a job that is there already, a swallowed error, a failed job -     *)
(* gives up on money that is still to be paid.                             *)
PaidAtRest ==
    \A e \in Transfers :
        Log[e].tx \in emitted /\ AtRest(e) => Paid(e) \/ TooFewNotified(e)

(* Properties of runs with fairness.                                       *)

HungOn(e) == \E n \in Nodes : At(n, "hung") /\ worker[n].transfer = e

(* Every transfer mined at its origin is paid, if no process crashes and   *)
(* at least a threshold of nodes is notified of it, unless its transaction *)
(* is dropped and its worker waits for it: then only that transfer is lost *)
(* and only that worker, and the others serve the other transfers.         *)
Delivered ==
    [](up = Nodes) =>
        \A e \in Transfers :
            Log[e].tx \in emitted ~> Paid(e) \/ TooFewNotified(e) \/ HungOn(e)

-----------------------------------------------------------------------------
(* Recovery from crashes.                                                  *)

(* Every node whose signature came when the list was full, or made it so,  *)
(* died between its push and addToQueue: no restart repeats those steps.   *)
LateSignersDied(e) ==
    LET list == sigs[Message(e)]
    IN  \A i \in Threshold[Log[e].to] .. Len(list) :
            \E c \in Calls : /\ Message(c.transfer) = Message(e)
                            /\ c.node = list[i].by
                            /\ handler[c] = "dead"

(* One worker of the job more was lost than BullMQ puts it back: it fails, *)
(* or is about to, and a failed job is run by nobody and keeps its id.     *)
LostTooOften(j) ==
    /\ Exists(j)
    /\ jobs[j].state = "failed" \/ Orphaned(j)
    /\ jobs[j].stalls = MaxStalls
    /\ faults > MaxStalls

(* A list that the contract would accept is never left alone: its job      *)
(* waits, is run by a worker that has not deleted the list yet, or will be *)
(* put back; or a handler is about to queue it.  There are two gaps, each  *)
(* with its price: all the late signers died, or more workers of the job   *)
(* were lost than it is put back for.  A failed job serves nothing.        *)
FullListIsServed ==
    \A e \in Transfers :
        LET j == JobOf(e)
        IN  Accepts(Log[e].to, Message(e), sigs[Message(e)]) =>
                \/ Waiting(j)
                \/ \E n \in Nodes : Running(n, j) /\ worker[n].step \in {"lrange", "del"}
                \/ Orphaned(j) /\ jobs[j].stalls < MaxStalls
                \/ \E c \in Calls : /\ Message(c.transfer) = Message(e)
                                    /\ handler[c] \in InProgress
                \/ LateSignersDied(e)
                \/ LostTooOften(j)

(* Two workers run one job only after a lock was lost by its owner: a job  *)
(* that is put back after a crash, completed, or queued again by a late    *)
(* handler never has a second worker beside the one that holds it.         *)
OneWorkerPerJob ==
    \A j \in JobIds : \A n, k \in Nodes :
        Running(n, j) /\ Running(k, j) => n = k

(* A job never stays locked by a process that is gone. *)
ActiveJobsEnd ==
    \A j \in JobIds :
        Active(j) ~> \/ ~ Active(j)
                     \/ \E n \in Nodes : At(n, "hung") /\ HoldsLock(n, j)

(* A worker that crashes before del loses nothing: the job is put back and *)
(* another worker pays from the list that is still in Redis - unless that  *)
(* one is lost too.                                                        *)
OrphanedQuorumIsPaid ==
    \A e \in Transfers : \A k \in 1 .. MaxFaults :
        LET j == JobOf(e)
        IN  (/\ Orphaned(j) /\ jobs[j].stalls < MaxStalls
             /\ Accepts(Log[e].to, Message(e), sigs[Message(e)])
             /\ faults = k) ~> Paid(e) \/ faults > k

-----------------------------------------------------------------------------
(* What the repository's text and tests say, and the code does not keep.   *)

(* A job is in the queue only if a threshold of nodes has signed ("should  *)
(* not add job when threshold not met", ethereum-client.service.spec.ts).  *)
(* The code keeps it for transfers that have a transaction of their own    *)
(* and for which the threshold asked for is that of the destination.       *)
QueuedOnlyByQuorum ==
    \A e \in Transfers :
        Exists(JobOf(e)) => Cardinality(Signers(Message(e))) >= Threshold[Log[e].to]

(* A run that fails leaves its job in the queue, for the attempts it was   *)
(* added with ("@throws Error if the job processing fails").               *)
FailedJobStaysQueued ==
    [][\A n \in Nodes :
         (/\ At(n, "complete") /\ worker[n].failed
          /\ HoldsLock(n, JobOf(worker[n].transfer)))
         => jobs'[JobOf(worker[n].transfer)] # NoJob]_vars
=============================================================================
