------------------------- MODULE BridgeQuiet_proofs -------------------------
(***************************************************************************)
(* What a system without crashes, failing Redis commands and repeated logs *)
(* keeps, for any number of nodes and transfers: a quorum is never left    *)
(* without somebody in charge, and no error costs a transfer.              *)
(***************************************************************************)
EXTENDS BridgeLists_proofs

(* Faults that lose neither a signature nor a transaction. *)
Harmless == {"miss", "stall", "receipt", "grpc"}

LEMMA HarmlessKeepsLists == OnlyFaults(Harmless) => OnlyFaults(KeepsLists)
  BY DEF OnlyFaults, Harmless, KeepsLists

(* Until a transfer is paid, its contract has used no signature for it.    *)
UnusedUntilPaid ==
    \A e \in Transfers : ~ Paid(e) => UsedSignatures(Log[e].to, Message(e)) = {}

LEMMA NothingUsed == Distinguished /\ TypeOK /\ PaymentInv => UnusedUntilPaid
  <1> SUFFICES ASSUME Distinguished, TypeOK, PaymentInv, NEW e \in Transfers, ~ Paid(e)
               PROVE  UsedSignatures(Log[e].to, Message(e)) = {}
    BY DEF UnusedUntilPaid
  <1>1. PaymentsFor(Log[e].to, Message(e)) = {}
    <2> SUFFICES ASSUME NEW p \in ledger[Log[e].to],
                        Digest(Log[e].to, Message(p.transfer)) = Digest(Log[e].to, Message(e))
                 PROVE  FALSE
      BY DEF PaymentsFor
    <2>1. Log[e].to \in Chains
      BY ConstantTypes
    <2>2. p.transfer \in Transfers
      BY <2>1 DEF TypeOK, LedgerTypeOK, Payments
    <2>3. p.transfer = e
      BY <2>2 DEF Distinguished
    <2> QED
      BY <2>3 DEF Paid
  <1> QED
    BY <1>1 DEF UsedSignatures

(* A step leaves a run of a transfer alone, sends its list, executes the   *)
(* transaction that was sent, or leaves it unwatched.                      *)
LEMMA RunSteps ==
    ASSUME TypeOK, OnlyFaults(Harmless), [Next]_vars, NEW n \in Nodes, Working(n),
           worker[n].step \in {"del", "submit", "wait"}, AcceptsNow(worker[n])
    PROVE  \/ /\ Working(n)'
              /\ worker'[n].step \in {"del", "submit", "wait"}
              /\ worker'[n].transfer = worker[n].transfer
              /\ worker'[n].held = worker[n].held
           \/ At(n, "wait") /\ Execute(SentBy(n))
           \/ At(n, "wait") /\ SentBy(n) \in unwatched'
  <1>1. worker[n] \in Runs
    BY WorkerTypes
  <1>2. CASE worker'[n] = worker[n]
    BY <1>2 DEF Working
  <1>3. ASSUME NEW step \in {"submit", "wait"}, worker'[n] = [worker[n] EXCEPT !.step = step]
        PROVE  /\ Working(n)'
               /\ worker'[n].step \in {"del", "submit", "wait"}
               /\ worker'[n].transfer = worker[n].transfer
               /\ worker'[n].held = worker[n].held
    <2>1. /\ worker'[n].step = step
          /\ worker'[n].transfer = worker[n].transfer
          /\ worker'[n].held = worker[n].held
      BY <1>1, <1>3 DEF Runs
    <2>2. Idle.step = "idle"
      BY DEF Idle
    <2> QED
      BY <2>1, <2>2 DEF Working
  <1>4. CASE DeleteList(n)
    <2>1. ~ Fault("resend")
      BY FaultsAllowed DEF Harmless
    <2>2. worker' = [worker EXCEPT ![n].step = "submit"]
      BY <1>4, <2>1 DEF DeleteList
    <2> QED
      BY <1>3, <2>2 DEF TypeOK
  <1>5. CASE Submit(n)
    <2>1. ~ Fault("submit")
      BY FaultsAllowed DEF Harmless
    <2>2. worker' = [worker EXCEPT ![n].step = "wait"]
      BY <1>5, <2>1 DEF Submit
    <2> QED
      BY <1>3, <2>2 DEF TypeOK
  <1>6. CASE Mined(n)
    BY <1>6 DEF Mined
  <1>7. CASE WaitFails(n)
    BY <1>7 DEF WaitFails
  <1>8. ~ Evicted(n) /\ ~ Crash(n)
    <2>1. ~ Fault("drop") /\ ~ Fault("crash")
      BY FaultsAllowed DEF Harmless
    <2> QED
      BY <2>1 DEF Evicted, Crash
  <1>9. ~ Finish(n) /\ ~ ReadList(n) /\ \A j \in JobIds : ~ Take(n, j)
    BY DEF Finish, ReadList, Take, At
  <1>10. ASSUME NEW k \in Nodes, k # n,
                \/ \E j \in JobIds : Take(k, j)
                \/ ReadList(k) \/ DeleteList(k) \/ Submit(k) \/ Mined(k) \/ Finish(k)
                \/ WaitFails(k) \/ Evicted(k) \/ Crash(k)
         PROVE  worker'[n] = worker[n]
    BY <1>10 DEF Take, ReadList, DeleteList, Submit, Mined, Finish, WaitFails, Evicted, Crash,
                 Ends, TypeOK
  <1>11. \/ UNCHANGED worker
         \/ \E k \in Nodes :
              \/ \E j \in JobIds : Take(k, j)
              \/ ReadList(k) \/ DeleteList(k) \/ Submit(k) \/ Mined(k) \/ Finish(k)
              \/ WaitFails(k) \/ Evicted(k) \/ Crash(k)
    BY DEF Next, vars, Emit, Miss, Redeliver, HandlerStep, Push, Resend, Count, CountOutdated,
           CheckJob, AddJob, WorkerStep, MinedUnwatched, Restart, PutBackOrphan, PutBackSlow
  <1> QED
    BY <1>2, <1>4, <1>5, <1>6, <1>7, <1>8, <1>9, <1>10, <1>11

LEMMA PaidStays ==
    ASSUME TypeOK, [Next]_vars, NEW e \in Transfers, Paid(e)
    PROVE  Paid(e)'
  <1>1. CASE UNCHANGED ledger
    BY <1>1 DEF Paid
  <1>2. ASSUME NEW tx, InFlight(tx), Pay(tx.transfer, tx.held) PROVE Paid(e)'
    <2>1. Log[e].to \in Chains /\ Log[tx.transfer].to \in Chains
      BY <1>2, InFlightTypes, ConstantTypes
    <2>2. ledger[Log[e].to] \subseteq ledger'[Log[e].to]
      BY <1>2, <2>1 DEF Pay, TypeOK, LedgerTypeOK
    <2> QED
      BY <2>2 DEF Paid
  <1> QED
    BY <1>1, <1>2, LedgerSteps

LEMMA PayPays ==
    ASSUME TypeOK, NEW tx, InFlight(tx), AcceptsNow(tx), Execute(tx)
    PROVE  Paid(tx.transfer)'
  <1>1. Log[tx.transfer].to \in Chains
    BY InFlightTypes
  <1>2. [transfer |-> tx.transfer, signatures |-> Range(tx.held)]
           \in ledger'[Log[tx.transfer].to]
    BY <1>1 DEF Execute, Pay, TypeOK, LedgerTypeOK
  <1> QED
    BY <1>2 DEF Paid

(* A transfer that is secured remains so: its list stays acceptable until  *)
(* it is paid.                                                             *)
LEMMA SecuredStays ==
    ASSUME Distinguished, OnlyFaults(Harmless), TypeOK, UnusedUntilPaid',
           [Next]_vars, NEW e \in Transfers, Secured(e)
    PROVE  Secured(e)'
  <1> SUFFICES ASSUME ~ Paid(e)' PROVE Secured(e)'
    BY DEF Secured
  <1>1. ~ Paid(e)
    BY PaidStays
  <1>2. UsedSignatures(Log[e].to, Message(e))' = {}
    BY DEF UnusedUntilPaid
  <1>3. ASSUME NEW tx \in unwatched', tx.transfer = e,
               Accepts(Log[e].to, Message(e), tx.held)
        PROVE  Secured(e)'
    <2>1. Accepts(Log[e].to, Message(e), tx.held)'
      BY <1>2, <1>3 DEF Accepts
    <2> QED
      BY <1>3, <2>1 DEF Secured, AcceptsNow
  <1>4. ASSUME NEW n \in Nodes, Running(n, JobOf(e)),
               worker[n].step \in {"del", "submit", "wait"},
               Accepts(Log[e].to, Message(e), worker[n].held)
        PROVE  Secured(e)'
    <2>1. worker[n].transfer \in Transfers /\ worker[n].transfer = e /\ Working(n)
      BY <1>4, WorkerTypes, OneTransfer DEF Running
    <2>2. AcceptsNow(worker[n])
      BY <1>4, <2>1 DEF AcceptsNow
    <2>3. ASSUME Working(n)', worker'[n].step \in {"del", "submit", "wait"},
                 worker'[n].transfer = worker[n].transfer, worker'[n].held = worker[n].held
          PROVE  Secured(e)'
      <3>1. Accepts(Log[e].to, Message(e), worker[n].held)'
        BY <1>2, <1>4, <2>3 DEF Accepts
      <3>2. Running(n, JobOf(e))'
        BY <2>1, <2>3 DEF Running, JobOf
      <3> QED
        BY <2>3, <3>1, <3>2 DEF Secured
    <2>4. SentBy(n).transfer = e /\ SentBy(n).held = worker[n].held
      BY <2>1 DEF SentBy
    <2>5. ASSUME At(n, "wait"), Execute(SentBy(n)) PROVE FALSE
      <3>1. InFlight(SentBy(n)) /\ AcceptsNow(SentBy(n))
        BY <2>2, <2>4, <2>5 DEF InFlight, AcceptsNow, SentBy
      <3> QED
        BY <2>4, <2>5, <3>1, PayPays
    <2> QED
      BY <1>3, <1>4, <2>1, <2>2, <2>3, <2>4, <2>5, RunSteps
  <1>5. ASSUME NEW tx \in unwatched, tx.transfer = e, AcceptsNow(tx) PROVE Secured(e)'
    <2>1. CASE tx \in unwatched'
      BY <1>3, <1>5, <2>1 DEF AcceptsNow
    <2>2. CASE tx \notin unwatched'
      <3>1. MinedUnwatched(tx)
        BY <2>2 DEF Next, vars, Emit, Miss, Redeliver, HandlerStep, Push, Resend, Count,
             CountOutdated, CheckJob, AddJob, WorkerStep, Take, ReadList, DeleteList, Submit,
             Mined, WaitFails, Evicted, Finish, MinedUnwatched, Crash, Restart,
             PutBackOrphan, PutBackSlow
      <3> QED
        BY <1>5, <3>1, PayPays DEF MinedUnwatched, InFlight
    <2> QED
      BY <2>1, <2>2
  <1> QED
    BY <1>1, <1>4, <1>5 DEF Secured

-----------------------------------------------------------------------------
(* Until a transfer is secured, its list is as it should be, nobody has    *)
(* read it, and its job waits or is run - by some worker, perhaps not the  *)
(* one that holds its lock: the inductive invariant of a quiet system.     *)

Unserved(e) ==
    /\ Fresh(e)
    /\ \A n \in Nodes : Running(n, JobOf(e)) => worker[n].step = "lrange"
    /\ Exists(JobOf(e)) => Waiting(JobOf(e)) \/ \E n \in Nodes : Running(n, JobOf(e))
    /\ records[e] = 0

NoneDead == \A c \in Calls : handler[c] # "dead"

ServedOrSecured == NoneDead /\ \A e \in Transfers : Secured(e) \/ Unserved(e)

LEMMA InitServed == Init => ServedOrSecured
  <1> SUFFICES ASSUME Init PROVE ServedOrSecured
    OBVIOUS
  <1>1. NoneDead
    BY DEF Init, NoneDead
  <1>2. ASSUME NEW e \in Transfers PROVE Unserved(e)
    <2>1. Fresh(e)
      BY InitFresh
    <2>2. JobOf(e) \in JobIds /\ ~ Exists(JobOf(e))
      BY ConstantTypes DEF Init, QueueInit, Exists
    <2> QED
      BY <2>1, <2>2 DEF Init, Unserved, Running, Working
  <1> QED
    BY <1>1, <1>2 DEF ServedOrSecured

LEMMA NextNoneDead ==
    ASSUME OnlyFaults(Harmless), TypeOK, HandlerInv, NoneDead, [Next]_vars
    PROVE  NoneDead'
  <1> SUFFICES ASSUME NEW c \in Calls, handler'[c] = "dead" PROVE FALSE
    BY DEF NoneDead
  <1>1. ASSUME NEW d \in Calls, HandlerStep(d) \/ CountOutdated(d) PROVE FALSE
    <2>1. \E step : MoveTo(d, step) /\ step # "dead"
      BY <1>1 DEF HandlerStep, Push, Count, CountOutdated, CheckJob, AddJob
    <2> QED
      BY <2>1 DEF MoveTo, TypeOK, NoneDead
  <1>2. ASSUME NEW n \in Nodes, Crash(n) PROVE FALSE
    BY <1>2, FaultsAllowed DEF Harmless, Crash
  <1>3. \A t \in Txs : ~ Emit(t)
    BY DEF Emit, NoneDead
  <1>4. \A d \in Calls : ~ Miss(d) /\ ~ Redeliver(d)
    BY DEF Miss, Redeliver, NoneDead
  <1>5. ~ UNCHANGED handler
    BY DEF NoneDead
  <1> QED
    BY <1>1, <1>2, <1>3, <1>4, <1>5
       DEF Next, vars, HandlerStep, Resend, WorkerStep, Take, ReadList, DeleteList, Submit,
           Mined, WaitFails, Evicted, Finish, MinedUnwatched, Restart, PutBackOrphan,
           PutBackSlow

(* Whoever reads a full list takes all the signatures there are. *)
LEMMA ReadSecures ==
    ASSUME OnlyFaults(Harmless), TypeOK, ListsDistinct, UnusedUntilPaid,
           NEW n \in Nodes, ReadList(n), NEW e \in Transfers, worker[n].transfer = e,
           Unserved(e)
    PROVE  Secured(e)'
  <1> DEFINE m == Message(e)
             T == Threshold[Log[e].to]
             list == sigs[m]
  <1>1. /\ list \in Seq(Signatures) /\ UNCHANGED ledger
        /\ Full(e) /\ Len(list) >= T /\ Distinct(e)
    BY ConstantTypes DEF ReadList, At, TypeOK, Unserved, Fresh, Running, Full, ListsDistinct
  <1>2. CASE Paid(e)
    BY <1>1, <1>2 DEF Secured, Paid
  <1>3. CASE ~ Paid(e)
    <2>1. Cardinality(Range(list)) = Len(list)
      <3>1. \A i, k \in 1 .. Len(list) : list[i] = list[k] => i = k
        BY <1>1 DEF Distinct
      <3> HIDE DEF list
      <3>2. list \in Seq(Signatures) /\ Len(list) \in Nat /\ DOMAIN list = 1 .. Len(list)
        BY <1>1
      <3>3. list \in Bijection(1 .. Len(list), Range(list))
        BY <3>1, <3>2 DEF Bijection, Injection, Surjection, IsInjective, Range
      <3>4. ExistsBijection(1 .. Len(list), Range(list))
        BY <3>3 DEF ExistsBijection
      <3> QED
        BY <3>2, <3>4, FS_CountingElements
    <2>2. \A s \in Range(list) : s.scheme = SchemeOf(Log[e].to)
      BY <1>1 DEF Range, Distinct
    <2>3. UsedSignatures(Log[e].to, m)' = {}
      BY <1>1, <1>3 DEF UnusedUntilPaid, UsedSignatures, PaymentsFor
    <2>4. /\ worker'[n].step = "del" /\ worker'[n].transfer = e
          /\ worker'[n].held = list /\ worker'[n] # Idle
      BY <1>1, HarmlessKeepsLists, ReadsFull
    <2>5. Running(n, JobOf(e))'
      BY <2>4 DEF Working, Running, JobOf
    <2>6. Accepts(Log[e].to, m, worker[n].held)'
      BY <1>1, <2>1, <2>2, <2>3, <2>4 DEF Accepts
    <2> QED
      BY <2>4, <2>5, <2>6 DEF Secured
  <1> QED
    BY <1>2, <1>3

(* A job that is there and does not wait was so before, or is taken now. *)
LEMMA JobsLeaveQueue ==
    ASSUME TypeOK, [Next]_vars, NEW j \in JobIds, Exists(j)', ~ Waiting(j)'
    PROVE  \/ Exists(j) /\ ~ Waiting(j)
           \/ \E n \in Nodes : Take(n, j)
  <1> SUFFICES ASSUME jobs'[j] # jobs[j], \A n \in Nodes : ~ Take(n, j)
               PROVE  Exists(j) /\ ~ Waiting(j)
    BY DEF Exists, Waiting
  <1>1. ASSUME NEW c \in Calls, AddJob(c) PROVE FALSE
    <2>1. JobOf(c.transfer) \in JobIds
      BY CallTypes, ConstantTypes
    <2>2. jobs'[j] = NewJob(c.transfer)
      BY <1>1, <2>1 DEF AddJob, Enqueue, TypeOK, QueueTypeOK
    <2> QED
      BY <2>2 DEF Waiting, Exists, NewJob, NoJob
  <1>2. ASSUME NEW n \in Nodes, NEW i \in JobIds, Take(n, i) PROVE FALSE
    BY <1>2 DEF Take, Fetch, TypeOK, QueueTypeOK
  <1>3. ASSUME NEW n \in Nodes, Finish(n) PROVE FALSE
    BY <1>3 DEF Finish, Complete, Exists, TypeOK, QueueTypeOK
  <1>4. ASSUME NEW i \in JobIds, PutBack(i) PROVE Exists(j) /\ ~ Waiting(j)
    BY <1>4 DEF PutBack, Active, Waiting, TypeOK, QueueTypeOK
  <1> QED
    BY <1>1, <1>2, <1>3, <1>4
       DEF Next, vars, Emit, Miss, Redeliver, HandlerStep, Push, Resend, Count, CountOutdated,
           CheckJob, WorkerStep, ReadList, DeleteList, Submit, Mined, WaitFails, Evicted,
           MinedUnwatched, Crash, Restart, PutBackOrphan, PutBackSlow

(* A run that has not read its list stays as it is until it does. *)
LEMMA RunWaits ==
    ASSUME TypeOK, OnlyFaults(Harmless), [Next]_vars, NEW n \in Nodes, At(n, "lrange"),
           ~ ReadList(n)
    PROVE  worker'[n] = worker[n]
  <1>1. ASSUME NEW k \in Nodes, k # n,
               \/ \E j \in JobIds : Take(k, j)
               \/ ReadList(k) \/ DeleteList(k) \/ Submit(k) \/ Mined(k) \/ Finish(k)
               \/ WaitFails(k) \/ Evicted(k) \/ Crash(k)
        PROVE  worker'[n] = worker[n]
    BY <1>1 DEF Take, ReadList, DeleteList, Submit, Mined, Finish, WaitFails, Evicted, Crash,
                Ends, TypeOK
  <1>2. /\ \A j \in JobIds : ~ Take(n, j)
        /\ ~ DeleteList(n) /\ ~ Submit(n) /\ ~ Mined(n) /\ ~ Finish(n)
        /\ ~ WaitFails(n) /\ ~ Evicted(n)
    BY DEF Take, DeleteList, Submit, Mined, Finish, WaitFails, Evicted, At
  <1>3. ~ Crash(n)
    BY FaultsAllowed DEF Crash, Harmless
  <1>4. \/ UNCHANGED worker
        \/ \E k \in Nodes :
             \/ \E j \in JobIds : Take(k, j)
             \/ ReadList(k) \/ DeleteList(k) \/ Submit(k) \/ Mined(k) \/ Finish(k)
             \/ WaitFails(k) \/ Evicted(k) \/ Crash(k)
    BY DEF Next, vars, Emit, Miss, Redeliver, HandlerStep, Push, Resend, Count, CountOutdated,
           CheckJob, AddJob, WorkerStep, MinedUnwatched, Restart, PutBackOrphan, PutBackSlow
  <1> QED
    BY <1>1, <1>2, <1>3, <1>4

(* Every other step leaves an unserved transfer unserved. *)
LEMMA UnservedStays ==
    ASSUME Distinguished, AsksDestination, OnlyFaults(Harmless), TypeOK, HandlerInv, Orderly,
           [Next]_vars, NEW e \in Transfers, Unserved(e),
           \A n \in Nodes : ReadList(n) => worker[n].transfer # e
    PROVE  Unserved(e)'
  <1> DEFINE j == JobOf(e)
  <1>1. \A n \in Nodes : DeleteList(n) => worker[n].transfer # e
    BY DEF DeleteList, At, Unserved, Running
  <1>2. Fresh(e)'
    <2>1. OnlyFaults(KeepsLists) /\ FirstCopy /\ JobMatches /\ Fresh(e)
      BY HarmlessKeepsLists DEF Orderly, Unserved
    <2>2. ASSUME NEW c \in Calls, HandlerStep(c), c.transfer = e PROVE Fresh(e)'
      BY <2>1, <2>2, OwnHandlerSteps
    <2> QED
      BY <1>1, <2>1, <2>2, OtherSteps
  <1>3. ASSUME NEW n \in Nodes, Running(n, j)' PROVE worker'[n].step = "lrange"
    <2>1. worker'[n] # Idle /\ JobOf(worker'[n].transfer) = j
      BY <1>3 DEF Running, Working, JobOf
    <2>2. CASE worker'[n] = worker[n]
      BY <2>1, <2>2 DEF Unserved, Running, Working
    <2>3. ASSUME Working(n), worker'[n].transfer = worker[n].transfer
          PROVE  worker[n].transfer = e /\ worker[n].step = "lrange"
      BY <2>1, <2>3, WorkerTypes, OneTransfer DEF Unserved, Running
    <2>4. ~ (ReadList(n) /\ worker'[n].transfer = worker[n].transfer)
      BY <2>3 DEF ReadList, At
    <2>5. CASE DeleteList(n)
      <3>1. worker[n] \in Runs
        BY <2>5, WorkerTypes DEF DeleteList, At
      <3>2. Working(n) /\ worker'[n].transfer = worker[n].transfer
        BY <2>5, <3>1 DEF DeleteList, At, TypeOK, Runs
      <3> QED
        BY <2>3, <2>5, <3>2 DEF DeleteList, At
    <2> QED
      BY <2>1, <2>2, <2>3, <2>4, <2>5, WorkerSteps DEF Orderly
  <1>4. records'[e] = 0
    <2>1. ASSUME NEW n \in Nodes, Finish(n) PROVE worker[n].transfer # e
      BY <2>1 DEF Finish, At, Unserved, Running
    <2>2. ASSUME NEW n \in Nodes, Finish(n) PROVE records'[e] = records[e]
      BY <2>1, <2>2 DEF Finish, TypeOK
    <2>3. UNCHANGED records \/ \E n \in Nodes : Finish(n)
      BY DEF Next, vars, Emit, Miss, Redeliver, HandlerStep, Push, Resend, Count,
             CountOutdated, CheckJob, AddJob, WorkerStep, Take, ReadList, DeleteList, Submit,
             Mined, WaitFails, Evicted, MinedUnwatched, Crash, Restart, PutBackOrphan,
             PutBackSlow
    <2> QED
      BY <2>2, <2>3 DEF Unserved
  <1>5. \A n \in Nodes : Running(n, j)' => worker'[n].step = "lrange"
    BY <1>3
  <1>6. ASSUME Exists(j)', ~ Waiting(j)' PROVE \E n \in Nodes : Running(n, j)'
    <2>0. j \in JobIds
      BY ConstantTypes
    <2>1. ASSUME NEW n \in Nodes, Take(n, j) PROVE Running(n, j)'
      <3>1. /\ Exists(j)
            /\ worker'[n] = [step |-> "lrange", transfer |-> jobs[j].transfer,
                             held |-> <<>>, failed |-> FALSE]
        BY <2>1 DEF Take, Fetch, Waiting, TypeOK
      <3>2. JobOf(jobs[j].transfer) = j /\ Idle.step = "idle"
        BY <2>0, <3>1 DEF Orderly, JobMatches, Idle
      <3>3. worker'[n].step = "lrange" /\ worker'[n].transfer = jobs[j].transfer
        BY <3>1
      <3> QED
        BY <3>2, <3>3 DEF Running, Working, JobOf
    <2>2. ASSUME Exists(j), ~ Waiting(j) PROVE \E n \in Nodes : Running(n, j)'
      <3>1. PICK n \in Nodes : Running(n, j)
        BY <2>2 DEF Unserved
      <3>2. At(n, "lrange") /\ worker[n].transfer = e
        BY <3>1, WorkerTypes, OneTransfer DEF Unserved, Running, At
      <3>3. worker'[n] = worker[n]
        BY <3>2, RunWaits
      <3> QED
        BY <3>1, <3>3 DEF Running, Working, JobOf
    <2> QED
      BY <1>6, <2>0, <2>1, <2>2, JobsLeaveQueue
  <1> QED
    BY <1>2, <1>4, <1>5, <1>6 DEF Unserved, JobOf

LEMMA NextServed ==
    ASSUME Distinguished, AsksDestination, OnlyFaults(Harmless), TypeOK, HandlerInv, Orderly,
           UnusedUntilPaid, UnusedUntilPaid', ServedOrSecured, [Next]_vars
    PROVE  ServedOrSecured'
  <1>1. NoneDead'
    BY NextNoneDead DEF ServedOrSecured
  <1>2. ASSUME NEW e \in Transfers PROVE Secured(e)' \/ Unserved(e)'
    <2>1. CASE Secured(e)
      BY <2>1, SecuredStays
    <2>2. ASSUME Unserved(e), NEW n \in Nodes, ReadList(n), worker[n].transfer = e
          PROVE  Secured(e)'
      BY <2>2, ReadSecures DEF Orderly
    <2> QED
      BY <2>1, <2>2, UnservedStays DEF ServedOrSecured
  <1> QED
    BY <1>1, <1>2 DEF ServedOrSecured

LEMMA ServedOrSecuredInvariant ==
    ASSUME Distinguished, AsksDestination, OnlyFaults(Harmless)
    PROVE  Spec => []ServedOrSecured
  <1>1. "duplicate" \notin Faults /\ "resend" \notin Faults
    BY DEF OnlyFaults, Harmless
  <1>2. Spec => []Orderly
    BY <1>1, OrderlyInvariant
  <1>3. TypeOK /\ PaymentInv => UnusedUntilPaid
    BY NothingUsed
  <1>4. /\ TypeOK /\ Provenance /\ Orderly /\ UnusedUntilPaid /\ UnusedUntilPaid'
        /\ ServedOrSecured /\ [Next]_vars
        => ServedOrSecured'
    BY NextServed DEF Provenance
  <1> QED
    BY <1>2, <1>3, <1>4, InitServed, TypeCorrect, ProvenanceInvariant, PaymentInvariant, PTL
       DEF Spec

-----------------------------------------------------------------------------
(* The properties of a quiet system.                                       *)

(* Once a threshold of nodes has signed and no handler is still counting,  *)
(* the transfer is paid, about to be, or its job waits or is run.          *)
LEMMA QuorumInCharge ==
    ServedOrSecured
    => \A e \in Transfers :
          (/\ Cardinality(Signers(Message(e))) >= Threshold[Log[e].to]
           /\ \A c \in Calls : c.transfer = e => handler[c] \notin InProgress)
          => Secured(e) \/ Waiting(JobOf(e)) \/ \E n \in Nodes : Running(n, JobOf(e))
  <1> SUFFICES ASSUME ServedOrSecured, NEW e \in Transfers, Unserved(e),
                      Cardinality(Signers(Message(e))) >= Threshold[Log[e].to],
                      \A c \in Calls : c.transfer = e => handler[c] \notin InProgress
               PROVE  Waiting(JobOf(e)) \/ \E n \in Nodes : Running(n, JobOf(e))
    BY DEF ServedOrSecured
  <1>1. Len(sigs[Message(e)]) = Cardinality(Signers(Message(e)))
    BY DEF Unserved, Fresh
  <1>2. Full(e)
    BY <1>1 DEF Full
  <1>3. ~ Asked(e, Pending)
    BY DEF Asked, Pending, ServedOrSecured, NoneDead
  <1>4. Exists(JobOf(e))
    BY <1>2, <1>3 DEF Unserved, Fresh
  <1> QED
    BY <1>4 DEF Unserved

THEOREM QuorumIsServed ==
    Distinguished /\ AsksDestination /\ OnlyFaults(Harmless) => (Spec => []QuorumServed)
  <1> SUFFICES ASSUME Distinguished, AsksDestination, OnlyFaults(Harmless)
               PROVE  Spec => []QuorumServed
    OBVIOUS
  <1>1. ServedOrSecured => QuorumServed
    BY QuorumInCharge DEF QuorumServed
  <1> QED
    BY <1>1, ServedOrSecuredInvariant, PTL

(* When a run fails, its transfer is paid or another run is about to pay.  *)
THEOREM FailuresAreHarmless ==
    Distinguished /\ AsksDestination /\ OnlyFaults(Harmless) => (Spec => []FailsOnlyWhenSecured)
  <1> SUFFICES ASSUME Distinguished, AsksDestination, OnlyFaults(Harmless)
               PROVE  Spec => []FailsOnlyWhenSecured
    OBVIOUS
  <1>1. TypeOK /\ ServedOrSecured => FailsOnlyWhenSecured
    <2> SUFFICES ASSUME TypeOK, ServedOrSecured, NEW n \in Nodes, At(n, "complete")
                 PROVE  Secured(worker[n].transfer)
      BY DEF FailsOnlyWhenSecured
    <2>1. /\ worker[n].transfer \in Transfers
          /\ Running(n, JobOf(worker[n].transfer)) /\ worker[n].step # "lrange"
      BY WorkerTypes DEF At, Running
    <2> QED
      BY <2>1 DEF ServedOrSecured, Unserved
  <1> QED
    BY <1>1, ServedOrSecuredInvariant, TypeCorrect, PTL

(* A transaction is stored only when its transfer is paid or about to be.  *)
THEOREM RecordsAreOfSecured ==
    Distinguished /\ AsksDestination /\ OnlyFaults(Harmless)
    => (Spec => []RecordedOnlyWhenSecured)
  <1> SUFFICES ASSUME Distinguished, AsksDestination, OnlyFaults(Harmless)
               PROVE  Spec => []RecordedOnlyWhenSecured
    OBVIOUS
  <1>1. ServedOrSecured => RecordedOnlyWhenSecured
    BY DEF ServedOrSecured, Unserved, RecordedOnlyWhenSecured
  <1> QED
    BY <1>1, ServedOrSecuredInvariant, PTL

(* Whenever del shortens a list, its transfer is secured.                  *)
THEOREM DroppedAreSpares ==
    Distinguished /\ AsksDestination /\ OnlyFaults(Harmless) => (Spec => DropsOnlySpares)
  <1> SUFFICES ASSUME Distinguished, AsksDestination, OnlyFaults(Harmless)
               PROVE  Spec => DropsOnlySpares
    OBVIOUS
  <1>1. "resend" \notin Faults
    BY DEF OnlyFaults, Harmless
  <1>2. TypeOK /\ PaymentInv => UnusedUntilPaid
    BY NothingUsed
  <1>3. /\ TypeOK /\ UnusedUntilPaid' /\ ServedOrSecured /\ [Next]_vars
        => [\A e \in Transfers :
              Len(sigs'[Message(e)]) < Len(sigs[Message(e)]) => Secured(e)']_vars
    <2> SUFFICES ASSUME TypeOK, UnusedUntilPaid', ServedOrSecured, [Next]_vars,
                        NEW e \in Transfers, Len(sigs'[Message(e)]) < Len(sigs[Message(e)])
                 PROVE  Secured(e)'
      OBVIOUS
    <2>1. sigs[Message(e)] \in Seq(Signatures)
      BY ConstantTypes DEF TypeOK
    <2>2. sigs'[Message(e)] # sigs[Message(e)]
      BY <2>1
    <2>3. ASSUME NEW c \in Calls, c.transfer = e,
                 sigs'[Message(e)] = Append(sigs[Message(e)], SignatureOf(c))
          PROVE  FALSE
      BY <2>1, <2>3, CallTypes
    <2>4. ASSUME NEW n \in Nodes, DeleteList(n), worker[n].transfer = e PROVE Secured(e)
      BY <2>4 DEF DeleteList, At, Running, ServedOrSecured, Unserved
    <2>5. Secured(e)
      BY <1>1, <2>2, <2>3, <2>4, QuietListSteps
    <2> QED
      BY <2>5, SecuredStays
  <1> QED
    BY <1>2, <1>3, ServedOrSecuredInvariant, TypeCorrect, PaymentInvariant, PTL
       DEF Spec, DropsOnlySpares

-----------------------------------------------------------------------------
(* The transfer that everybody has finished with.                          *)

(* Every node was up when a transaction was mined, so it was notified, if  *)
(* only of what it then missed.                                            *)
NodesNotified ==
    /\ up = Nodes
    /\ \A c \in Calls :
          Log[c.transfer].tx \in emitted /\ c.copy = 1 => handler[c] # "none"

LEMMA NextNotified ==
    ASSUME TypeOK, OnlyFaults(Harmless), NodesNotified, [Next]_vars
    PROVE  NodesNotified'
  <1>1. \A n \in Nodes : ~ Crash(n)
    BY FaultsAllowed DEF Crash, Harmless
  <1>2. up' = Nodes
    BY <1>1 DEF NodesNotified, Next, vars, Emit, Miss, Redeliver, HandlerStep, Push, Resend,
           Count, CountOutdated, CheckJob, AddJob, WorkerStep, Take, ReadList, DeleteList,
           Submit, Mined, WaitFails, Evicted, Finish, MinedUnwatched, Restart,
           PutBackOrphan, PutBackSlow
  <1>3. ASSUME NEW c \in Calls, Log[c.transfer].tx \in emitted', c.copy = 1
        PROVE  handler'[c] # "none"
    <2>1. ASSUME handler[c] # "none" PROVE handler'[c] # "none"
      <3>1. ASSUME NEW d \in Calls, HandlerStep(d) \/ CountOutdated(d)
            PROVE  handler'[c] # "none"
        <4>1. \E step : MoveTo(d, step) /\ step # "none"
          BY <3>1 DEF HandlerStep, Push, Count, CountOutdated, CheckJob, AddJob
        <4> QED
          BY <2>1, <4>1 DEF MoveTo, TypeOK
      <3>2. ASSUME NEW d \in Calls, Miss(d) \/ Redeliver(d) PROVE handler'[c] # "none"
        BY <2>1, <3>2 DEF Miss, Redeliver
      <3>3. ASSUME NEW t \in Txs, Emit(t) PROVE handler'[c] # "none"
        BY <2>1, <3>3 DEF Emit
      <3>4. CASE UNCHANGED handler
        BY <2>1, <3>4
      <3> QED
        BY <1>1, <3>1, <3>2, <3>3, <3>4
           DEF Next, vars, Resend, WorkerStep, Take, ReadList, DeleteList, Submit, Mined,
               WaitFails, Evicted, Finish, MinedUnwatched, Restart, PutBackOrphan,
               PutBackSlow
    <2>2. ASSUME NEW t \in Txs, Emit(t) PROVE handler'[c] # "none"
      <3>1. c.node \in up /\ (Log[c.transfer].tx = t \/ Log[c.transfer].tx \in emitted)
        BY <1>3, <2>2 DEF Emit, NodesNotified, Calls
      <3> QED
        BY <1>3, <2>2, <3>1 DEF Emit, NodesNotified
    <2>3. CASE emitted' = emitted
      BY <1>3, <2>1, <2>3 DEF NodesNotified
    <2> QED
      BY <2>2, <2>3
         DEF Next, vars, Miss, Redeliver, HandlerStep, Push, Resend, Count, CountOutdated,
             CheckJob, AddJob, WorkerStep, Take, ReadList, DeleteList, Submit, Mined,
             WaitFails, Evicted, Finish, MinedUnwatched, Crash, Restart, PutBackOrphan,
             PutBackSlow
  <1> QED
    BY <1>2, <1>3 DEF NodesNotified

(* When a transfer is at rest, every node that did not miss it has signed. *)
LEMMA RestIsSigned ==
    ASSUME TypeOK, NodesNotified, NoneDead, NEW e \in Transfers, Log[e].tx \in emitted,
           AtRest(e), ~ TooFewNotified(e)
    PROVE  Cardinality(Signers(Message(e))) >= Threshold[Log[e].to]
  <1> DEFINE Missed == {n \in Nodes : \E c \in Calls : /\ c.node = n /\ c.transfer = e
                                                     /\ handler[c] = "lost"}
  <1>1. Nodes \ Missed \subseteq Signers(Message(e))
    <2> SUFFICES ASSUME NEW n \in Nodes, n \notin Missed PROVE n \in Signers(Message(e))
      OBVIOUS
    <2> DEFINE c == [node |-> n, transfer |-> e, copy |-> 1]
    <2>1. c \in Calls
      BY RelayAssumption DEF Calls
    <2>2. handler[c] \in HandlerSteps \ {"none", "lost", "dead", "wire", "count", "check", "add"}
      BY <2>1 DEF TypeOK, NodesNotified, NoneDead, AtRest, InProgress
    <2>3. handler[c] \in Pushed
      BY <2>2 DEF HandlerSteps, Pushed
    <2> QED
      BY <2>1, <2>3 DEF Signers
  <1>2. IsFiniteSet(Signers(Message(e))) /\ IsFiniteSet(Nodes \ Missed)
    <2>1. IsFiniteSet(Nodes) /\ Signers(Message(e)) \in SUBSET Nodes
      BY TransfersAssumption DEF Signers
    <2>2. Nodes \ Missed \in SUBSET Nodes
      OBVIOUS
    <2> QED
      BY <2>1, <2>2, FS_Subset
  <1>3. Cardinality(Nodes \ Missed) <= Cardinality(Signers(Message(e)))
    BY <1>1, <1>2, FS_Subset
  <1>4. ~ Cardinality(Nodes \ Missed) < Threshold[Log[e].to]
    BY DEF TooFewNotified
  <1>5. /\ Cardinality(Nodes \ Missed) \in Nat /\ Cardinality(Signers(Message(e))) \in Nat
        /\ Threshold[Log[e].to] \in Nat
    BY <1>2, ConstantTypes, FS_CardinalityType
  <1> QED
    BY <1>3, <1>4, <1>5

(* When nothing is left to do for a mined transfer, it is paid, unless too *)
(* few nodes were notified: what Delivered promises, but for its fairness. *)
THEOREM RestIsPaid ==
    Distinguished /\ AsksDestination /\ OnlyFaults(Harmless) => (Spec => []PaidAtRest)
  <1> SUFFICES ASSUME Distinguished, AsksDestination, OnlyFaults(Harmless)
               PROVE  Spec => []PaidAtRest
    OBVIOUS
  <1>1. Init => NodesNotified
    BY DEF Init, NodesNotified
  <1>2. TypeOK /\ NodesNotified /\ [Next]_vars => NodesNotified'
    BY NextNotified
  <1>3. TypeOK /\ NodesNotified /\ ServedOrSecured => PaidAtRest
    <2> SUFFICES ASSUME TypeOK, NodesNotified, ServedOrSecured, NEW e \in Transfers,
                        Log[e].tx \in emitted, AtRest(e), ~ TooFewNotified(e)
                 PROVE  Paid(e)
      BY DEF PaidAtRest
    <2>1. Cardinality(Signers(Message(e))) >= Threshold[Log[e].to]
      BY RestIsSigned DEF ServedOrSecured
    <2>2. Secured(e)
      BY <2>1, QuorumInCharge DEF AtRest
    <2> QED
      BY <2>2 DEF Secured, AtRest
  <1> QED
    BY <1>1, <1>2, <1>3, ServedOrSecuredInvariant, TypeCorrect, PTL DEF Spec
=============================================================================
