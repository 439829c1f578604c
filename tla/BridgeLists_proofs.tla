------------------------- MODULE BridgeLists_proofs -------------------------
(***************************************************************************)
(* Proofs about the lists of signatures and the jobs: what is on a list,   *)
(* who may change it, that a job has one worker and a quorum behind it,    *)
(* and that a list which is full has somebody to serve it, for any number  *)
(* of nodes, transfers and faults.                                         *)
(***************************************************************************)
EXTENDS BridgeRelay_proofs

(* No two transfers share a transaction, and neither Redis nor a contract  *)
(* confuses their messages.                                                *)
Distinguished ==
    \A e, f \in Transfers : e # f =>
        /\ JobOf(e) # JobOf(f)
        /\ Digest(Log[e].to, Message(e)) # Digest(Log[e].to, Message(f))

(* True of every transfer from an Ethereum network. *)
AsksDestination == \A e \in Transfers : HandlerThreshold(e) = Threshold[Log[e].to]

OnlyFaults(kinds) == Faults \subseteq kinds

-----------------------------------------------------------------------------
(* Facts about systems in which no log is notified twice.                  *)

(* Only the first delivery of a log is ever handled. *)
FirstCopy == \A c \in Calls : handler[c] # "none" => c.copy = 1

(* A job is for a transfer with its id. *)
JobMatches == \A j \in JobIds : Exists(j) => JobOf(jobs[j].transfer) = j

(* The signatures of a list are of different nodes, in the right scheme.   *)
Distinct(e) ==
    LET list == sigs[Message(e)]
    IN  /\ \A i, k \in 1 .. Len(list) : list[i] = list[k] => i = k
        /\ \A i \in 1 .. Len(list) : list[i].scheme = SchemeOf(Log[e].to)

ListsDistinct == \A e \in Transfers : Distinct(e)

Orderly == FirstCopy /\ JobMatches /\ ListsDistinct

LEMMA OneTransfer ==
    ASSUME Distinguished, NEW e \in Transfers, NEW f \in Transfers
    PROVE  /\ JobOf(e) = JobOf(f) => e = f
           /\ Message(e) = Message(f) => e = f
  BY DEF Distinguished, JobOf

(* The only call of a node that can have signed for a transfer. *)
LEMMA NewSigner ==
    ASSUME Distinguished, TypeOK, FirstCopy, NEW c \in Calls, handler[c] = "wire"
    PROVE  c.node \notin Signers(Message(c.transfer))
  <1> SUFFICES ASSUME NEW d \in Calls, d.node = c.node,
                      Message(d.transfer) = Message(c.transfer), handler[d] \in Pushed
               PROVE  FALSE
    BY DEF Signers
  <1>1. d.transfer = c.transfer
    BY CallTypes, OneTransfer
  <1>2. d.copy = 1 /\ c.copy = 1
    BY DEF FirstCopy, Pushed, InProgress
  <1>3. d = c
    BY <1>1, <1>2 DEF Calls
  <1> QED
    BY <1>3 DEF Pushed, InProgress

LEMMA NextFirstCopy ==
    ASSUME FirstCopy, TypeOK, "duplicate" \notin Faults, [Next]_vars
    PROVE  FirstCopy'
  <1> SUFFICES ASSUME NEW c \in Calls, handler'[c] # "none" PROVE c.copy = 1
    BY DEF FirstCopy
  <1>1. CASE handler[c] # "none"
    BY <1>1 DEF FirstCopy
  <1>2. CASE handler[c] = "none" /\ c.copy # 1
    <2>1. ASSUME NEW t \in Txs, Emit(t) PROVE FALSE
      BY <1>2, <2>1 DEF Emit
    <2>2. ASSUME NEW d \in Calls, Miss(d) PROVE FALSE
      BY <1>2, <2>2 DEF Miss
    <2>3. ASSUME NEW d \in Calls, Redeliver(d) PROVE FALSE
      BY <2>3 DEF Redeliver, Fault
    <2>4. ASSUME NEW d \in Calls, HandlerStep(d) \/ CountOutdated(d) PROVE FALSE
      <3>1. handler[d] # "none" /\ \E step : MoveTo(d, step)
        BY <2>4 DEF HandlerStep, Push, Count, CountOutdated, CheckJob, AddJob
      <3> QED
        BY <1>2, <3>1 DEF MoveTo, TypeOK
    <2>5. ASSUME NEW n \in Nodes, Crash(n) PROVE FALSE
      <3>1. handler'[c] = handler[c] \/ handler'[c] = AfterCrash(handler[c])
        BY <2>5 DEF Crash
      <3> QED
        BY <1>2, <3>1 DEF AfterCrash, InProgress
    <2>6. ~ UNCHANGED handler
      BY <1>2
    <2> QED
      BY <2>1, <2>2, <2>3, <2>4, <2>5, <2>6
         DEF Next, vars, Resend, WorkerStep, Take, ReadList, DeleteList, Submit, Mined,
             WaitFails, Evicted, Finish, MinedUnwatched, Restart, PutBackOrphan, PutBackSlow
  <1> QED
    BY <1>1, <1>2

(* How a step can change the job of an id. *)
LEMMA JobSteps ==
    ASSUME TypeOK, [Next]_vars, NEW j \in JobIds, jobs'[j] # jobs[j]
    PROVE  \/ \E c \in Calls : /\ AddJob(c) /\ JobOf(c.transfer) = j
                              /\ jobs'[j] = NewJob(c.transfer)
           \/ /\ Exists(j) /\ Exists(j)'
              /\ jobs'[j].transfer = jobs[j].transfer
           \/ \E n \in Nodes : /\ Finish(n) /\ JobOf(worker[n].transfer) = j
                              /\ HoldsLock(n, j)
  <1>1. ASSUME NEW c \in Calls, AddJob(c)
        PROVE  JobOf(c.transfer) = j /\ jobs'[j] = NewJob(c.transfer)
    BY <1>1, CallTypes, ConstantTypes DEF AddJob, Enqueue, TypeOK, QueueTypeOK
  <1>2. ASSUME NEW n \in Nodes, NEW i \in JobIds, Take(n, i)
        PROVE  /\ Exists(j) /\ Exists(j)'
               /\ jobs'[j].transfer = jobs[j].transfer
    <2>1. /\ Exists(j)
          /\ jobs'[j] = [jobs[j] EXCEPT !.state = "active", !.owner = n]
      BY <1>2 DEF Take, Fetch, Waiting, TypeOK, QueueTypeOK
    <2>2. jobs[j] \in Jobs
      BY <2>1, JobTypes
    <2>3. jobs'[j] \in Jobs
      BY <2>1, <2>2 DEF Jobs
    <2>4. jobs'[j] # NoJob
      BY <2>1, <2>2 DEF Jobs, NoJob
    <2> QED
      BY <2>1, <2>2, <2>4 DEF Jobs, Exists
  <1>3. ASSUME NEW n \in Nodes, Finish(n)
        PROVE  JobOf(worker[n].transfer) = j /\ HoldsLock(n, j)
    <2>1. JobOf(worker[n].transfer) \in JobIds
      BY <1>3, WorkerTypes DEF Finish, At
    <2> QED
      BY <1>3, <2>1 DEF Finish, Complete, TypeOK, QueueTypeOK
  <1>4. ASSUME NEW i \in JobIds, PutBack(i)
        PROVE  /\ Exists(j) /\ Exists(j)'
               /\ jobs'[j].transfer = jobs[j].transfer
    <2>1. /\ j = i /\ Exists(j)
          /\ jobs'[j] = Requeued(jobs[j]) \/ jobs'[j] = GivenUp(jobs[j])
      BY <1>4 DEF PutBack, Active, TypeOK, QueueTypeOK
    <2>2. jobs[j] \in Jobs
      BY <2>1, JobTypes
    <2>3. /\ Requeued(jobs[j]).transfer = jobs[j].transfer
          /\ Requeued(jobs[j]).state = "waiting"
          /\ GivenUp(jobs[j]).transfer = jobs[j].transfer
          /\ GivenUp(jobs[j]).state = "failed"
      BY <2>2 DEF Jobs, Requeued, GivenUp
    <2>4. NoJob.state = "none"
      BY DEF NoJob
    <2> QED
      BY <2>1, <2>3, <2>4 DEF Exists
  <1>5. \/ \E c \in Calls : AddJob(c)
        \/ \E n \in Nodes, i \in JobIds : Take(n, i)
        \/ \E n \in Nodes : Finish(n)
        \/ \E i \in JobIds : PutBack(i)
    BY DEF Next, vars, Emit, Miss, Redeliver, HandlerStep, Push, Resend, Count, CountOutdated,
           CheckJob, WorkerStep, ReadList, DeleteList, Submit, Mined, WaitFails, Evicted,
           MinedUnwatched, Crash, Restart, PutBackOrphan, PutBackSlow
  <1> QED
    BY <1>1, <1>2, <1>3, <1>4, <1>5

LEMMA NextJobMatches ==
    ASSUME TypeOK, JobMatches, [Next]_vars
    PROVE  JobMatches'
  <1> SUFFICES ASSUME NEW j \in JobIds, Exists(j)' PROVE JobOf(jobs'[j].transfer) = j
    BY DEF JobMatches, JobOf
  <1>1. CASE jobs'[j] = jobs[j]
    BY <1>1 DEF JobMatches, Exists
  <1>2. ASSUME NEW c \in Calls, JobOf(c.transfer) = j, jobs'[j] = NewJob(c.transfer)
        PROVE  JobOf(jobs'[j].transfer) = j
    BY <1>2 DEF NewJob
  <1>3. ASSUME Exists(j), jobs'[j].transfer = jobs[j].transfer
        PROVE  JobOf(jobs'[j].transfer) = j
    BY <1>3 DEF JobMatches
  <1>4. ASSUME jobs'[j] # jobs[j], NEW n \in Nodes, Finish(n),
               JobOf(worker[n].transfer) = j, HoldsLock(n, j)
        PROVE  FALSE
    BY <1>4 DEF Finish, Complete, Exists, TypeOK, QueueTypeOK
  <1> QED
    BY <1>1, <1>2, <1>3, <1>4, JobSteps

-----------------------------------------------------------------------------
(* Workers and the locks of their jobs.                                    *)

(* Whoever runs a job holds its lock. *)
RunsLocked == \A n \in Nodes : Working(n) => HoldsLock(n, JobOf(worker[n].transfer))

LEMMA NextRunsLocked ==
    ASSUME TypeOK, JobMatches, RunsLocked, "stall" \notin Faults, [Next]_vars
    PROVE  RunsLocked'
  <1> SUFFICES ASSUME NEW n \in Nodes, Working(n)'
               PROVE  HoldsLock(n, JobOf(worker[n].transfer))'
    BY DEF RunsLocked
  <1>1. ASSUME NEW j \in JobIds, Take(n, j)
        PROVE  HoldsLock(n, JobOf(worker[n].transfer))'
    <2>1. /\ Exists(j) /\ jobs[j] \in Jobs
          /\ worker'[n].transfer = jobs[j].transfer
          /\ jobs'[j] = [jobs[j] EXCEPT !.state = "active", !.owner = n]
      BY <1>1, JobTypes DEF Take, Fetch, Waiting, TypeOK, QueueTypeOK
    <2>2. JobOf(worker'[n].transfer) = j
      BY <2>1 DEF JobMatches
    <2>3. jobs'[j].state = "active" /\ jobs'[j].owner = n
      BY <2>1 DEF Jobs
    <2>4. jobs'[j] # NoJob
      BY <2>3 DEF NoJob
    <2> QED
      BY <2>2, <2>3, <2>4 DEF HoldsLock, Active, Exists, JobOf
  <1>2. ASSUME Working(n), worker'[n].transfer = worker[n].transfer, ~ Finish(n),
               \A j \in JobIds : ~ Take(n, j)
        PROVE  HoldsLock(n, JobOf(worker[n].transfer))'
    <2> DEFINE j == JobOf(worker[n].transfer)
    <2>1. HoldsLock(n, j) /\ j \in JobIds
      BY <1>2, WorkerTypes DEF RunsLocked
    <2>2. ASSUME NEW c \in Calls, AddJob(c) PROVE jobs'[j] = jobs[j]
      BY <2>1, <2>2 DEF AddJob, Enqueue, HoldsLock, Active, TypeOK, QueueTypeOK
    <2>3. ASSUME NEW k \in Nodes, NEW i \in JobIds, Take(k, i) PROVE jobs'[j] = jobs[j]
      BY <2>1, <2>3 DEF Take, Fetch, Waiting, HoldsLock, Active, TypeOK, QueueTypeOK
    <2>4. ASSUME NEW k \in Nodes, Finish(k) PROVE jobs'[j] = jobs[j]
      BY <1>2, <2>1, <2>4 DEF Finish, Complete, HoldsLock, TypeOK, QueueTypeOK
    <2>5. ASSUME NEW i \in JobIds, PutBackOrphan(i) \/ PutBackSlow(i)
          PROVE  jobs'[j] = jobs[j]
      <3>1. PutBackOrphan(i)
        BY <2>5 DEF PutBackSlow, Fault
      <3>2. i # j
        BY <1>2, <2>1, <3>1 DEF PutBackOrphan, Orphaned, HoldsLock, Running
      <3> QED
        BY <2>1, <3>1, <3>2 DEF PutBackOrphan, PutBack, TypeOK, QueueTypeOK
    <2>6. jobs'[j] = jobs[j]
      BY <2>2, <2>3, <2>4, <2>5
         DEF Next, vars, Emit, Miss, Redeliver, HandlerStep, Push, Resend, Count,
             CountOutdated, CheckJob, WorkerStep, ReadList, DeleteList, Submit, Mined,
             WaitFails, Evicted, MinedUnwatched, Crash, Restart
    <2> QED
      BY <1>2, <2>1, <2>6 DEF HoldsLock, Active, Exists, JobOf
  <1>3. ASSUME \A j \in JobIds : ~ Take(n, j)
        PROVE  Working(n) /\ worker'[n].transfer = worker[n].transfer /\ ~ Finish(n)
    <2>1. ASSUME Finish(n) \/ Crash(n) PROVE FALSE
      BY <2>1 DEF Finish, Crash, Working, TypeOK
    <2>2. ASSUME \/ ReadList(n) \/ DeleteList(n) \/ Submit(n) \/ Mined(n)
                 \/ WaitFails(n) \/ Evicted(n)
          PROVE  Working(n) /\ worker'[n].transfer = worker[n].transfer
      <3>1. Working(n) /\ worker[n] \in Runs
        BY <2>2, WorkerTypes DEF ReadList, DeleteList, Submit, Mined, WaitFails, Evicted, At
      <3> QED
        BY <2>2, <3>1
           DEF ReadList, DeleteList, Submit, Mined, WaitFails, Evicted, Ends, TypeOK, Runs
    <2>3. ASSUME NEW k \in Nodes, k # n,
                 \/ \E j \in JobIds : Take(k, j)
                 \/ ReadList(k) \/ DeleteList(k) \/ Submit(k) \/ Mined(k) \/ Finish(k)
                 \/ WaitFails(k) \/ Evicted(k) \/ Crash(k)
          PROVE  worker'[n] = worker[n]
      BY <2>3 DEF Take, ReadList, DeleteList, Submit, Mined, Finish, WaitFails, Evicted, Crash,
                  Ends, TypeOK
    <2>4. CASE worker'[n] = worker[n]
      BY <2>1, <2>4 DEF Working
    <2>5. \/ UNCHANGED worker
          \/ \E k \in Nodes :
               \/ \E j \in JobIds : Take(k, j)
               \/ ReadList(k) \/ DeleteList(k) \/ Submit(k) \/ Mined(k) \/ Finish(k)
               \/ WaitFails(k) \/ Evicted(k) \/ Crash(k)
      BY DEF Next, vars, Emit, Miss, Redeliver, HandlerStep, Push, Resend, Count,
             CountOutdated, CheckJob, AddJob, WorkerStep, MinedUnwatched, Restart,
             PutBackOrphan, PutBackSlow
    <2> QED
      BY <1>3, <2>1, <2>2, <2>3, <2>4, <2>5
  <1> QED
    BY <1>1, <1>2, <1>3

(* No job has two workers unless the lock of a run that goes on is lost -  *)
(* however many processes crash and whatever else fails.                   *)
THEOREM JobsHaveOneWorker == "stall" \notin Faults => (Spec => []OneWorkerPerJob)
  <1> SUFFICES ASSUME "stall" \notin Faults PROVE Spec => []OneWorkerPerJob
    OBVIOUS
  <1>1. Init => JobMatches /\ RunsLocked
    BY ConstantTypes DEF Init, QueueInit, JobMatches, Exists, RunsLocked, Working
  <1>2. TypeOK /\ JobMatches /\ RunsLocked /\ [Next]_vars => JobMatches' /\ RunsLocked'
    BY NextJobMatches, NextRunsLocked
  <1>3. RunsLocked => OneWorkerPerJob
    BY DEF RunsLocked, OneWorkerPerJob, Running, HoldsLock
  <1> QED
    BY <1>1, <1>2, <1>3, TypeCorrect, PTL DEF Spec

-----------------------------------------------------------------------------
(* How a step can change a list when no push is repeated. *)
LEMMA QuietListSteps ==
    ASSUME TypeOK, Distinguished, "resend" \notin Faults, [Next]_vars, NEW e \in Transfers,
           sigs'[Message(e)] # sigs[Message(e)]
    PROVE  \/ \E c \in Calls : /\ c.transfer = e /\ Push(c)
                              /\ sigs'[Message(e)] = Append(sigs[Message(e)], SignatureOf(c))
           \/ \E n \in Nodes : /\ DeleteList(n) /\ worker[n].transfer = e
                              /\ sigs'[Message(e)] = <<>>
  <1>0. Message(e) \in Messages
    BY ConstantTypes
  <1>1. ASSUME NEW c \in Calls, Push(c)
        PROVE  /\ c.transfer = e
               /\ sigs'[Message(e)] = Append(sigs[Message(e)], SignatureOf(c))
    <2>1. c.transfer \in Transfers /\ Message(c.transfer) \in Messages
      BY CallTypes, ConstantTypes
    <2>2. Rpush(Message(c.transfer), SignatureOf(c))
      BY <1>1, <1>0 DEF Push
    <2>3. Message(c.transfer) = Message(e)
      BY <1>0, <2>2 DEF Rpush, TypeOK
    <2> QED
      BY <1>0, <2>1, <2>2, <2>3, OneTransfer DEF Rpush, TypeOK
  <1>2. ASSUME NEW n \in Nodes, DeleteList(n)
        PROVE  worker[n].transfer = e /\ sigs'[Message(e)] = <<>>
    <2>1. /\ worker[n].transfer \in Transfers
          /\ Message(worker[n].transfer) \in Messages
      BY <1>2, WorkerTypes DEF DeleteList, At
    <2>2. sigs' = [sigs EXCEPT ![Message(worker[n].transfer)] = <<>>]
      BY <1>2, <1>0 DEF DeleteList
    <2>3. Message(worker[n].transfer) = Message(e)
      BY <1>0, <2>2 DEF TypeOK
    <2> QED
      BY <1>0, <2>1, <2>2, <2>3, OneTransfer DEF TypeOK
  <1>3. \/ \E c \in Calls : Push(c)
        \/ \E n \in Nodes : DeleteList(n)
    BY DEF Next, vars, Emit, Miss, Redeliver, HandlerStep, Resend, Fault, Count, CountOutdated,
           CheckJob, AddJob, WorkerStep, Take, ReadList, Submit, Mined, WaitFails, Evicted,
           Finish, MinedUnwatched, Crash, Restart, PutBackOrphan, PutBackSlow
  <1> QED
    BY <1>1, <1>2, <1>3

LEMMA NextListsDistinct ==
    ASSUME TypeOK, Provenance, Distinguished, FirstCopy, "resend" \notin Faults,
           ListsDistinct, [Next]_vars
    PROVE  ListsDistinct'
  <1> SUFFICES ASSUME NEW e \in Transfers PROVE Distinct(e)'
    BY DEF ListsDistinct
  <1> DEFINE m == Message(e)
  <1>0. m \in Messages /\ sigs[m] \in Seq(Signatures)
    BY ConstantTypes DEF TypeOK
  <1>1. CASE sigs'[m] = sigs[m]
    BY <1>1 DEF ListsDistinct, Distinct
  <1>2. CASE sigs'[m] = <<>>
    BY <1>2 DEF Distinct
  <1>3. ASSUME NEW c \in Calls, c.transfer = e, Push(c),
               sigs'[m] = Append(sigs[m], SignatureOf(c))
        PROVE  Distinct(e)'
    <2> DEFINE s == SignatureOf(c)
               list == sigs[m]
    <2>1. s \in Signatures /\ s.by = c.node /\ s.scheme = SchemeOf(Log[e].to)
      BY <1>3, CallTypes DEF SignatureOf
    <2>2. c.node \notin Signers(m)
      BY <1>3, NewSigner DEF Push
    <2>3. \A i \in 1 .. Len(list) : list[i] # s
      <3> SUFFICES ASSUME NEW i \in 1 .. Len(list), list[i] = s PROVE FALSE
        OBVIOUS
      <3>1. s \in Range(list)
        BY <1>0 DEF Range
      <3>2. c.node \in By(Range(list))
        BY <2>1, <3>1 DEF By
      <3> QED
        BY <1>0, <2>2, <3>2 DEF Provenance, ListInv
    <2>4. /\ \A i, k \in 1 .. Len(list) : list[i] = list[k] => i = k
          /\ \A i \in 1 .. Len(list) : list[i].scheme = SchemeOf(Log[e].to)
      BY DEF ListsDistinct, Distinct
    <2> HIDE DEF s, list
    <2>5. list \in Seq(Signatures) /\ Len(list) \in Nat
      BY <1>0 DEF list
    <2>6. /\ Len(Append(list, s)) = Len(list) + 1
          /\ \A i \in 1 .. Len(list) : Append(list, s)[i] = list[i]
          /\ Append(list, s)[Len(list) + 1] = s
      BY <2>1, <2>5
    <2>7. \A i \in 1 .. Len(list) + 1 : i \in 1 .. Len(list) \/ i = Len(list) + 1
      BY <2>5
    <2>8. /\ \A i, k \in 1 .. Len(list) + 1 :
                Append(list, s)[i] = Append(list, s)[k] => i = k
          /\ \A i \in 1 .. Len(list) + 1 : Append(list, s)[i].scheme = SchemeOf(Log[e].to)
      BY <2>1, <2>3, <2>4, <2>6, <2>7
    <2>9. sigs'[m] = Append(list, s)
      BY <1>3 DEF list, s
    <2> QED
      BY <2>6, <2>8, <2>9 DEF Distinct
  <1> QED
    BY <1>1, <1>2, <1>3, QuietListSteps

LEMMA OrderlyInvariant ==
    ASSUME Distinguished, "duplicate" \notin Faults, "resend" \notin Faults
    PROVE  Spec => []Orderly
  <1>1. Init => Orderly
    <2> SUFFICES ASSUME Init PROVE Orderly
      OBVIOUS
    <2>1. FirstCopy
      BY DEF Init, FirstCopy
    <2>2. JobMatches
      BY DEF Init, QueueInit, JobMatches, Exists
    <2>3. ListsDistinct
      BY ConstantTypes DEF Init, ListsDistinct, Distinct
    <2> QED
      BY <2>1, <2>2, <2>3 DEF Orderly
  <1>2. TypeOK /\ Provenance /\ Orderly /\ [Next]_vars => Orderly'
    BY NextFirstCopy, NextJobMatches, NextListsDistinct DEF Orderly
  <1> QED
    BY <1>1, <1>2, TypeCorrect, ProvenanceInvariant, PTL DEF Spec

-----------------------------------------------------------------------------
(* A full list has somebody to serve it.                                   *)

(* Faults that lose no Redis command and queue no job too early. *)
KeepsLists == {"miss", "crash", "stall", "receipt", "grpc", "submit", "drop"}

LEMMA FaultsAllowed ==
    ASSUME NEW kinds, OnlyFaults(kinds)
    PROVE  \A kind : Fault(kind) => kind \in kinds
  BY DEF OnlyFaults, Fault

Full(e) == Len(sigs[Message(e)]) >= Threshold[Log[e].to]

Asked(e, steps) == \E c \in Calls : c.transfer = e /\ handler[c] \in steps

Pending == InProgress \cup {"dead"}

(* The list has a signature of every node that signed.  When it is full, a *)
(* handler will count it, died before it could, or a job exists; there is  *)
(* a job only when it is full; and no run has come further than del, so    *)
(* none can remove the job.                                                *)
Fresh(e) ==
    /\ Len(sigs[Message(e)]) = Cardinality(Signers(Message(e)))
    /\ Full(e) => Exists(JobOf(e)) \/ Asked(e, Pending)
    /\ Exists(JobOf(e)) \/ Asked(e, {"check", "add"}) => Full(e)
    /\ \A n \in Nodes :
          Running(n, JobOf(e)) => Exists(JobOf(e)) /\ worker[n].step \in {"lrange", "del"}

(* A threshold of those who signed had their signatures taken from it. *)
Spent(e) ==
    Len(sigs[Message(e)]) + Threshold[Log[e].to] <= Cardinality(Signers(Message(e)))

ListsAccounted == \A e \in Transfers : Fresh(e) \/ Spent(e)

LEMMA InitFresh == Init => \A e \in Transfers : Fresh(e)
  <1> SUFFICES ASSUME Init, NEW e \in Transfers PROVE Fresh(e)
    OBVIOUS
  <1>1. /\ Message(e) \in Messages /\ JobOf(e) \in JobIds
        /\ Threshold[Log[e].to] \in Nat /\ Threshold[Log[e].to] > 0
    BY ConstantTypes
  <1>2. Signers(Message(e)) = {}
    BY DEF Init, Signers, Pushed, InProgress
  <1>3. Len(sigs[Message(e)]) = 0 /\ Cardinality(Signers(Message(e))) = 0
    BY <1>1, <1>2, FS_EmptySet DEF Init
  <1>4. ~ Full(e)
    BY <1>1, <1>3 DEF Full
  <1>5. ~ Exists(JobOf(e)) /\ \A n \in Nodes : ~ Running(n, JobOf(e))
    BY <1>1 DEF Init, QueueInit, Exists, Running, Working
  <1>6. ~ Asked(e, {"check", "add"})
    BY DEF Init, Asked
  <1> QED
    BY <1>3, <1>4, <1>5, <1>6 DEF Fresh

LEMMA SignersCounted ==
    \A m : IsFiniteSet(Signers(m)) /\ Cardinality(Signers(m)) \in Nat
  BY FS_Subset, FS_CardinalityType, TransfersAssumption DEF Signers

(* A step of a handler of the transfer itself. *)
LEMMA OwnHandlerSteps ==
    ASSUME Distinguished, AsksDestination, OnlyFaults(KeepsLists), TypeOK, FirstCopy,
           NEW c \in Calls, HandlerStep(c), Fresh(c.transfer)
    PROVE  Fresh(c.transfer)'
  <1> DEFINE e == c.transfer
             m == Message(e)
             T == Threshold[Log[e].to]
  <1>1. e \in Transfers /\ m \in Messages /\ JobOf(e) \in JobIds /\ T \in Nat
    BY CallTypes, ConstantTypes
  <1>2. ~ Fault("redis") /\ ~ Fault("queue")
    BY FaultsAllowed DEF KeepsLists
  <1>3. UNCHANGED worker /\ (Exists(JobOf(e)) => Exists(JobOf(e))')
    BY DEF HandlerStep, Push, Count, CheckJob, AddJob, Enqueue, Exists, JobOf
  <1>4. \A n \in Nodes :
           Running(n, JobOf(e))' => Exists(JobOf(e))' /\ worker'[n].step \in {"lrange", "del"}
    BY <1>3 DEF Running, Working, JobOf, Fresh
  <1>5. ASSUME NEW step \in HandlerSteps, MoveTo(c, step), handler[c] \in Pushed, step \in Pushed
        PROVE  Signers(m)' = Signers(m)
    <2>1. \A d \in Calls : handler'[d] \in Pushed <=> handler[d] \in Pushed
      BY <1>5 DEF MoveTo, TypeOK
    <2> QED
      BY <2>1 DEF Signers
  <1>6. CASE Push(c)
    <2>1. Rpush(m, SignatureOf(c)) /\ MoveTo(c, "count") /\ UNCHANGED jobs
      BY <1>2, <1>6 DEF Push
    <2>2. handler'[c] = "count" /\ \A d \in Calls : d # c => handler'[d] = handler[d]
      BY <2>1 DEF MoveTo, TypeOK
    <2>3. Signers(m)' = Signers(m) \cup {c.node}
      <3>1. /\ handler[c] = "wire"
            /\ "wire" \notin Pushed /\ "count" \in Pushed
        BY <1>6 DEF Push, Pushed, InProgress
      <3>2. Signers(m)' \subseteq Signers(m) \cup {c.node}
        BY <2>2 DEF Signers
      <3>3. Signers(m) \subseteq Signers(m)'
        BY <2>2, <3>1 DEF Signers
      <3>4. c.node \in Signers(m)'
        BY <2>2, <3>1, CallTypes DEF Signers
      <3> QED
        BY <3>2, <3>3, <3>4
    <2>4. /\ Cardinality(Signers(m)') = Cardinality(Signers(m)) + 1
          /\ Cardinality(Signers(m)) \in Nat
      <3>1. c.node \notin Signers(m)
        BY <1>6, NewSigner DEF Push
      <3> QED
        BY <2>3, <3>1, SignersCounted, FS_AddElement
    <2>5. Len(sigs'[m]) = Len(sigs[m]) + 1 /\ Len(sigs[m]) \in Nat
      <3>1. sigs[m] \in Seq(Signatures) /\ SignatureOf(c) \in Signatures
        BY <1>1, CallTypes DEF TypeOK
      <3>2. sigs'[m] = Append(sigs[m], SignatureOf(c))
        BY <1>1, <2>1 DEF Rpush, TypeOK
      <3> QED
        BY <3>1, <3>2
    <2>6. Len(sigs'[m]) = Cardinality(Signers(m)')
      BY <2>4, <2>5 DEF Fresh
    <2>7. Full(e) => Full(e)'
      <3> DEFINE k == Len(sigs[m])
                 l == Len(sigs'[m])
      <3>1. k >= T => l >= T
        <4> HIDE DEF k, l, T
        <4> QED
          BY <1>1, <2>5 DEF k, l
      <3> QED
        BY <3>1 DEF Full, Message
    <2>8. Asked(e, Pending)'
      BY <2>2 DEF Asked, Pending, InProgress
    <2>9. Exists(JobOf(e))' \/ Asked(e, {"check", "add"})'
          => Exists(JobOf(e)) \/ Asked(e, {"check", "add"})
      BY <2>1, <2>2 DEF Exists, JobOf, Asked
    <2> QED
      BY <1>4, <2>6, <2>7, <2>8, <2>9 DEF Fresh, Message, JobOf
  <1>7. ASSUME UNCHANGED sigs, NEW step \in HandlerSteps, MoveTo(c, step),
               handler[c] \in Pushed, step \in Pushed
        PROVE  /\ Len(sigs'[m]) = Cardinality(Signers(m)')
               /\ Full(e)' <=> Full(e)
    BY <1>5, <1>7 DEF Fresh, Full
  <1>8. CASE Count(c) /\ ThresholdMet(c)
    <2>1. MoveTo(c, "check") /\ UNCHANGED <<sigs, jobs>> /\ handler[c] = "count"
      BY <1>2, <1>8 DEF Count
    <2>2. handler'[c] = "check" /\ \A d \in Calls : d # c => handler'[d] = handler[d]
      BY <2>1 DEF MoveTo, TypeOK
    <2>3. Full(e)
      BY <1>1, <1>8 DEF ThresholdMet, AsksDestination, Full
    <2>4. Asked(e, Pending)'
      BY <2>2 DEF Asked, Pending, InProgress
    <2>5. /\ Len(sigs'[m]) = Cardinality(Signers(m)')
          /\ Full(e)'
      BY <1>7, <2>1, <2>3 DEF HandlerSteps, Pushed, InProgress
    <2> QED
      BY <1>4, <2>4, <2>5 DEF Fresh, Message, JobOf
  <1>9. CASE Count(c) /\ ~ ThresholdMet(c)
    <2>1. MoveTo(c, "done") /\ UNCHANGED <<sigs, jobs>> /\ handler[c] = "count"
      BY <1>2, <1>9 DEF Count
    <2>2. handler'[c] = "done" /\ \A d \in Calls : d # c => handler'[d] = handler[d]
      BY <2>1 DEF MoveTo, TypeOK
    <2>3. ~ Full(e)
      BY <1>1, <1>9 DEF ThresholdMet, AsksDestination, Full
    <2>4. /\ Len(sigs'[m]) = Cardinality(Signers(m)')
          /\ ~ Full(e)'
      BY <1>7, <2>1, <2>3 DEF HandlerSteps, Pushed, InProgress
    <2>5. ~ Exists(JobOf(e))' /\ ~ Asked(e, {"check", "add"})'
      BY <2>1, <2>2, <2>3 DEF Fresh, Exists, JobOf, Asked
    <2> QED
      BY <1>4, <2>4, <2>5 DEF Fresh, Message, JobOf
  <1>10. CASE CheckJob(c)
    <2>1. /\ handler[c] = "check" /\ UNCHANGED <<sigs, jobs>>
          /\ \/ MoveTo(c, "done") /\ Exists(JobOf(e))
             \/ MoveTo(c, "add")
      BY <1>2, <1>10 DEF CheckJob
    <2>2. Full(e)
      BY <2>1 DEF Fresh, Asked
    <2>3. /\ Len(sigs'[m]) = Cardinality(Signers(m)')
          /\ Full(e)'
      BY <1>7, <2>1, <2>2 DEF HandlerSteps, Pushed, InProgress
    <2>4. Exists(JobOf(e))' \/ Asked(e, Pending)'
      <3>1. CASE Exists(JobOf(e))
        BY <2>1, <3>1 DEF Exists, JobOf
      <3>2. CASE MoveTo(c, "add")
        <4>1. handler'[c] = "add"
          BY <3>2 DEF MoveTo, TypeOK
        <4> QED
          BY <4>1 DEF Asked, Pending, InProgress
      <3> QED
        BY <2>1, <3>1, <3>2
    <2> QED
      BY <1>4, <2>3, <2>4 DEF Fresh, Message, JobOf
  <1>11. CASE AddJob(c)
    <2>1. /\ handler[c] = "add" /\ UNCHANGED sigs /\ MoveTo(c, "done")
          /\ Enqueue(JobOf(e), e)
      BY <1>2, <1>11 DEF AddJob
    <2>2. Full(e)
      BY <2>1 DEF Fresh, Asked
    <2>3. /\ Len(sigs'[m]) = Cardinality(Signers(m)')
          /\ Full(e)'
      BY <1>7, <2>1, <2>2 DEF HandlerSteps, Pushed, InProgress
    <2>4. Exists(JobOf(e))'
      <3>1. NewJob(e) # NoJob
        <4>1. NewJob(e).state = "waiting" /\ NoJob.state = "none"
          BY DEF NewJob, NoJob
        <4> QED
          BY <4>1
      <3> QED
        BY <1>1, <2>1, <3>1 DEF Enqueue, Exists, TypeOK, QueueTypeOK, JobOf
    <2> QED
      BY <1>4, <2>3, <2>4 DEF Fresh, Message, JobOf
  <1> QED
    BY <1>6, <1>8, <1>9, <1>10, <1>11 DEF HandlerStep, Count

(* A step that is not of a handler itself leaves it where it is, before or *)
(* after its push, unless the node crashes.                                *)
LEMMA OtherHandlerSteps ==
    ASSUME TypeOK, HandlerInv, OnlyFaults(KeepsLists), [Next]_vars, NEW c \in Calls,
           ~ HandlerStep(c)
    PROVE  \/ handler'[c] = handler[c]
           \/ {handler[c], handler'[c]} \cap Pushed = {}
           \/ handler[c] \in InProgress /\ handler'[c] = "dead"
  <1> USE DEF Pushed, InProgress
  <1>1. ASSUME NEW t \in Txs, Emit(t)
        PROVE  handler'[c] # handler[c] => {handler[c], handler'[c]} \cap Pushed = {}
    BY <1>1 DEF Emit, HandlerInv
  <1>2. ASSUME NEW d \in Calls, Miss(d) \/ Redeliver(d)
        PROVE  handler'[c] # handler[c] => {handler[c], handler'[c]} \cap Pushed = {}
    BY <1>2 DEF Miss, Redeliver
  <1>3. ASSUME NEW d \in Calls, HandlerStep(d)
        PROVE  handler'[c] = handler[c]
    <2>1. \E step : MoveTo(d, step)
      BY <1>3 DEF HandlerStep, Push, Count, CheckJob, AddJob
    <2> QED
      BY <1>3, <2>1 DEF MoveTo, TypeOK
  <1>4. \A d \in Calls : ~ Resend(d) /\ ~ CountOutdated(d)
    <2>1. ~ Fault("resend") /\ ~ Fault("threshold")
      BY FaultsAllowed DEF KeepsLists
    <2> QED
      BY <2>1 DEF Resend, CountOutdated
  <1>5. ASSUME NEW n \in Nodes, Crash(n)
        PROVE  \/ handler'[c] = handler[c]
               \/ {handler[c], handler'[c]} \cap Pushed = {}
               \/ handler[c] \in InProgress /\ handler'[c] = "dead"
    <2>1. handler'[c] = handler[c] \/ handler'[c] = AfterCrash(handler[c])
      BY <1>5 DEF Crash
    <2> QED
      BY <2>1 DEF AfterCrash
  <1> QED
    BY <1>1, <1>2, <1>3, <1>4, <1>5
       DEF Next, vars, WorkerStep, Take, ReadList, DeleteList, Submit, Mined, WaitFails,
           Evicted, Finish, MinedUnwatched, Restart, PutBackOrphan, PutBackSlow

(* How a step can change what a worker is doing. *)
LEMMA WorkerSteps ==
    ASSUME TypeOK, JobMatches, [Next]_vars, NEW n \in Nodes
    PROVE  \/ worker'[n] = worker[n]
           \/ worker'[n] = Idle
           \/ \E j \in JobIds : /\ Exists(j)
                               /\ worker'[n].step = "lrange"
                               /\ JobOf(worker'[n].transfer) = j
           \/ ReadList(n) /\ worker'[n].transfer = worker[n].transfer
           \/ DeleteList(n)
           \/ /\ Working(n) /\ worker[n].step \notin {"lrange", "del"}
              /\ worker'[n].transfer = worker[n].transfer
  <1>1. ASSUME NEW k \in Nodes, k # n,
               \/ \E j \in JobIds : Take(k, j)
               \/ ReadList(k) \/ DeleteList(k) \/ Submit(k) \/ Mined(k) \/ Finish(k)
               \/ WaitFails(k) \/ Evicted(k) \/ Crash(k)
        PROVE  worker'[n] = worker[n]
    BY <1>1 DEF Take, ReadList, DeleteList, Submit, Mined, Finish, WaitFails, Evicted, Crash,
                Ends, TypeOK
  <1>2. ASSUME NEW j \in JobIds, Take(n, j)
        PROVE  /\ Exists(j)
               /\ worker'[n].step = "lrange"
               /\ JobOf(worker'[n].transfer) = j
    <2>1. /\ Exists(j)
          /\ worker'[n] = [step |-> "lrange", transfer |-> jobs[j].transfer,
                           held |-> <<>>, failed |-> FALSE]
      BY <1>2 DEF Take, Fetch, Waiting, TypeOK
    <2> QED
      BY <2>1 DEF JobMatches
  <1>3. ASSUME Submit(n) \/ Mined(n) \/ WaitFails(n) \/ Evicted(n)
        PROVE  /\ Working(n) /\ worker[n].step \notin {"lrange", "del"}
               /\ worker'[n].transfer = worker[n].transfer
    <2>1. Working(n) /\ worker[n].step \in {"submit", "wait"}
      BY <1>3 DEF Submit, Mined, WaitFails, Evicted, At
    <2>2. worker[n] \in Runs
      BY <2>1, WorkerTypes
    <2> QED
      BY <1>3, <2>1, <2>2 DEF Submit, Mined, WaitFails, Evicted, Ends, TypeOK, Runs
  <1>4. ASSUME ReadList(n) PROVE worker'[n].transfer = worker[n].transfer
    <2>1. worker[n] \in Runs
      BY <1>4, WorkerTypes DEF ReadList, At
    <2> QED
      BY <1>4, <2>1 DEF ReadList, TypeOK, Runs
  <1>5. ASSUME Finish(n) \/ Crash(n) PROVE worker'[n] = Idle
    BY <1>5 DEF Finish, Crash, TypeOK
  <1>6. \/ UNCHANGED worker
        \/ \E k \in Nodes :
             \/ \E j \in JobIds : Take(k, j)
             \/ ReadList(k) \/ DeleteList(k) \/ Submit(k) \/ Mined(k) \/ Finish(k)
             \/ WaitFails(k) \/ Evicted(k) \/ Crash(k)
    BY DEF Next, vars, Emit, Miss, Redeliver, HandlerStep, Push, Resend, Count, CountOutdated,
           CheckJob, AddJob, WorkerStep, MinedUnwatched, Restart, PutBackOrphan, PutBackSlow
  <1> QED
    BY <1>1, <1>2, <1>3, <1>4, <1>5, <1>6

(* A run that reads a full list goes on to delete it, *)
LEMMA ReadsFull ==
    ASSUME OnlyFaults(KeepsLists), TypeOK, NEW n \in Nodes, ReadList(n),
           NEW e \in Transfers, worker[n].transfer = e, Full(e)
    PROVE  /\ worker'[n].step = "del" /\ worker'[n].transfer = e
           /\ worker'[n].held = sigs[Message(e)]
           /\ worker'[n] # Idle
  <1> DEFINE list == sigs[Message(e)]
             T == Threshold[Log[e].to]
  <1>1. worker[n] \in Runs /\ list \in Seq(Signatures) /\ T \in Nat /\ T > 0
    BY WorkerTypes, ConstantTypes DEF ReadList, At, TypeOK
  <1>2. list # <<>>
    BY <1>1 DEF Full
  <1>3. ~ Fault("redis")
    BY FaultsAllowed DEF KeepsLists
  <1>4. worker' = [worker EXCEPT ![n].step = "del", ![n].held = list]
    BY <1>2, <1>3 DEF ReadList, Lrange
  <1>5. worker'[n].step = "del" /\ worker'[n].transfer = e /\ worker'[n].held = list
    BY <1>1, <1>4 DEF Runs, TypeOK
  <1>6. Idle.step = "idle"
    BY DEF Idle
  <1> QED
    BY <1>5, <1>6

(* and takes a threshold of signatures from it. *)
LEMMA DeleteSpends ==
    ASSUME Distinguished, OnlyFaults(KeepsLists), TypeOK, NEW n \in Nodes, DeleteList(n),
           NEW e \in Transfers, worker[n].transfer = e, Fresh(e)
    PROVE  Spent(e)'
  <1> DEFINE m == Message(e)
             T == Threshold[Log[e].to]
             k == Cardinality(Signers(m))
             l == Len(sigs[m])
  <1>1. m \in Messages /\ T \in Nat
    BY ConstantTypes
  <1>2. Running(n, JobOf(e))
    BY DEF DeleteList, At, Running
  <1>3. l >= T /\ l = k
    BY <1>2 DEF Fresh, Full
  <1>4. ~ Fault("redis") /\ ~ Fault("resend")
    BY FaultsAllowed DEF KeepsLists
  <1>5. Len(sigs'[m]) = 0 /\ UNCHANGED handler
    BY <1>1, <1>4 DEF DeleteList, TypeOK
  <1>6. Signers(m)' = Signers(m)
    BY <1>5 DEF Signers
  <1>7. 0 + T <= k
    <2>1. k \in Nat
      BY SignersCounted
    <2> HIDE DEF k, l, T
    <2> QED
      BY <1>1, <1>3, <2>1
  <1> QED
    BY <1>5, <1>6, <1>7 DEF Spent, Message

(* What others do leaves the list of a transfer as it is. *)
LEMMA OtherSteps ==
    ASSUME Distinguished, OnlyFaults(KeepsLists), TypeOK, HandlerInv, JobMatches,
           [Next]_vars, NEW e \in Transfers, Fresh(e),
           \A c \in Calls : HandlerStep(c) => c.transfer # e,
           \A n \in Nodes : DeleteList(n) => worker[n].transfer # e
    PROVE  Fresh(e)'
  <1> DEFINE m == Message(e)
             j == JobOf(e)
  <1>0. m \in Messages /\ j \in JobIds
    BY ConstantTypes
  <1>1. \A c \in Calls : c.transfer = e =>
           \/ handler'[c] = handler[c]
           \/ {handler[c], handler'[c]} \cap Pushed = {}
           \/ handler[c] \in InProgress /\ handler'[c] = "dead"
    BY OtherHandlerSteps
  <1>2. Signers(m)' = Signers(m)
    <2>1. \A c \in Calls : Message(c.transfer) = m => c.transfer = e
      BY CallTypes, OneTransfer
    <2>2. \A c \in Calls : Message(c.transfer) = m
                           => (handler'[c] \in Pushed <=> handler[c] \in Pushed)
      BY <1>1, <2>1 DEF Pushed, InProgress
    <2> QED
      BY <2>2 DEF Signers, Message
  <1>3. /\ Asked(e, Pending) => Asked(e, Pending)'
        /\ Asked(e, {"check", "add"})' => Asked(e, {"check", "add"})
    BY <1>1 DEF Asked, Pending, Pushed, InProgress
  <1>4. sigs'[m] = sigs[m]
    <2>1. "resend" \notin Faults
      BY DEF OnlyFaults, KeepsLists
    <2>2. \A c \in Calls : Push(c) => c.transfer # e
      BY DEF HandlerStep
    <2> QED
      BY <2>1, <2>2, QuietListSteps
  <1>5. Full(e)' <=> Full(e)
    BY <1>4 DEF Full, Message
  <1>6. Exists(j)' <=> Exists(j)
    <2>1. \A c \in Calls : AddJob(c) => JobOf(c.transfer) # j
      BY CallTypes, OneTransfer DEF HandlerStep
    <2>2. ASSUME NEW n \in Nodes, Finish(n), JobOf(worker[n].transfer) = j PROVE FALSE
      BY <2>2 DEF Finish, At, Fresh, Running
    <2>3. jobs'[j] = jobs[j] \/ (Exists(j) /\ Exists(j)')
      BY <1>0, <2>1, <2>2, JobSteps
    <2> QED
      BY <2>3 DEF Exists, JobOf
  <1>7. ASSUME NEW n \in Nodes, Running(n, j)'
        PROVE  Exists(j) /\ worker'[n].step \in {"lrange", "del"}
    <2>1. worker'[n] # Idle /\ JobOf(worker'[n].transfer) = j
      BY <1>7 DEF Running, Working, JobOf
    <2>2. CASE worker'[n] = worker[n]
      BY <2>1, <2>2 DEF Fresh, Running, Working
    <2>3. ASSUME Working(n), worker'[n].transfer = worker[n].transfer
          PROVE  /\ Running(n, j) /\ Exists(j) /\ Full(e)
                 /\ worker[n].transfer = e /\ worker[n].step \in {"lrange", "del"}
      BY <2>1, <2>3, WorkerTypes, OneTransfer DEF Fresh, Running
    <2>4. CASE ReadList(n) /\ worker'[n].transfer = worker[n].transfer
      BY <2>3, <2>4, ReadsFull DEF ReadList, At
    <2>5. CASE DeleteList(n)
      <3>1. worker[n] \in Runs
        BY <2>5, WorkerTypes DEF DeleteList, At
      <3>2. Working(n) /\ worker'[n].transfer = worker[n].transfer
        BY <2>5, <3>1 DEF DeleteList, At, TypeOK, Runs
      <3> QED
        BY <2>3, <2>5, <3>2
    <2> QED
      BY <2>1, <2>2, <2>3, <2>4, <2>5, WorkerSteps
  <1>8. \A n \in Nodes :
           Running(n, j)' => Exists(j)' /\ worker'[n].step \in {"lrange", "del"}
    BY <1>6, <1>7
  <1> QED
    BY <1>2, <1>3, <1>4, <1>5, <1>6, <1>8 DEF Fresh, Message, JobOf

(* A list is left with fewer signatures than were ever given. *)
LEMMA SpentStays ==
    ASSUME Distinguished, OnlyFaults(KeepsLists), TypeOK, HandlerInv, FirstCopy,
           [Next]_vars, NEW e \in Transfers, Spent(e)
    PROVE  Spent(e)'
  <1> DEFINE m == Message(e)
             T == Threshold[Log[e].to]
             k == Cardinality(Signers(m))
             l == Len(sigs[m])
  <1>1. /\ m \in Messages /\ sigs[m] \in Seq(Signatures) /\ T \in Nat
        /\ k \in Nat /\ Cardinality(Signers(m)') \in Nat
        /\ IsFiniteSet(Signers(m)')
    <2>1. Signers(m)' \subseteq Nodes
      BY DEF Signers
    <2> QED
      BY <2>1, ConstantTypes, SignersCounted, FS_Subset, FS_CardinalityType,
         TransfersAssumption DEF TypeOK
  <1>2. k <= Cardinality(Signers(m)')
    BY <1>1, SignersGrow, FS_Subset
  <1>3. CASE sigs'[m] = sigs[m]
    <2>1. l + T <= Cardinality(Signers(m)')
      <3>1. l \in Nat /\ l + T <= k
        BY <1>1 DEF Spent
      <3> HIDE DEF k, l, T
      <3> QED
        BY <1>1, <1>2, <3>1
    <2> QED
      BY <1>3, <2>1 DEF Spent, Message
  <1>4. CASE sigs'[m] = <<>>
    <2>1. 0 + T <= Cardinality(Signers(m)')
      <3>1. l \in Nat /\ l + T <= k
        BY <1>1 DEF Spent
      <3> HIDE DEF k, l, T
      <3> QED
        BY <1>1, <1>2, <3>1
    <2> QED
      BY <1>4, <2>1 DEF Spent, Message
  <1>5. ASSUME NEW c \in Calls, c.transfer = e, Push(c),
               sigs'[m] = Append(sigs[m], SignatureOf(c))
        PROVE  Spent(e)'
    <2>1. Len(sigs'[m]) = l + 1
      BY <1>1, <1>5, CallTypes
    <2>2. k + 1 <= Cardinality(Signers(m)')
      <3>1. c.node \notin Signers(m)
        BY <1>5, NewSigner DEF Push
      <3>2. c.node \in Signers(m)'
        <4>1. handler'[c] = "count"
          BY <1>5 DEF Push, MoveTo, TypeOK
        <4> QED
          BY <1>5, <4>1, CallTypes DEF Signers, Pushed, InProgress
      <3>3. Signers(m) \cup {c.node} \subseteq Signers(m)'
        BY <1>1, <3>2, SignersGrow
      <3>4. Cardinality(Signers(m) \cup {c.node}) = k + 1
        BY <3>1, SignersCounted, FS_AddElement
      <3> QED
        BY <1>1, <3>3, <3>4, FS_Subset
    <2>3. l + 1 + T <= Cardinality(Signers(m)')
      <3>1. l \in Nat /\ l + T <= k
        BY <1>1 DEF Spent
      <3> HIDE DEF k, l, T
      <3> QED
        BY <1>1, <2>2, <3>1
    <2> QED
      BY <2>1, <2>3 DEF Spent, Message
  <1>6. "resend" \notin Faults
    BY DEF OnlyFaults, KeepsLists
  <1> QED
    BY <1>3, <1>4, <1>5, <1>6, QuietListSteps

LEMMA NextAccounted ==
    ASSUME Distinguished, AsksDestination, OnlyFaults(KeepsLists), TypeOK, HandlerInv,
           Orderly, ListsAccounted, [Next]_vars
    PROVE  ListsAccounted'
  <1> SUFFICES ASSUME NEW e \in Transfers PROVE Fresh(e)' \/ Spent(e)'
    BY DEF ListsAccounted
  <1> USE DEF Orderly
  <1>1. CASE Spent(e)
    BY <1>1, SpentStays
  <1>2. ASSUME Fresh(e), NEW c \in Calls, HandlerStep(c), c.transfer = e
        PROVE  Fresh(e)'
    BY <1>2, OwnHandlerSteps
  <1>3. ASSUME Fresh(e), NEW n \in Nodes, DeleteList(n), worker[n].transfer = e
        PROVE  Spent(e)'
    BY <1>3, DeleteSpends
  <1> QED
    BY <1>1, <1>2, <1>3, OtherSteps DEF ListsAccounted

LEMMA AccountedInvariant ==
    ASSUME Distinguished, AsksDestination, OnlyFaults(KeepsLists)
    PROVE  Spec => []ListsAccounted
  <1>1. "duplicate" \notin Faults /\ "resend" \notin Faults
    BY DEF OnlyFaults, KeepsLists
  <1>2. Spec => []Orderly
    BY <1>1, OrderlyInvariant
  <1>3. Init => ListsAccounted
    BY InitFresh DEF ListsAccounted
  <1>4. TypeOK /\ Provenance /\ Orderly /\ ListsAccounted /\ [Next]_vars => ListsAccounted'
    BY NextAccounted DEF Provenance
  <1> QED
    BY <1>2, <1>3, <1>4, TypeCorrect, ProvenanceInvariant, PTL DEF Spec

-----------------------------------------------------------------------------
(* The late signers of a list: whose signature filled it or came after.    *)

Late(e) == Threshold[Log[e].to] .. Len(sigs[Message(e)])

PendingSigner(e, i) ==
    \E c \in Calls : /\ c.transfer = e
                     /\ c.node = sigs[Message(e)][i].by
                     /\ handler[c] \in Pending

(* As long as a full list has no job, the handler of every late signer     *)
(* will count it, or died before it could.                                 *)
LateSignersPending ==
    \A e \in Transfers :
        Spent(e) \/ Exists(JobOf(e)) \/ \A i \in Late(e) : PendingSigner(e, i)

(* Nobody has come so far as to remove the job of a fresh list. *)
LEMMA JobKept ==
    ASSUME TypeOK, [Next]_vars, NEW e \in Transfers, Fresh(e), Exists(JobOf(e))
    PROVE  Exists(JobOf(e))'
  <1> DEFINE j == JobOf(e)
  <1>1. j \in JobIds
    BY ConstantTypes
  <1>2. ASSUME NEW n \in Nodes, Finish(n), JobOf(worker[n].transfer) = j PROVE FALSE
    BY <1>2 DEF Finish, At, Fresh, Running
  <1>3. ASSUME NEW c \in Calls, jobs'[j] = NewJob(c.transfer) PROVE Exists(j)'
    <2>1. NewJob(c.transfer).state = "waiting" /\ NoJob.state = "none"
      BY DEF NewJob, NoJob
    <2> QED
      BY <1>3, <2>1 DEF Exists, JobOf
  <1>4. CASE jobs'[j] = jobs[j]
    BY <1>4 DEF Exists, JobOf
  <1>5. CASE jobs'[j] # jobs[j]
    <2>1. \/ \E c \in Calls : jobs'[j] = NewJob(c.transfer)
          \/ Exists(j)'
      BY <1>1, <1>2, <1>5, JobSteps
    <2> QED
      BY <1>3, <2>1
  <1> QED
    BY <1>4, <1>5

(* The handler of a late signer stays pending until there is a job. *)
LEMMA PendingStays ==
    ASSUME AsksDestination, OnlyFaults(KeepsLists), TypeOK, HandlerInv, [Next]_vars,
           NEW c \in Calls, handler[c] \in Pending, Full(c.transfer)
    PROVE  handler'[c] \in Pending \/ Exists(JobOf(c.transfer))'
  <1> USE DEF Pending, Pushed, InProgress
  <1>1. ~ Fault("redis") /\ ~ Fault("queue")
    BY FaultsAllowed DEF KeepsLists
  <1>2. CASE ~ HandlerStep(c)
    BY <1>2, OtherHandlerSteps
  <1>3. CASE Push(c)
    BY <1>3 DEF Push, MoveTo, TypeOK
  <1>4. CASE Count(c)
    <2>1. ThresholdMet(c)
      BY CallTypes DEF ThresholdMet, AsksDestination, Full
    <2> QED
      BY <1>1, <1>4, <2>1 DEF Count, MoveTo, TypeOK
  <1>5. CASE CheckJob(c)
    BY <1>1, <1>5 DEF CheckJob, MoveTo, Exists, JobOf, TypeOK
  <1>6. CASE AddJob(c)
    <2> DEFINE j == JobOf(c.transfer)
    <2>1. j \in JobIds /\ Enqueue(j, c.transfer)
      BY <1>1, <1>6, CallTypes, ConstantTypes DEF AddJob
    <2>2. NewJob(c.transfer) # NoJob
      <3>1. NewJob(c.transfer).state = "waiting" /\ NoJob.state = "none"
        BY DEF NewJob, NoJob
      <3> QED
        BY <3>1
    <2> QED
      BY <2>1, <2>2 DEF Enqueue, Exists, JobOf, TypeOK, QueueTypeOK
  <1> QED
    BY <1>2, <1>3, <1>4, <1>5, <1>6 DEF HandlerStep

LEMMA NextLateSigners ==
    ASSUME Distinguished, AsksDestination, OnlyFaults(KeepsLists), TypeOK, HandlerInv,
           Orderly, ListsAccounted, LateSignersPending, [Next]_vars
    PROVE  LateSignersPending'
  <1> SUFFICES ASSUME NEW e \in Transfers, ~ Spent(e)', ~ Exists(JobOf(e))',
                      NEW i \in Late(e)'
               PROVE  PendingSigner(e, i)'
    BY DEF LateSignersPending
  <1> DEFINE m == Message(e)
             T == Threshold[Log[e].to]
  <1>0. /\ m \in Messages /\ sigs[m] \in Seq(Signatures) /\ T \in Nat
        /\ "resend" \notin Faults
    BY ConstantTypes DEF TypeOK, OnlyFaults, KeepsLists
  <1>1. ~ Spent(e) /\ Fresh(e)
    BY SpentStays DEF Orderly, ListsAccounted
  <1>2. ~ Exists(JobOf(e))
    BY <1>1, JobKept
  <1>3. ASSUME i \in Late(e), sigs'[m][i] = sigs[m][i]
        PROVE  PendingSigner(e, i)'
    <2>1. PICK c \in Calls : /\ c.transfer = e
                             /\ c.node = sigs[m][i].by
                             /\ handler[c] \in Pending
      BY <1>1, <1>2, <1>3 DEF LateSignersPending, PendingSigner
    <2>2. Full(e)
      <3> DEFINE l == Len(sigs[m])
      <3>1. i \in T .. l /\ l \in Nat
        BY <1>0, <1>3 DEF Late
      <3>2. l >= T
        <4> HIDE DEF l, T
        <4> QED
          BY <1>0, <3>1
      <3> QED
        BY <3>2 DEF Full
    <2>3. handler'[c] \in Pending
      BY <2>1, <2>2, PendingStays
    <2> QED
      BY <1>3, <2>1, <2>3 DEF PendingSigner, Message
  <1>4. CASE sigs'[m] = sigs[m]
    BY <1>3, <1>4 DEF Late, Message
  <1>5. ASSUME NEW c \in Calls, c.transfer = e, Push(c),
               sigs'[m] = Append(sigs[m], SignatureOf(c))
        PROVE  PendingSigner(e, i)'
    <2> DEFINE l == Len(sigs[m])
    <2>1. /\ l \in Nat /\ Len(sigs'[m]) = l + 1
          /\ \A k \in 1 .. l : sigs'[m][k] = sigs[m][k]
          /\ sigs'[m][l + 1] = SignatureOf(c)
      BY <1>0, <1>5, CallTypes
    <2>2. i \in T .. (l + 1) /\ T > 0
      BY <2>1, ConstantTypes DEF Late, Message
    <2>3. CASE i = l + 1
      <3>1. handler'[c] = "count"
        BY <1>5 DEF Push, MoveTo, TypeOK
      <3>2. sigs'[m][i].by = c.node
        BY <2>1, <2>3 DEF SignatureOf
      <3> QED
        BY <1>5, <3>1, <3>2 DEF PendingSigner, Pending, InProgress, Message
    <2>4. CASE i # l + 1
      <3>1. i \in T .. l /\ i \in 1 .. l
        <4> HIDE DEF l, T
        <4> QED
          BY <1>0, <2>1, <2>2, <2>4
      <3> QED
        BY <1>3, <2>1, <3>1 DEF Late
    <2> QED
      BY <2>3, <2>4
  <1>6. ASSUME NEW n \in Nodes, DeleteList(n), worker[n].transfer = e PROVE FALSE
    BY <1>1, <1>6, DeleteSpends
  <1> QED
    BY <1>0, <1>4, <1>5, <1>6, QuietListSteps

-----------------------------------------------------------------------------
(* What it costs to lose the workers of a job.                             *)

(* A job was put back at most once for each fault, less one when its       *)
(* worker is gone again or it was given up.                                *)
StallsPaidFor ==
    \A j \in JobIds : Exists(j) =>
        /\ Active(j) => jobs[j].owner \in Nodes
        /\ jobs[j].stalls <= faults
        /\ jobs[j].state = "failed" \/ Orphaned(j) => jobs[j].stalls < faults
        /\ jobs[j].state = "failed" => jobs[j].stalls = MaxStalls

LEMMA FaultsGrow ==
    ASSUME TypeOK, [Next]_vars
    PROVE  faults' \in Nat /\ faults <= faults'
  <1>1. (\E kind : Fault(kind)) \/ UNCHANGED faults
    BY DEF Next, vars, Emit, Miss, Redeliver, HandlerStep, Push, Resend, Count, CountOutdated,
           CheckJob, AddJob, WorkerStep, Take, ReadList, DeleteList, Submit, Mined, Finish,
           WaitFails, Evicted, MinedUnwatched, Crash, Restart, PutBackOrphan, PutBackSlow,
           NoFault
  <1> QED
    BY <1>1 DEF Fault, TypeOK

(* A run goes on until it finishes or its node crashes. *)
LEMMA RunGoesOn ==
    ASSUME TypeOK, [Next]_vars, NEW n \in Nodes, Working(n), ~ Finish(n), ~ Crash(n)
    PROVE  Working(n)' /\ worker'[n].transfer = worker[n].transfer
  <1>1. worker[n] \in Runs
    BY WorkerTypes
  <1>2. ASSUME \/ ReadList(n) \/ DeleteList(n) \/ Submit(n) \/ Mined(n)
               \/ WaitFails(n) \/ Evicted(n)
        PROVE  /\ worker'[n].step \in {"lrange", "del", "submit", "wait", "hung", "complete"}
               /\ worker'[n].transfer = worker[n].transfer
    BY <1>1, <1>2 DEF ReadList, DeleteList, Submit, Mined, WaitFails, Evicted, Ends, TypeOK,
                      Runs
  <1>3. ASSUME NEW k \in Nodes, k # n,
               \/ \E j \in JobIds : Take(k, j)
               \/ ReadList(k) \/ DeleteList(k) \/ Submit(k) \/ Mined(k) \/ Finish(k)
               \/ WaitFails(k) \/ Evicted(k) \/ Crash(k)
        PROVE  worker'[n] = worker[n]
    BY <1>3 DEF Take, ReadList, DeleteList, Submit, Mined, Finish, WaitFails, Evicted, Crash,
                Ends, TypeOK
  <1>4. \A j \in JobIds : ~ Take(n, j)
    BY DEF Take
  <1>5. Idle.step = "idle"
    BY DEF Idle
  <1>6. \/ UNCHANGED worker
        \/ \E k \in Nodes :
             \/ \E j \in JobIds : Take(k, j)
             \/ ReadList(k) \/ DeleteList(k) \/ Submit(k) \/ Mined(k) \/ Finish(k)
             \/ WaitFails(k) \/ Evicted(k) \/ Crash(k)
    BY DEF Next, vars, Emit, Miss, Redeliver, HandlerStep, Push, Resend, Count, CountOutdated,
           CheckJob, AddJob, WorkerStep, MinedUnwatched, Restart, PutBackOrphan, PutBackSlow
  <1> QED
    BY <1>1, <1>2, <1>3, <1>4, <1>5, <1>6 DEF Working

LEMMA NextStallsPaidFor ==
    ASSUME TypeOK, JobMatches, StallsPaidFor, [Next]_vars
    PROVE  StallsPaidFor'
  <1> SUFFICES ASSUME NEW j \in JobIds, Exists(j)'
               PROVE  /\ Active(j)' => jobs'[j].owner \in Nodes
                      /\ jobs'[j].stalls <= faults'
                      /\ jobs'[j].state = "failed" \/ Orphaned(j)' => jobs'[j].stalls < faults'
                      /\ jobs'[j].state = "failed" => jobs'[j].stalls = MaxStalls
    BY DEF StallsPaidFor
  <1>0. faults \in Nat /\ faults' \in Nat /\ faults <= faults'
    BY FaultsGrow DEF TypeOK
  <1>1. CASE jobs'[j] = jobs[j]
    <2>1. Exists(j) /\ jobs[j] \in Jobs /\ jobs[j].stalls \in Nat
      BY <1>1, JobTypes, JobQueueAssumption DEF Exists, Jobs
    <2>2. CASE Orphaned(j)' => Orphaned(j)
      BY <1>0, <1>1, <2>1, <2>2 DEF StallsPaidFor, Active, Exists
    <2>3. CASE Orphaned(j)' /\ ~ Orphaned(j)
      <3>0. PICK n \in Nodes : n = jobs[j].owner
        BY <1>1, <2>1, <2>3 DEF StallsPaidFor, Orphaned, Active, Exists
      <3>1. Active(j) /\ Running(n, j) /\ ~ Running(n, j)'
        BY <1>1, <2>3, <3>0 DEF Orphaned, Active, Exists
      <3>2. Working(n) /\ JobOf(worker[n].transfer) = j
        BY <3>1 DEF Running
      <3>3. ~ Finish(n)
        BY <1>1, <2>1, <3>0, <3>1, <3>2
           DEF Finish, Complete, HoldsLock, Exists, TypeOK, QueueTypeOK
      <3>4. Crash(n)
        BY <3>1, <3>2, <3>3, RunGoesOn DEF Running, JobOf
      <3>5. faults' = faults + 1
        BY <3>4 DEF Crash, Fault
      <3> QED
        BY <1>0, <1>1, <2>1, <3>5 DEF StallsPaidFor, Active, Exists
    <2> QED
      BY <2>2, <2>3
  <1>2. ASSUME NEW c \in Calls, jobs'[j] = NewJob(c.transfer)
        PROVE  /\ jobs'[j].stalls = 0 /\ ~ Active(j)' /\ ~ Orphaned(j)'
               /\ jobs'[j].state # "failed"
    BY <1>2 DEF NewJob, Active, Orphaned
  <1>3. ASSUME NEW n \in Nodes, Take(n, j)
        PROVE  /\ jobs'[j].owner \in Nodes /\ ~ Orphaned(j)'
               /\ jobs'[j].stalls <= faults' /\ jobs'[j].state # "failed"
    <2>1. /\ Exists(j) /\ jobs[j] \in Jobs
          /\ jobs'[j] = [jobs[j] EXCEPT !.state = "active", !.owner = n]
          /\ worker'[n] = [step |-> "lrange", transfer |-> jobs[j].transfer,
                           held |-> <<>>, failed |-> FALSE]
      BY <1>3, JobTypes DEF Take, Fetch, Waiting, TypeOK, QueueTypeOK
    <2>2. /\ jobs'[j].state = "active" /\ jobs'[j].owner = n
          /\ jobs'[j].stalls = jobs[j].stalls /\ jobs[j].stalls \in Nat
      BY <2>1, JobQueueAssumption DEF Jobs
    <2>3. Running(n, j)'
      BY <2>1 DEF Running, Working, Idle, JobMatches, JobOf
    <2> QED
      BY <1>0, <2>1, <2>2, <2>3 DEF StallsPaidFor, Orphaned
  <1>4. ASSUME PutBackOrphan(j) \/ PutBackSlow(j)
        PROVE  /\ ~ Active(j)' /\ ~ Orphaned(j)'
               /\ jobs'[j].stalls <= faults'
               /\ jobs'[j].state = "failed" => /\ jobs'[j].stalls < faults'
                                              /\ jobs'[j].stalls = MaxStalls
    <2>1. /\ Active(j) /\ jobs[j] \in Jobs
          /\ jobs'[j] = IF jobs[j].stalls < MaxStalls THEN Requeued(jobs[j])
                        ELSE GivenUp(jobs[j])
      BY <1>4, JobTypes DEF PutBackOrphan, PutBackSlow, PutBack, Active, TypeOK, QueueTypeOK
    <2>2. /\ jobs[j].stalls \in Nat /\ jobs[j].stalls <= MaxStalls
          /\ MaxStalls \in Nat
      BY <2>1, JobQueueAssumption DEF Jobs
    <2>3. jobs[j].stalls < faults'
      <3>1. CASE PutBackOrphan(j)
        BY <1>0, <2>1, <2>2, <3>1 DEF PutBackOrphan, StallsPaidFor, Active
      <3>2. CASE PutBackSlow(j)
        <4>1. faults' = faults + 1 /\ jobs[j].stalls <= faults
          BY <2>1, <3>2 DEF PutBackSlow, Fault, StallsPaidFor, Active
        <4> QED
          BY <1>0, <2>2, <4>1
      <3> QED
        BY <1>4, <3>1, <3>2
    <2>4. /\ Requeued(jobs[j]).state = "waiting"
          /\ Requeued(jobs[j]).stalls = jobs[j].stalls + 1
          /\ GivenUp(jobs[j]).state = "failed"
          /\ GivenUp(jobs[j]).stalls = jobs[j].stalls
      BY <2>1 DEF Requeued, GivenUp, Jobs
    <2>5. CASE jobs[j].stalls < MaxStalls
      BY <1>0, <2>1, <2>2, <2>3, <2>4, <2>5 DEF Active, Orphaned
    <2>6. CASE ~ (jobs[j].stalls < MaxStalls)
      BY <1>0, <2>1, <2>2, <2>3, <2>4, <2>6 DEF Active, Orphaned
    <2> QED
      BY <2>5, <2>6
  <1>5. ASSUME jobs'[j] # jobs[j]
        PROVE  \/ \E c \in Calls : jobs'[j] = NewJob(c.transfer)
               \/ \E n \in Nodes : Take(n, j)
               \/ PutBackOrphan(j) \/ PutBackSlow(j)
    <2>1. ASSUME NEW n \in Nodes, NEW i \in JobIds, Take(n, i) PROVE i = j
      BY <1>5, <2>1 DEF Take, Fetch, TypeOK, QueueTypeOK
    <2>2. ASSUME NEW i \in JobIds, PutBackOrphan(i) \/ PutBackSlow(i) PROVE i = j
      BY <1>5, <2>2 DEF PutBackOrphan, PutBackSlow, PutBack, TypeOK, QueueTypeOK
    <2>3. ASSUME NEW n \in Nodes, Finish(n) PROVE FALSE
      <3>1. JobOf(worker[n].transfer) \in JobIds
        BY <2>3, WorkerTypes DEF Finish, At
      <3> QED
        BY <1>5, <2>3, <3>1 DEF Finish, Complete, Exists, TypeOK, QueueTypeOK
    <2>4. ASSUME NEW c \in Calls, AddJob(c) PROVE jobs'[j] = NewJob(c.transfer)
      BY <1>5, <2>4, CallTypes, ConstantTypes DEF AddJob, Enqueue, TypeOK, QueueTypeOK
    <2> QED
      BY <1>5, <2>1, <2>2, <2>3, <2>4
         DEF Next, vars, Emit, Miss, Redeliver, HandlerStep, Push, Resend, Count,
             CountOutdated, CheckJob, WorkerStep, ReadList, DeleteList, Submit, Mined,
             WaitFails, Evicted, MinedUnwatched, Crash, Restart
  <1> QED
    BY <1>0, <1>1, <1>2, <1>3, <1>4, <1>5

LEMMA ServedInvariant ==
    ASSUME Distinguished, AsksDestination, OnlyFaults(KeepsLists)
    PROVE  Spec => [](LateSignersPending /\ StallsPaidFor)
  <1>1. "duplicate" \notin Faults /\ "resend" \notin Faults
    BY DEF OnlyFaults, KeepsLists
  <1>2. Spec => []Orderly
    BY <1>1, OrderlyInvariant
  <1>3. Spec => []ListsAccounted
    BY AccountedInvariant
  <1>4. Init => LateSignersPending /\ StallsPaidFor
    <2> SUFFICES ASSUME Init PROVE LateSignersPending /\ StallsPaidFor
      OBVIOUS
    <2>1. StallsPaidFor
      BY DEF Init, QueueInit, Exists, StallsPaidFor
    <2>2. ASSUME NEW e \in Transfers, NEW i \in Late(e) PROVE FALSE
      <3>1. /\ Message(e) \in Messages
            /\ Threshold[Log[e].to] \in Nat /\ Threshold[Log[e].to] > 0
        BY ConstantTypes
      <3>2. Len(sigs[Message(e)]) = 0
        BY <3>1 DEF Init
      <3> QED
        BY <2>2, <3>1, <3>2 DEF Late
    <2> QED
      BY <2>1, <2>2 DEF LateSignersPending
  <1>5. TypeOK /\ Provenance /\ Orderly /\ ListsAccounted
        /\ LateSignersPending /\ StallsPaidFor /\ [Next]_vars
        => LateSignersPending' /\ StallsPaidFor'
    BY NextLateSigners, NextStallsPaidFor DEF Provenance, Orderly
  <1> QED
    BY <1>2, <1>3, <1>4, <1>5, TypeCorrect, ProvenanceInvariant, PTL DEF Spec

(* A list that the contract would accept has a job that waits, runs or     *)
(* will be put back, or a handler that will queue one - unless all its     *)
(* late signers died, or more workers of its job were lost than MaxStalls: *)
(* whatever crashes, stalls and failing calls happen, and however many.    *)
THEOREM FullListServed ==
    QuorumsIntersect /\ Distinguished /\ AsksDestination /\ OnlyFaults(KeepsLists)
    => (Spec => []FullListIsServed)
  <1> SUFFICES ASSUME QuorumsIntersect, Distinguished, AsksDestination, OnlyFaults(KeepsLists)
               PROVE  Spec => []FullListIsServed
    OBVIOUS
  <1>1. TypeOK /\ ListsAccounted /\ LateSignersPending /\ StallsPaidFor => FullListIsServed
    <2> SUFFICES ASSUME TypeOK, ListsAccounted, LateSignersPending, StallsPaidFor,
                        NEW e \in Transfers,
                        Accepts(Log[e].to, Message(e), sigs[Message(e)])
                 PROVE  \/ Waiting(JobOf(e))
                        \/ \E n \in Nodes : /\ Running(n, JobOf(e))
                                            /\ worker[n].step \in {"lrange", "del"}
                        \/ Orphaned(JobOf(e)) /\ jobs[JobOf(e)].stalls < MaxStalls
                        \/ \E c \in Calls : /\ Message(c.transfer) = Message(e)
                                            /\ handler[c] \in InProgress
                        \/ LateSignersDied(e)
                        \/ LostTooOften(JobOf(e))
      BY DEF FullListIsServed
    <2> DEFINE j == JobOf(e)
    <2>1. Full(e)
      BY DEF Accepts, Full
    <2>2. ~ Spent(e)
      <3> DEFINE T == Threshold[Log[e].to]
                 k == Cardinality(Signers(Message(e)))
                 l == Len(sigs[Message(e)])
                 all == Cardinality(Nodes)
      <3>1. k <= all /\ all \in Nat
        BY FS_Subset, FS_CardinalityType, TransfersAssumption DEF Signers
      <3>2. 2 * T > all /\ T \in Nat
        BY ConstantTypes DEF QuorumsIntersect
      <3>3. l >= T /\ l \in Nat /\ k \in Nat
        BY <2>1, ConstantTypes, SignersCounted DEF Full, TypeOK
      <3>4. ~ (l + T <= k)
        <4> HIDE DEF T, k, l, all
        <4> QED
          BY <3>1, <3>2, <3>3
      <3> QED
        BY <3>4 DEF Spent
    <2>3. Fresh(e)
      BY <2>2 DEF ListsAccounted
    <2>4. CASE ~ Exists(j)
      <3>1. \A i \in Late(e) : PendingSigner(e, i)
        BY <2>2, <2>4 DEF LateSignersPending
      <3>2. CASE \E c \in Calls : c.transfer = e /\ handler[c] \in InProgress
        BY <3>2
      <3>3. CASE ~ \E c \in Calls : c.transfer = e /\ handler[c] \in InProgress
        <4>1. \A i \in Late(e) : \E c \in Calls :
                 /\ c.transfer = e
                 /\ c.node = sigs[Message(e)][i].by
                 /\ handler[c] = "dead"
          BY <3>1, <3>3 DEF PendingSigner, Pending
        <4>2. LateSignersDied(e)
          BY <4>1 DEF LateSignersDied, Late
        <4> QED
          BY <4>2
      <3> QED
        BY <3>2, <3>3
    <2>5. CASE Exists(j)
      <3>1. /\ j \in JobIds /\ jobs[j] \in Jobs
            /\ jobs[j].stalls \in Nat /\ jobs[j].stalls <= MaxStalls
            /\ MaxStalls \in Nat /\ faults \in Nat
            /\ jobs[j].state \in {"waiting", "active", "failed"}
        BY <2>5, ConstantTypes, JobTypes, JobQueueAssumption DEF Jobs, TypeOK
      <3>2. /\ Active(j) => jobs[j].owner \in Nodes
            /\ jobs[j].state = "failed" \/ Orphaned(j) => jobs[j].stalls < faults
            /\ jobs[j].state = "failed" => jobs[j].stalls = MaxStalls
        BY <2>5, <3>1 DEF StallsPaidFor
      <3>3. CASE jobs[j].state = "waiting"
        BY <2>5, <3>3 DEF Waiting
      <3>4. CASE jobs[j].state = "failed"
        BY <2>5, <3>1, <3>2, <3>4 DEF LostTooOften
      <3>5. CASE jobs[j].state = "active" /\ Running(jobs[j].owner, j)
        BY <2>3, <2>5, <3>2, <3>5 DEF Active, Fresh
      <3>6. CASE jobs[j].state = "active" /\ ~ Running(jobs[j].owner, j)
        <4>1. Orphaned(j)
          BY <2>5, <3>6 DEF Orphaned, Active
        <4> QED
          BY <2>5, <3>1, <3>2, <4>1 DEF LostTooOften
      <3> QED
        BY <3>1, <3>3, <3>4, <3>5, <3>6
    <2> QED
      BY <2>4, <2>5
  <1> QED
    BY <1>1, AccountedInvariant, ServedInvariant, TypeCorrect, PTL

(* A job is only queued when a threshold of nodes has signed - as long as  *)
(* every transfer has a transaction of its own, the threshold asked for is *)
(* the destination's, and no push is repeated and no log notified twice.   *)
THEOREM QueuedByQuorum ==
    Distinguished /\ AsksDestination /\ OnlyFaults(KeepsLists)
    => (Spec => []QueuedOnlyByQuorum)
  <1> SUFFICES ASSUME Distinguished, AsksDestination, OnlyFaults(KeepsLists)
               PROVE  Spec => []QueuedOnlyByQuorum
    OBVIOUS
  <1>1. TypeOK /\ ListsAccounted => QueuedOnlyByQuorum
    <2> SUFFICES ASSUME TypeOK, ListsAccounted, NEW e \in Transfers, Exists(JobOf(e))
                 PROVE  Cardinality(Signers(Message(e))) >= Threshold[Log[e].to]
      BY DEF QueuedOnlyByQuorum
    <2>1. CASE Fresh(e)
      BY <2>1 DEF Fresh, Full
    <2>2. CASE Spent(e)
      <3>1. /\ Len(sigs[Message(e)]) \in Nat /\ Threshold[Log[e].to] \in Nat
            /\ Cardinality(Signers(Message(e))) \in Nat
        BY ConstantTypes, SignersCounted DEF TypeOK
      <3> QED
        BY <2>2, <3>1 DEF Spent
    <2> QED
      BY <2>1, <2>2 DEF ListsAccounted
  <1> QED
    BY <1>1, AccountedInvariant, TypeCorrect, PTL
=============================================================================
