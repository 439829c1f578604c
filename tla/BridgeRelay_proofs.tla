------------------------- MODULE BridgeRelay_proofs -------------------------
(***************************************************************************)
(* Proofs about BridgeRelay, for every set of nodes, transfers, chains and *)
(* messages, every threshold, every kind of fault and any number of them.  *)
(***************************************************************************)
EXTENDS BridgeRelay, FunctionTheorems, FiniteSetTheorems, SequenceTheorems, TLAPS

-----------------------------------------------------------------------------
(* Type correctness.                                                       *)

LEMMA ConstantTypes ==
    /\ \A e \in Transfers : /\ Log[e].from \in Chains /\ Log[e].to \in Chains
                            /\ Log[e].tx \in Txs
                            /\ Message(e) \in Messages
                            /\ JobOf(e) \in JobIds
                            /\ HandlerThreshold(e) \in Nat
    /\ \A m \in Messages : JobId(m) \in JobIds
    /\ \A c \in Chains : Threshold[c] \in Nat /\ Threshold[c] > 0
    /\ Solana \in Chains
  BY TransfersAssumption, SMT DEF Message, JobOf, JobId, HandlerThreshold

LEMMA CallTypes ==
    \A c \in Calls : /\ c.node \in Nodes /\ c.transfer \in Transfers
                     /\ SignatureOf(c) \in Signatures
  BY DEF Calls, SignatureOf, Signatures, SchemeOf

LEMMA InitType == Init => TypeOK
  <1> SUFFICES ASSUME Init PROVE TypeOK
    OBVIOUS
  <1>1. LedgerTypeOK /\ QueueTypeOK
    BY DEF Init, ContractInit, QueueInit, LedgerTypeOK, QueueTypeOK
  <1>2. sigs \in [Messages -> Seq(Signatures)]
    BY DEF Init
  <1> QED
    BY <1>1, <1>2 DEF Init, TypeOK, HandlerSteps

(* A transaction that was sent and not mined or dropped. *)
InFlight(tx) ==
    \/ tx \in unwatched
    \/ \E n \in Nodes : At(n, "wait") /\ tx = SentBy(n)

(* What a working node's record looks like. *)
LEMMA WorkerTypes ==
    ASSUME TypeOK, NEW n \in Nodes, Working(n)
    PROVE  /\ worker[n] \in Runs
           /\ worker[n].transfer \in Transfers
           /\ worker[n].held \in Seq(Signatures)
           /\ JobOf(worker[n].transfer) \in JobIds
           /\ Message(worker[n].transfer) \in Messages
           /\ Log[worker[n].transfer].to \in Chains
  <1>1. worker[n] \in Runs
    BY DEF TypeOK, Working
  <1> QED
    BY <1>1, ConstantTypes DEF Runs

LEMMA InFlightTypes ==
    ASSUME TypeOK, NEW tx, InFlight(tx)
    PROVE  /\ tx \in Sent
           /\ tx.transfer \in Transfers /\ tx.held \in Seq(Signatures)
           /\ Message(tx.transfer) \in Messages /\ Log[tx.transfer].to \in Chains
  <1>1. tx \in Sent
    BY WorkerTypes DEF InFlight, TypeOK, SentBy, Sent, At
  <1> QED
    BY <1>1, ConstantTypes DEF Sent

LEMMA JobTypes ==
    ASSUME TypeOK, NEW j \in JobIds, Exists(j)
    PROVE  jobs[j] \in Jobs
  BY DEF TypeOK, QueueTypeOK, Exists

LEMMA PayType ==
    ASSUME LedgerTypeOK, NEW e \in Transfers, NEW ss \in Seq(Signatures), Pay(e, ss)
    PROVE  LedgerTypeOK'
  <1>1. [transfer |-> e, signatures |-> Range(ss)] \in Payments
    BY DEF Payments, Range
  <1> QED
    BY <1>1, ConstantTypes DEF Pay, LedgerTypeOK

LEMMA ExecuteType ==
    ASSUME TypeOK, NEW tx, InFlight(tx), Execute(tx)
    PROVE  LedgerTypeOK'
  <1>1. CASE AcceptsNow(tx)
    BY <1>1, InFlightTypes, PayType DEF Execute, TypeOK
  <1>2. CASE ~ AcceptsNow(tx)
    BY <1>2 DEF Execute, TypeOK, LedgerTypeOK
  <1> QED
    BY <1>1, <1>2

LEMMA EnqueueType ==
    ASSUME QueueTypeOK, NEW j \in JobIds, NEW e \in Transfers, Enqueue(j, e)
    PROVE  QueueTypeOK'
  <1>1. NewJob(e) \in Jobs
    BY JobQueueAssumption DEF NewJob, Jobs
  <1> QED
    BY <1>1 DEF Enqueue, QueueTypeOK

LEMMA FetchType ==
    ASSUME TypeOK, NEW n \in Nodes, NEW j \in JobIds, Fetch(n, j)
    PROVE  QueueTypeOK'
  <1>1. jobs[j] \in Jobs
    BY JobTypes DEF Fetch, Waiting
  <1>2. [jobs[j] EXCEPT !.state = "active", !.owner = n] \in Jobs
    BY <1>1 DEF Jobs
  <1> QED
    BY <1>2 DEF Fetch, QueueTypeOK, TypeOK

LEMMA PutBackType ==
    ASSUME TypeOK, NEW j \in JobIds, PutBack(j)
    PROVE  QueueTypeOK'
  <1>1. jobs[j] \in Jobs
    BY JobTypes DEF PutBack, Active
  <1>2. CASE jobs[j].stalls < MaxStalls
    <2>1. Requeued(jobs[j]) \in Jobs
      BY <1>1, <1>2, JobQueueAssumption DEF Jobs, Requeued
    <2> QED
      BY <1>2, <2>1 DEF PutBack, QueueTypeOK, TypeOK
  <1>3. CASE ~ (jobs[j].stalls < MaxStalls)
    <2>1. GivenUp(jobs[j]) \in Jobs
      BY <1>1 DEF Jobs, GivenUp
    <2> QED
      BY <1>3, <2>1 DEF PutBack, QueueTypeOK, TypeOK
  <1> QED
    BY <1>2, <1>3

LEMMA CompleteType ==
    ASSUME QueueTypeOK, NEW n \in Nodes, NEW j \in JobIds, Complete(n, j)
    PROVE  QueueTypeOK'
  BY DEF Complete, QueueTypeOK

LEMMA RpushType ==
    ASSUME TypeOK, NEW m \in Messages, NEW s \in Signatures, Rpush(m, s)
    PROVE  sigs' \in [Messages -> Seq(Signatures)]
  <1>1. sigs[m] \in Seq(Signatures)
    BY DEF TypeOK
  <1>2. Append(sigs[m], s) \in Seq(Signatures)
    BY <1>1
  <1> QED
    BY <1>2 DEF Rpush, TypeOK

(* The run of a working node goes on to another step, or ends. *)
LEMMA RunType ==
    ASSUME TypeOK, NEW n \in Nodes, Working(n),
           \/ UNCHANGED worker
           \/ \E step \in {"submit", "wait", "hung"} :
                worker' = [worker EXCEPT ![n].step = step]
           \/ \E failed \in BOOLEAN : Ends(n, failed)
    PROVE  worker' \in [Nodes -> Runs \cup {Idle}]
  <1>1. /\ \A step \in {"submit", "wait", "hung"} : [worker[n] EXCEPT !.step = step] \in Runs
        /\ \A failed \in BOOLEAN :
              [worker[n] EXCEPT !.step = "complete", !.failed = failed] \in Runs
    BY WorkerTypes DEF Runs
  <1> QED
    BY <1>1 DEF Ends, TypeOK

LEMMA SentType ==
    ASSUME TypeOK, NEW n \in Nodes, At(n, "wait")
    PROVE  InFlight(SentBy(n)) /\ SentBy(n) \in Sent
  BY InFlightTypes DEF InFlight

LEMMA FaultType ==
    ASSUME faults \in Nat, NoFault \/ \E kind \in Faults : Fault(kind)
    PROVE  faults' \in Nat
  BY DEF NoFault, Fault

LEMMA NextType == TypeOK /\ [Next]_vars => TypeOK'
  <1> SUFFICES ASSUME TypeOK, [Next]_vars PROVE TypeOK'
    OBVIOUS
  <1> USE ConstantTypes, CallTypes
  <1>1. CASE UNCHANGED vars
    BY <1>1 DEF vars, TypeOK, LedgerTypeOK, QueueTypeOK
  <1>2. ASSUME NEW t \in Txs, Emit(t) PROVE TypeOK'
    BY <1>2 DEF Emit, TypeOK, LedgerTypeOK, QueueTypeOK, HandlerSteps
  <1>3. ASSUME NEW c \in Calls, Miss(c) PROVE TypeOK'
    BY <1>3 DEF Miss, Fault, TypeOK, LedgerTypeOK, QueueTypeOK, HandlerSteps
  <1>4. ASSUME NEW c \in Calls, Redeliver(c) PROVE TypeOK'
    BY <1>4 DEF Redeliver, Fault, TypeOK, LedgerTypeOK, QueueTypeOK, HandlerSteps
  <1>5. ASSUME NEW c \in Calls, Push(c) PROVE TypeOK'
    <2>1. sigs' \in [Messages -> Seq(Signatures)]
      BY <1>5, RpushType DEF Push, TypeOK
    <2>2. faults' \in Nat
      BY <1>5 DEF Push, NoFault, Fault, TypeOK
    <2> QED
      BY <1>5, <2>1, <2>2 DEF Push, MoveTo, TypeOK, LedgerTypeOK, QueueTypeOK, HandlerSteps
  <1>6. ASSUME NEW c \in Calls, Count(c) PROVE TypeOK'
    <2>1. faults' \in Nat
      BY <1>6 DEF Count, NoFault, Fault, TypeOK
    <2>2. handler' \in [Calls -> HandlerSteps]
      BY <1>6 DEF Count, MoveTo, TypeOK, HandlerSteps
    <2> QED
      BY <1>6, <2>1, <2>2 DEF Count, TypeOK, LedgerTypeOK, QueueTypeOK
  <1>7. ASSUME NEW c \in Calls, CheckJob(c) PROVE TypeOK'
    <2>1. faults' \in Nat
      BY <1>7 DEF CheckJob, NoFault, Fault, TypeOK
    <2>2. handler' \in [Calls -> HandlerSteps]
      BY <1>7 DEF CheckJob, MoveTo, TypeOK, HandlerSteps
    <2> QED
      BY <1>7, <2>1, <2>2 DEF CheckJob, TypeOK, LedgerTypeOK, QueueTypeOK
  <1>8. ASSUME NEW c \in Calls, AddJob(c) PROVE TypeOK'
    <2>1. QueueTypeOK'
      BY <1>8, EnqueueType DEF AddJob, TypeOK, QueueTypeOK
    <2> QED
      BY <1>8, <2>1 DEF AddJob, MoveTo, NoFault, Fault, TypeOK, LedgerTypeOK, HandlerSteps
  <1>9. ASSUME NEW n \in Nodes, NEW j \in JobIds, Take(n, j) PROVE TypeOK'
    <2>1. QueueTypeOK'
      BY <1>9, FetchType DEF Take
    <2>2. jobs[j].transfer \in Transfers
      BY <1>9, JobTypes DEF Take, Fetch, Waiting, Jobs
    <2>3. worker' \in [Nodes -> Runs \cup {Idle}]
      BY <1>9, <2>2 DEF Take, Runs, TypeOK
    <2> QED
      BY <1>9, <2>1, <2>3 DEF Take, TypeOK, LedgerTypeOK
  <1>10. ASSUME NEW n \in Nodes, ReadList(n) PROVE TypeOK'
    <2>1. worker[n] \in Runs /\ Lrange(Message(worker[n].transfer)) \in Seq(Signatures)
      BY <1>10, WorkerTypes DEF ReadList, At, Lrange, TypeOK
    <2>2. worker' \in [Nodes -> Runs \cup {Idle}]
      <3>1. /\ [worker[n] EXCEPT !.step = "complete"] \in Runs
            /\ [worker[n] EXCEPT !.step = "complete", !.failed = TRUE] \in Runs
            /\ [worker[n] EXCEPT !.step = "del",
                                 !.held = Lrange(Message(worker[n].transfer))] \in Runs
        BY <2>1 DEF Runs
      <3> QED
        BY <1>10, <3>1 DEF ReadList, TypeOK
    <2>3. faults' \in Nat
      BY <1>10 DEF ReadList, NoFault, Fault, TypeOK
    <2> QED
      BY <1>10, <2>2, <2>3 DEF ReadList, TypeOK, LedgerTypeOK, QueueTypeOK
  <1>11. ASSUME NEW n \in Nodes, DeleteList(n) PROVE TypeOK'
    <2>1. Working(n) /\ Message(worker[n].transfer) \in Messages
      BY <1>11, WorkerTypes DEF DeleteList, At
    <2>2. worker' \in [Nodes -> Runs \cup {Idle}]
      BY <1>11, <2>1, RunType DEF DeleteList
    <2>3. sigs' \in [Messages -> Seq(Signatures)]
      <3>1. <<>> \in Seq(Signatures)
        OBVIOUS
      <3> QED
        BY <1>11, <2>1, <3>1 DEF DeleteList, TypeOK
    <2>4. faults' \in Nat
      BY <1>11 DEF DeleteList, NoFault, Fault, TypeOK
    <2> QED
      BY <1>11, <2>2, <2>3, <2>4 DEF DeleteList, TypeOK, LedgerTypeOK, QueueTypeOK
  <1>12. ASSUME NEW n \in Nodes, Submit(n) PROVE TypeOK'
    <2>1. worker' \in [Nodes -> Runs \cup {Idle}]
      BY <1>12, RunType DEF Submit, At
    <2>2. NoFault \/ Fault("submit")
      BY <1>12 DEF Submit
    <2>3. faults' \in Nat
      BY <2>2 DEF NoFault, Fault, TypeOK
    <2> QED
      BY <1>12, <2>1, <2>3 DEF Submit, TypeOK, LedgerTypeOK, QueueTypeOK
  <1>13. ASSUME NEW n \in Nodes, Finish(n) PROVE TypeOK'
    <2>1. worker[n].transfer \in Transfers /\ JobOf(worker[n].transfer) \in JobIds
      BY <1>13, WorkerTypes DEF Finish, At
    <2>2. QueueTypeOK'
      BY <1>13, <2>1, CompleteType DEF Finish, TypeOK
    <2>3. records' \in [Transfers -> Nat]
      BY <1>13, <2>1 DEF Finish, TypeOK
    <2>4. faults' \in Nat
      BY <1>13 DEF Finish, NoFault, Fault, TypeOK
    <2> QED
      BY <1>13, <2>2, <2>3, <2>4 DEF Finish, TypeOK, LedgerTypeOK
  <1>14. ASSUME NEW n \in Nodes, Crash(n) PROVE TypeOK'
    <2>1. unwatched' \subseteq Sent
      BY <1>14, SentType DEF Crash, TypeOK
    <2>2. handler' \in [Calls -> HandlerSteps]
      BY <1>14 DEF Crash, AfterCrash, InProgress, TypeOK, HandlerSteps
    <2> QED
      BY <1>14, <2>1, <2>2 DEF Crash, Fault, TypeOK, LedgerTypeOK, QueueTypeOK
  <1>15. ASSUME NEW n \in Nodes, Restart(n) PROVE TypeOK'
    BY <1>15 DEF Restart, TypeOK, LedgerTypeOK, QueueTypeOK
  <1>16. ASSUME NEW j \in JobIds, PutBackOrphan(j) PROVE TypeOK'
    BY <1>16, PutBackType DEF PutBackOrphan, TypeOK, LedgerTypeOK
  <1>17. ASSUME NEW j \in JobIds, PutBackSlow(j) PROVE TypeOK'
    BY <1>17, PutBackType DEF PutBackSlow, Fault, TypeOK, LedgerTypeOK
  <1>18. ASSUME NEW c \in Calls, Resend(c) PROVE TypeOK'
    <2>1. sigs' \in [Messages -> Seq(Signatures)]
      BY <1>18, RpushType DEF Resend
    <2>2. faults' \in Nat
      BY <1>18 DEF Resend, Fault, TypeOK
    <2> QED
      BY <1>18, <2>1, <2>2 DEF Resend, TypeOK, LedgerTypeOK, QueueTypeOK
  <1>19. ASSUME NEW n \in Nodes, Mined(n) PROVE TypeOK'
    <2>1. worker' \in [Nodes -> Runs \cup {Idle}]
      BY <1>19, RunType DEF Mined, At
    <2>2. LedgerTypeOK'
      BY <1>19, SentType, ExecuteType DEF Mined
    <2> QED
      BY <1>19, <2>1, <2>2 DEF Mined, NoFault, TypeOK, QueueTypeOK
  <1>20. ASSUME NEW n \in Nodes, WaitFails(n) PROVE TypeOK'
    <2>1. worker' \in [Nodes -> Runs \cup {Idle}]
      BY <1>20, RunType DEF WaitFails, At
    <2>2. unwatched' \subseteq Sent
      BY <1>20, SentType DEF WaitFails, TypeOK
    <2> QED
      BY <1>20, <2>1, <2>2 DEF WaitFails, Fault, TypeOK, LedgerTypeOK, QueueTypeOK
  <1>21. ASSUME NEW n \in Nodes, Evicted(n) PROVE TypeOK'
    <2>1. worker' \in [Nodes -> Runs \cup {Idle}]
      BY <1>21, RunType DEF Evicted, At
    <2> QED
      BY <1>21, <2>1 DEF Evicted, Fault, TypeOK, LedgerTypeOK, QueueTypeOK
  <1>22. ASSUME NEW tx \in unwatched, MinedUnwatched(tx) PROVE TypeOK'
    <2>1. LedgerTypeOK'
      BY <1>22, ExecuteType DEF MinedUnwatched, InFlight
    <2> QED
      BY <1>22, <2>1 DEF MinedUnwatched, TypeOK, QueueTypeOK
  <1>23. ASSUME NEW c \in Calls, CountOutdated(c) PROVE TypeOK'
    <2>1. faults' \in Nat
      BY <1>23 DEF CountOutdated, Fault, TypeOK
    <2>2. handler' \in [Calls -> HandlerSteps]
      BY <1>23 DEF CountOutdated, MoveTo, TypeOK, HandlerSteps
    <2> QED
      BY <1>23, <2>1, <2>2 DEF CountOutdated, TypeOK, LedgerTypeOK, QueueTypeOK
  <1> QED
    BY <1>1, <1>2, <1>3, <1>4, <1>5, <1>6, <1>7, <1>8, <1>9, <1>10, <1>11, <1>12, <1>13,
       <1>14, <1>15, <1>16, <1>17, <1>18, <1>19, <1>20, <1>21, <1>22, <1>23 DEF Next, HandlerStep, WorkerStep

(* Every variable keeps its type.                                          *)
THEOREM TypeCorrect == Spec => []TypeOK
  BY InitType, NextType, PTL DEF Spec

-----------------------------------------------------------------------------
(* A transfer is paid at most once.                                        *)

(* A set of signatures of the scheme that chain c verifies. *)
ScopedTo(S, c) == \A s \in S : s \in Signatures /\ s.scheme = SchemeOf(c)

By(S) == {s.by : s \in S}

(* Signatures of one scheme are as many as their signers. *)
LEMMA OneSignaturePerSigner ==
    ASSUME NEW c, NEW S, ScopedTo(S, c)
    PROVE  /\ By(S) \subseteq Nodes
           /\ IsFiniteSet(By(S))
           /\ Cardinality(By(S)) = Cardinality(S)
  <1> DEFINE f == [n \in By(S) |-> [by |-> n, scheme |-> SchemeOf(c)]]
  <1>1. By(S) \subseteq Nodes
    BY DEF ScopedTo, Signatures, By
  <1>2. IsFiniteSet(By(S))
    BY <1>1, FS_Subset, TransfersAssumption
  <1>3. ASSUME NEW s \in S PROVE s.by \in By(S) /\ f[s.by] = s
    BY DEF ScopedTo, Signatures, By
  <1>4. \A n \in By(S) : f[n] \in S /\ f[n].by = n
    BY <1>3 DEF By
  <1>5. f \in Bijection(By(S), S)
    <2>1. f \in [By(S) -> S]
      BY <1>4
    <2>2. \A a, b \in By(S) : f[a] = f[b] => a = b
      BY <1>4
    <2>3. \A s \in S : \E n \in By(S) : f[n] = s
      BY <1>3
    <2> HIDE DEF f
    <2> QED
      BY <2>1, <2>2, <2>3, Fun_IsBij
  <1> QED
    BY <1>1, <1>2, <1>5, FS_Bijection DEF ExistsBijection

(* Two accepted sets of signatures for one chain share a signature.        *)
LEMMA AcceptedSetsMeet ==
    ASSUME QuorumsIntersect, NEW c \in Chains,
           NEW S, ScopedTo(S, c), Cardinality(S) >= Threshold[c],
           NEW T, ScopedTo(T, c), Cardinality(T) >= Threshold[c]
    PROVE  S \cap T # {}
  <1>1. /\ By(S) \subseteq Nodes /\ Cardinality(By(S)) = Cardinality(S)
        /\ By(T) \subseteq Nodes /\ Cardinality(By(T)) = Cardinality(T)
        /\ IsFiniteSet(By(S)) /\ IsFiniteSet(By(T))
    BY OneSignaturePerSigner
  <1>2. By(S) \cap By(T) # {}
    <2>1. /\ Cardinality(By(S)) \in Nat /\ Cardinality(By(T)) \in Nat
          /\ Cardinality(Nodes) \in Nat
      BY <1>1, FS_CardinalityType, TransfersAssumption
    <2>2. Cardinality(By(S)) + Cardinality(By(T)) > Cardinality(Nodes)
      BY <1>1, <2>1, ConstantTypes DEF QuorumsIntersect
    <2> QED
      BY <1>1, <2>2, FS_MajoritiesIntersect, TransfersAssumption
  <1>3. PICK s \in S, t \in T : s.by = t.by
    BY <1>2 DEF By
  <1>4. s = t
    BY <1>3 DEF ScopedTo, Signatures
  <1> QED
    BY <1>4

(* Every payment was made at the chain of its transfer with a threshold of *)
(* signatures of its scheme, and no two payments for messages that the     *)
(* chain cannot tell apart used the same signature.                        *)
PaymentInv ==
    \A c \in Chains : \A p \in ledger[c] :
        /\ Log[p.transfer].to = c
        /\ ScopedTo(p.signatures, c)
        /\ Cardinality(p.signatures) >= Threshold[c]
        /\ \A q \in ledger[c] :
              Digest(c, Message(p.transfer)) = Digest(c, Message(q.transfer)) /\ p # q
              => p.signatures \cap q.signatures = {}

LEMMA SeqRange ==
    ASSUME NEW S, NEW ss \in Seq(S)
    PROVE  \A s \in Range(ss) : s \in S
  BY DEF Range

LEMMA PayKeepsPaymentInv ==
    ASSUME TypeOK, PaymentInv, NEW e \in Transfers, NEW ss \in Seq(Signatures),
           Accepts(Log[e].to, Message(e), ss), Pay(e, ss)
    PROVE  PaymentInv'
  <1> DEFINE new == [transfer |-> e, signatures |-> Range(ss)]
  <1>1. Log[e].to \in Chains
    BY ConstantTypes
  <1>2. /\ ScopedTo(Range(ss), Log[e].to)
        /\ Cardinality(Range(ss)) >= Threshold[Log[e].to]
    BY SeqRange DEF Accepts, ScopedTo
  <1>3. \A p \in ledger[Log[e].to] :
           Digest(Log[e].to, Message(p.transfer)) = Digest(Log[e].to, Message(e))
           => p.signatures \cap Range(ss) = {}
    BY DEF Accepts, UsedSignatures, PaymentsFor
  <1>4. ASSUME NEW c \in Chains, NEW p \in ledger'[c]
        PROVE  p \in ledger[c] \/ (p = new /\ c = Log[e].to)
    BY <1>1 DEF Pay, TypeOK, LedgerTypeOK
  <1>5. ASSUME NEW c \in Chains, NEW p \in ledger'[c]
        PROVE  /\ Log[p.transfer].to = c
               /\ ScopedTo(p.signatures, c)
               /\ Cardinality(p.signatures) >= Threshold[c]
    <2>1. CASE p \in ledger[c]
      BY <2>1 DEF PaymentInv
    <2>2. CASE p = new /\ c = Log[e].to
      BY <1>2, <2>2
    <2> QED
      BY <1>4, <2>1, <2>2
  <1>6. ASSUME NEW c \in Chains, NEW p \in ledger'[c], NEW q \in ledger'[c],
               Digest(c, Message(p.transfer)) = Digest(c, Message(q.transfer)), p # q
        PROVE  p.signatures \cap q.signatures = {}
    <2>1. CASE p \in ledger[c] /\ q \in ledger[c]
      BY <1>6, <2>1 DEF PaymentInv
    <2>2. CASE p = new /\ q \in ledger[c] /\ c = Log[e].to
      BY <1>3, <1>6, <2>2
    <2>3. CASE q = new /\ p \in ledger[c] /\ c = Log[e].to
      BY <1>3, <1>6, <2>3
    <2>4. /\ p \in ledger[c] \/ (p = new /\ c = Log[e].to)
          /\ q \in ledger[c] \/ (q = new /\ c = Log[e].to)
      BY <1>4, <1>6
    <2> HIDE DEF new
    <2> QED
      BY <1>6, <2>1, <2>2, <2>3, <2>4
  <1> QED
    BY <1>5, <1>6 DEF PaymentInv

(* A ledger changes when a transaction is executed. *)
LEMMA LedgerSteps ==
    ASSUME [Next]_vars, ~ UNCHANGED ledger
    PROVE  \E tx : InFlight(tx) /\ AcceptsNow(tx) /\ Pay(tx.transfer, tx.held)
  <1>1. \/ \E n \in Nodes : Mined(n)
        \/ \E tx \in unwatched : MinedUnwatched(tx)
    BY DEF Next, vars, Emit, Miss, Redeliver, HandlerStep, Push, Resend, Count, CountOutdated, CheckJob,
           AddJob, WorkerStep, Take, ReadList, DeleteList, Submit, WaitFails, Evicted, Finish,
           Crash, Restart, PutBackOrphan, PutBackSlow
  <1>2. PICK tx : InFlight(tx) /\ Execute(tx)
    BY <1>1 DEF Mined, MinedUnwatched, InFlight
  <1> QED
    BY <1>2 DEF Execute

LEMMA NextPaymentInv == TypeOK /\ PaymentInv /\ [Next]_vars => PaymentInv'
  <1> SUFFICES ASSUME TypeOK, PaymentInv, [Next]_vars PROVE PaymentInv'
    OBVIOUS
  <1>1. CASE UNCHANGED ledger
    BY <1>1 DEF PaymentInv
  <1>2. CASE ~ UNCHANGED ledger
    <2>1. PICK tx : InFlight(tx) /\ AcceptsNow(tx) /\ Pay(tx.transfer, tx.held)
      BY <1>2, LedgerSteps
    <2> QED
      BY <2>1, InFlightTypes, PayKeepsPaymentInv DEF AcceptsNow
  <1> QED
    BY <1>1, <1>2

LEMMA PaymentInvariant == Spec => []PaymentInv
  <1>1. Init => PaymentInv
    BY DEF Init, ContractInit, PaymentInv
  <1> QED
    BY <1>1, TypeCorrect, NextPaymentInv, PTL DEF Spec

(* Of the transfers that a contract cannot tell apart at most one is paid, *)
(* when any two thresholds of nodes have a node in common - whatever       *)
(* faults happen, however many, and whatever messages have the same bytes. *)
THEOREM PaidAtMostOncePerDigest == QuorumsIntersect => (Spec => []PaidOncePerDigest)
  <1> SUFFICES ASSUME QuorumsIntersect PROVE Spec => []PaidOncePerDigest
    OBVIOUS
  <1>1. PaymentInv => PaidOncePerDigest
    <2> SUFFICES ASSUME PaymentInv, NEW c \in Chains,
                        NEW p \in ledger[c], NEW q \in ledger[c],
                        Digest(c, Message(p.transfer)) = Digest(c, Message(q.transfer)),
                        p # q
                 PROVE  FALSE
      BY DEF PaidOncePerDigest
    <2>1. p.signatures \cap q.signatures = {}
      BY DEF PaymentInv
    <2>2. /\ ScopedTo(p.signatures, c) /\ Cardinality(p.signatures) >= Threshold[c]
          /\ ScopedTo(q.signatures, c) /\ Cardinality(q.signatures) >= Threshold[c]
      BY DEF PaymentInv
    <2> QED
      BY <2>1, <2>2, AcceptedSetsMeet
  <1> QED
    BY <1>1, PaymentInvariant, PTL

(* In particular no transfer is paid twice.                                *)
THEOREM PaidAtMostOnce == QuorumsIntersect => (Spec => []PaidOnce)
  <1> SUFFICES ASSUME QuorumsIntersect PROVE Spec => []PaidOnce
    OBVIOUS
  <1>1. PaidOncePerDigest => PaidOnce
    BY DEF PaidOncePerDigest, PaidOnce
  <1> QED
    BY <1>1, PaidAtMostOncePerDigest, PTL

-----------------------------------------------------------------------------
(* Whatever is paid was mined, and was signed by a threshold of nodes.     *)

(* A handler runs only for a mined transaction. *)
HandlerInv == \A c \in Calls : handler[c] # "none" => Log[c.transfer].tx \in emitted

(* What is in Redis, in a worker, sent or in a ledger comes from them. *)
ListInv == \A m \in Messages : By(Range(sigs[m])) \subseteq Signers(m)

JobInv == \A j \in JobIds : Exists(j) => Log[jobs[j].transfer].tx \in emitted

WorkerInv ==
    \A n \in Nodes : Working(n) =>
        /\ Log[worker[n].transfer].tx \in emitted
        /\ By(Range(worker[n].held)) \subseteq Signers(Message(worker[n].transfer))

UnwatchedInv ==
    \A tx \in unwatched :
        /\ Log[tx.transfer].tx \in emitted
        /\ By(Range(tx.held)) \subseteq Signers(Message(tx.transfer))

LedgerInv ==
    \A c \in Chains : \A p \in ledger[c] :
        /\ Log[p.transfer].tx \in emitted
        /\ By(p.signatures) \subseteq Signers(Message(p.transfer))

Provenance == HandlerInv /\ ListInv /\ JobInv /\ WorkerInv /\ UnwatchedInv /\ LedgerInv

LEMMA InitProvenance == Init => Provenance
  <1> SUFFICES ASSUME Init PROVE Provenance
    OBVIOUS
  <1>1. HandlerInv
    BY DEF Init, HandlerInv
  <1>2. ListInv
    <2>1. By(Range(<<>>)) = {}
      BY DEF By, Range
    <2> QED
      BY <2>1 DEF Init, ListInv
  <1>3. JobInv
    BY DEF Init, QueueInit, JobInv, Exists
  <1>4. WorkerInv
    BY DEF Init, WorkerInv, Working
  <1>5. LedgerInv
    BY DEF Init, ContractInit, LedgerInv
  <1>6. UnwatchedInv
    BY DEF Init, UnwatchedInv
  <1> QED
    BY <1>1, <1>2, <1>3, <1>4, <1>5, <1>6 DEF Provenance

(* No handler that pushed is ever forgotten. *)
LEMMA HandlersAdvance ==
    ASSUME TypeOK, HandlerInv, [Next]_vars, NEW c \in Calls
    PROVE  /\ handler[c] \in Pushed => handler'[c] \in Pushed
           /\ handler'[c] # "none" => Log[c.transfer].tx \in emitted'
  <1> USE DEF Pushed, InProgress
  <1>1. CASE UNCHANGED <<handler, emitted>>
    BY <1>1 DEF HandlerInv
  <1>2. ASSUME NEW t \in Txs, Emit(t)
        PROVE  /\ handler[c] \in Pushed => handler'[c] \in Pushed
               /\ handler'[c] # "none" => Log[c.transfer].tx \in emitted'
    BY <1>2 DEF Emit, HandlerInv
  <1>3. ASSUME NEW d \in Calls, Miss(d)
        PROVE  /\ handler[c] \in Pushed => handler'[c] \in Pushed
               /\ handler'[c] # "none" => Log[c.transfer].tx \in emitted'
    BY <1>3 DEF Miss, HandlerInv
  <1>4. ASSUME NEW d \in Calls, Redeliver(d)
        PROVE  /\ handler[c] \in Pushed => handler'[c] \in Pushed
               /\ handler'[c] # "none" => Log[c.transfer].tx \in emitted'
    <2>1. c \in Notification(d) => Log[c.transfer].tx = Log[d.transfer].tx
      BY DEF Notification, DeliveredWith
    <2> QED
      BY <1>4, <2>1 DEF Redeliver, HandlerInv
  <1>5. ASSUME NEW d \in Calls, HandlerStep(d) \/ CountOutdated(d)
        PROVE  /\ handler[c] \in Pushed => handler'[c] \in Pushed
               /\ handler'[c] # "none" => Log[c.transfer].tx \in emitted'
    <2>1. /\ \E step \in Pushed : MoveTo(d, step)
          /\ handler[d] # "none"
          /\ emitted' = emitted
      BY <1>5 DEF HandlerStep, Push, Count, CountOutdated, CheckJob, AddJob
    <2> QED
      BY <2>1 DEF MoveTo, HandlerInv, TypeOK
  <1>6. ASSUME NEW n \in Nodes, Crash(n)
        PROVE  /\ handler[c] \in Pushed => handler'[c] \in Pushed
               /\ handler'[c] # "none" => Log[c.transfer].tx \in emitted'
    <2>1. /\ handler'[c] = handler[c] \/ handler'[c] = AfterCrash(handler[c])
          /\ emitted' = emitted
      BY <1>6 DEF Crash
    <2>2. /\ handler[c] \in Pushed => AfterCrash(handler[c]) \in Pushed
          /\ handler[c] = "none" => AfterCrash(handler[c]) = "none"
      BY DEF AfterCrash
    <2> QED
      BY <2>1, <2>2 DEF HandlerInv
  <1>7. CASE \E n \in Nodes : WorkerStep(n) \/ WaitFails(n) \/ Evicted(n) \/ Restart(n)
    BY <1>7, <1>1 DEF WorkerStep, Take, ReadList, DeleteList, Submit, Mined, WaitFails,
                      Evicted, Finish, Restart
  <1>8. CASE \E j \in JobIds : PutBackOrphan(j) \/ PutBackSlow(j)
    BY <1>8, <1>1 DEF PutBackOrphan, PutBackSlow
  <1>9. CASE \/ \E d \in Calls : Resend(d)
             \/ \E tx \in unwatched : MinedUnwatched(tx)
    BY <1>9, <1>1 DEF Resend, MinedUnwatched
  <1> QED
    BY <1>1, <1>2, <1>3, <1>4, <1>5, <1>6, <1>7, <1>8, <1>9 DEF Next, vars

LEMMA SignersGrow ==
    ASSUME TypeOK, HandlerInv, [Next]_vars
    PROVE  \A m \in Messages : Signers(m) \subseteq Signers(m)'
  BY HandlersAdvance DEF Signers

LEMMA EmittedGrows == [Next]_vars => emitted \subseteq emitted'
  BY DEF Next, vars, Emit, Miss, Redeliver, HandlerStep, Push, Resend, Count, CountOutdated, CheckJob, AddJob,
         WorkerStep, Take, ReadList, DeleteList, Submit, Mined, WaitFails, Evicted, Finish,
         MinedUnwatched, Crash, Restart, PutBackOrphan, PutBackSlow

LEMMA AppendRange ==
    ASSUME NEW S, NEW ss \in Seq(S), NEW x \in S
    PROVE  Range(Append(ss, x)) \subseteq Range(ss) \cup {x}
  <1>1. /\ DOMAIN Append(ss, x) = 1 .. Len(ss) + 1
        /\ DOMAIN ss = 1 .. Len(ss)
        /\ \A i \in 1 .. Len(ss) : Append(ss, x)[i] = ss[i]
        /\ Append(ss, x)[Len(ss) + 1] = x
        /\ Len(ss) \in Nat
    OBVIOUS
  <1>2. \A i \in DOMAIN Append(ss, x) : Append(ss, x)[i] \in Range(ss) \cup {x}
    <2> TAKE i \in DOMAIN Append(ss, x)
    <2>1. CASE i \in 1 .. Len(ss)
      BY <1>1, <2>1 DEF Range
    <2>2. CASE i = Len(ss) + 1
      BY <1>1, <2>2
    <2> QED
      BY <1>1, <2>1, <2>2
  <1> QED
    BY <1>2 DEF Range

(* How a step can change a list: nothing, a push by a handler, or a del. *)
LEMMA ListSteps ==
    ASSUME TypeOK, [Next]_vars, NEW m \in Messages
    PROVE  \/ sigs'[m] = sigs[m]
           \/ sigs'[m] = <<>>
           \/ \E c \in Calls : /\ Message(c.transfer) = m
                              /\ handler'[c] = "count"
                              /\ By(Range(sigs'[m])) \subseteq By(Range(sigs[m])) \cup {c.node}
  <1>1. CASE UNCHANGED sigs
    BY <1>1
  <1>2. ASSUME NEW c \in Calls, Push(c) \/ Resend(c), ~ UNCHANGED sigs
        PROVE  \/ sigs'[m] = sigs[m]
               \/ /\ Message(c.transfer) = m
                  /\ handler'[c] = "count"
                  /\ By(Range(sigs'[m])) \subseteq By(Range(sigs[m])) \cup {c.node}
    <2> DEFINE s == SignatureOf(c)
    <2>1. s \in Signatures /\ s.by = c.node /\ Message(c.transfer) \in Messages
      BY CallTypes, ConstantTypes DEF SignatureOf
    <2>2. Rpush(Message(c.transfer), s)
      BY <1>2 DEF Push, Resend
    <2>3. CASE Message(c.transfer) # m
      BY <2>1, <2>2, <2>3 DEF Rpush, TypeOK
    <2>4. CASE Message(c.transfer) = m
      <3>1. sigs[m] \in Seq(Signatures)
        BY DEF TypeOK
      <3>2. sigs'[m] = Append(sigs[m], s)
        BY <2>2, <2>4 DEF Rpush, TypeOK
      <3>3. Range(sigs'[m]) \subseteq Range(sigs[m]) \cup {s}
        <4> HIDE DEF s
        <4> QED
          BY <2>1, <3>1, <3>2, AppendRange
      <3>4. handler'[c] = "count"
        BY <1>2 DEF Push, Resend, MoveTo, TypeOK
      <3> QED
        BY <2>1, <2>4, <3>3, <3>4 DEF By
    <2> QED
      BY <2>3, <2>4
  <1>3. ASSUME NEW n \in Nodes, DeleteList(n), ~ UNCHANGED sigs
        PROVE  sigs'[m] = sigs[m] \/ sigs'[m] = <<>>
    BY <1>3 DEF DeleteList, TypeOK
  <1>4. \/ UNCHANGED sigs
        \/ \E c \in Calls : Push(c) \/ Resend(c)
        \/ \E n \in Nodes : DeleteList(n)
    BY DEF Next, vars, Emit, Miss, Redeliver, HandlerStep, Count, CountOutdated, CheckJob, AddJob,
           WorkerStep, Take, ReadList, Submit, Mined, WaitFails, Evicted, Finish,
           MinedUnwatched, Crash, Restart, PutBackOrphan, PutBackSlow
  <1> QED
    BY <1>1, <1>2, <1>3, <1>4

LEMMA NextListInv == TypeOK /\ Provenance /\ [Next]_vars => ListInv'
  <1> SUFFICES ASSUME TypeOK, Provenance, [Next]_vars, NEW m \in Messages
               PROVE  By(Range(sigs'[m])) \subseteq Signers(m)'
    BY DEF ListInv
  <1>1. By(Range(sigs[m])) \subseteq Signers(m) /\ Signers(m) \subseteq Signers(m)'
    BY SignersGrow DEF Provenance, ListInv
  <1>2. CASE sigs'[m] = sigs[m]
    BY <1>1, <1>2
  <1>3. CASE sigs'[m] = <<>>
    BY <1>3 DEF By, Range
  <1>4. ASSUME NEW c \in Calls, Message(c.transfer) = m, handler'[c] = "count",
               By(Range(sigs'[m])) \subseteq By(Range(sigs[m])) \cup {c.node}
        PROVE  By(Range(sigs'[m])) \subseteq Signers(m)'
    <2>1. c.node \in Signers(m)'
      BY <1>4, CallTypes DEF Signers, Pushed, InProgress
    <2> QED
      BY <1>1, <1>4, <2>1
  <1> QED
    BY <1>2, <1>3, <1>4, ListSteps

LEMMA NextJobInv == TypeOK /\ Provenance /\ [Next]_vars => JobInv'
  <1> SUFFICES ASSUME TypeOK, Provenance, [Next]_vars, NEW j \in JobIds, Exists(j)'
               PROVE  Log[jobs'[j].transfer].tx \in emitted'
    BY DEF JobInv
  <1>1. emitted \subseteq emitted'
    BY EmittedGrows
  <1>2. CASE jobs'[j] = jobs[j]
    BY <1>1, <1>2 DEF Provenance, JobInv, Exists
  <1>3. ASSUME NEW c \in Calls, AddJob(c), jobs'[j] # jobs[j]
        PROVE  Log[jobs'[j].transfer].tx \in emitted'
    <2>1. jobs'[j] = NewJob(c.transfer)
      BY <1>3, CallTypes, ConstantTypes DEF AddJob, Enqueue, TypeOK, QueueTypeOK
    <2>2. Log[c.transfer].tx \in emitted
      BY <1>3 DEF AddJob, Provenance, HandlerInv
    <2> QED
      BY <1>1, <2>1, <2>2 DEF NewJob
  <1>4. ASSUME NEW n \in Nodes, NEW i \in JobIds, Take(n, i), jobs'[j] # jobs[j]
        PROVE  Exists(j) /\ jobs'[j].transfer = jobs[j].transfer
    <2>1. j = i /\ Exists(j) /\ jobs'[j] = [jobs[j] EXCEPT !.state = "active", !.owner = n]
      BY <1>4 DEF Take, Fetch, Waiting, TypeOK, QueueTypeOK
    <2>2. jobs[j] \in Jobs
      BY <2>1, JobTypes
    <2> QED
      BY <2>1, <2>2 DEF Jobs
  <1>5. ASSUME NEW n \in Nodes, Finish(n), jobs'[j] # jobs[j] PROVE FALSE
    <2>1. jobs'[j] = NoJob
      BY <1>5 DEF Finish, Complete, TypeOK, QueueTypeOK
    <2> QED
      BY <2>1 DEF Exists
  <1>6. ASSUME NEW i \in JobIds, PutBack(i), jobs'[j] # jobs[j]
        PROVE  Exists(j) /\ jobs'[j].transfer = jobs[j].transfer
    <2>1. /\ j = i /\ Exists(j)
          /\ jobs'[j] = Requeued(jobs[j]) \/ jobs'[j] = GivenUp(jobs[j])
      BY <1>6 DEF PutBack, Active, TypeOK, QueueTypeOK
    <2>2. jobs[j] \in Jobs
      BY <2>1, JobTypes
    <2>3. /\ Requeued(jobs[j]).transfer = jobs[j].transfer
          /\ GivenUp(jobs[j]).transfer = jobs[j].transfer
      BY <2>2 DEF Jobs, Requeued, GivenUp
    <2> QED
      BY <2>1, <2>3
  <1>7. ASSUME Exists(j), jobs'[j].transfer = jobs[j].transfer
        PROVE  Log[jobs'[j].transfer].tx \in emitted'
    BY <1>1, <1>7 DEF Provenance, JobInv
  <1>8. \/ jobs'[j] = jobs[j]
        \/ \E c \in Calls : AddJob(c)
        \/ \E n \in Nodes, i \in JobIds : Take(n, i)
        \/ \E n \in Nodes : Finish(n)
        \/ \E i \in JobIds : PutBack(i)
    BY DEF Next, vars, Emit, Miss, Redeliver, HandlerStep, Push, Resend, Count, CountOutdated, CheckJob,
           WorkerStep, ReadList, DeleteList, Submit, Mined, WaitFails, Evicted,
           MinedUnwatched, Crash, Restart, PutBackOrphan, PutBackSlow
  <1> QED
    BY <1>2, <1>3, <1>4, <1>5, <1>6, <1>7, <1>8

LEMMA NextWorkerInv == TypeOK /\ Provenance /\ [Next]_vars => WorkerInv'
  <1> SUFFICES ASSUME TypeOK, Provenance, [Next]_vars, NEW k \in Nodes, Working(k)'
               PROVE  /\ Log[worker'[k].transfer].tx \in emitted'
                      /\ By(Range(worker'[k].held)) \subseteq
                            Signers(Message(worker[k].transfer))'
    BY DEF WorkerInv
  <1> DEFINE Backed(w) == /\ Log[w.transfer].tx \in emitted
                          /\ w.transfer \in Transfers
                          /\ By(Range(w.held)) \subseteq Signers(Message(w.transfer))
  <1>1. ASSUME Backed(worker'[k])
        PROVE  /\ Log[worker'[k].transfer].tx \in emitted'
               /\ By(Range(worker'[k].held)) \subseteq Signers(Message(worker[k].transfer))'
    <2>1. Message(worker'[k].transfer) \in Messages
      BY <1>1, ConstantTypes
    <2>2. Signers(Message(worker'[k].transfer)) \subseteq
             Signers(Message(worker[k].transfer))'
      BY <2>1, HandlersAdvance DEF Provenance, Signers
    <2> QED
      BY <1>1, <2>2, EmittedGrows
  <1>2. ASSUME Working(k) PROVE Backed(worker[k])
    BY <1>2, WorkerTypes DEF Provenance, WorkerInv
  <1>3. ASSUME Working(k), worker'[k].transfer = worker[k].transfer,
               worker'[k].held = worker[k].held
        PROVE  Backed(worker'[k])
    BY <1>2, <1>3
  <1>4. CASE worker'[k] = worker[k]
    BY <1>1, <1>3, <1>4 DEF Working
  <1>5. ASSUME NEW n \in Nodes, NEW j \in JobIds, Take(n, j), worker'[k] # worker[k]
        PROVE  Backed(worker'[k])
    <2>1. worker'[k] = [step |-> "lrange", transfer |-> jobs[j].transfer,
                        held |-> <<>>, failed |-> FALSE]
      BY <1>5 DEF Take, TypeOK
    <2>2. Exists(j) /\ jobs[j].transfer \in Transfers
      BY <1>5, JobTypes DEF Take, Fetch, Waiting, Jobs
    <2>3. By(Range(<<>>)) = {}
      BY DEF By, Range
    <2>4. Log[jobs[j].transfer].tx \in emitted
      BY <2>2 DEF Provenance, JobInv
    <2> QED
      BY <2>1, <2>2, <2>3, <2>4
  <1>6. ASSUME NEW n \in Nodes, ReadList(n), worker'[k] # worker[k]
        PROVE  Backed(worker'[k])
    <2>1. k = n /\ Working(k)
      BY <1>6 DEF ReadList, At, TypeOK
    <2>2. worker[k] \in Runs
      BY <2>1, WorkerTypes
    <2>3. CASE worker'[k] = [worker[k] EXCEPT !.step = "del",
                                              !.held = Lrange(Message(worker[k].transfer))]
      <3>1. /\ worker'[k].transfer = worker[k].transfer
            /\ worker'[k].held = sigs[Message(worker[k].transfer)]
        BY <2>2, <2>3 DEF Runs, Lrange
      <3>2. Message(worker[k].transfer) \in Messages
        BY <2>1, WorkerTypes
      <3> QED
        BY <1>2, <2>1, <3>1, <3>2 DEF Provenance, ListInv
    <2>4. CASE \/ worker'[k] = [worker[k] EXCEPT !.step = "complete"]
               \/ worker'[k] = [worker[k] EXCEPT !.step = "complete", !.failed = TRUE]
      <3>1. worker'[k].transfer = worker[k].transfer /\ worker'[k].held = worker[k].held
        BY <2>2, <2>4 DEF Runs
      <3> QED
        BY <1>3, <2>1, <3>1
    <2> QED
      BY <1>6, <2>1, <2>3, <2>4 DEF ReadList, TypeOK
  <1>7. ASSUME NEW n \in Nodes,
               DeleteList(n) \/ Submit(n) \/ Mined(n) \/ WaitFails(n) \/ Evicted(n),
               worker'[k] # worker[k]
        PROVE  Backed(worker'[k])
    <2>1. k = n /\ Working(k)
      BY <1>7 DEF DeleteList, Submit, Mined, WaitFails, Evicted, Ends, At, TypeOK
    <2>2. worker[k] \in Runs
      BY <2>1, WorkerTypes
    <2>3. \/ \E step : worker'[k] = [worker[k] EXCEPT !.step = step]
          \/ \E f : worker'[k] = [worker[k] EXCEPT !.step = "complete", !.failed = f]
      BY <1>7, <2>1 DEF DeleteList, Submit, Mined, WaitFails, Evicted, Ends, TypeOK
    <2>4. worker'[k].transfer = worker[k].transfer /\ worker'[k].held = worker[k].held
      BY <2>2, <2>3 DEF Runs
    <2> QED
      BY <1>3, <2>1, <2>4
  <1>8. ASSUME NEW n \in Nodes, Finish(n) \/ Crash(n), worker'[k] # worker[k] PROVE FALSE
    <2>1. worker'[k] = Idle
      BY <1>8 DEF Finish, Crash, TypeOK
    <2> QED
      BY <2>1 DEF Working
  <1>9. \/ UNCHANGED worker
        \/ \E n \in Nodes : \/ \E j \in JobIds : Take(n, j)
                           \/ ReadList(n) \/ DeleteList(n) \/ Submit(n) \/ Mined(n)
                           \/ WaitFails(n) \/ Evicted(n) \/ Finish(n) \/ Crash(n)
    BY DEF Next, vars, Emit, Miss, Redeliver, HandlerStep, Push, Resend, Count, CountOutdated, CheckJob,
           AddJob, WorkerStep, MinedUnwatched, Restart, PutBackOrphan, PutBackSlow
  <1> HIDE DEF Backed
  <1> QED
    BY <1>1, <1>4, <1>5, <1>6, <1>7, <1>8, <1>9

LEMMA InFlightBacked ==
    ASSUME TypeOK, Provenance, NEW tx, InFlight(tx)
    PROVE  /\ Log[tx.transfer].tx \in emitted
           /\ By(Range(tx.held)) \subseteq Signers(Message(tx.transfer))
  <1>1. CASE tx \in unwatched
    BY <1>1 DEF Provenance, UnwatchedInv
  <1>2. ASSUME NEW n \in Nodes, At(n, "wait"), tx = SentBy(n)
        PROVE  /\ Log[tx.transfer].tx \in emitted
               /\ By(Range(tx.held)) \subseteq Signers(Message(tx.transfer))
    <2>1. Working(n) /\ tx.transfer = worker[n].transfer /\ tx.held = worker[n].held
      BY <1>2 DEF At, SentBy
    <2> QED
      BY <2>1 DEF Provenance, WorkerInv
  <1> QED
    BY <1>1, <1>2 DEF InFlight

LEMMA NextUnwatchedInv == TypeOK /\ Provenance /\ [Next]_vars => UnwatchedInv'
  <1> SUFFICES ASSUME TypeOK, Provenance, [Next]_vars, NEW tx \in unwatched'
               PROVE  /\ Log[tx.transfer].tx \in emitted'
                      /\ By(Range(tx.held)) \subseteq Signers(Message(tx.transfer))'
    BY DEF UnwatchedInv
  <1>1. InFlight(tx)
    <2>1. CASE \E n \in Nodes : WaitFails(n) \/ Crash(n)
      BY <2>1 DEF WaitFails, Crash, InFlight
    <2>2. CASE unwatched' \subseteq unwatched
      BY <2>2 DEF InFlight
    <2>3. unwatched' \subseteq unwatched \/ \E n \in Nodes : WaitFails(n) \/ Crash(n)
      BY DEF Next, vars, Emit, Miss, Redeliver, HandlerStep, Push, Resend, Count, CountOutdated, CheckJob,
             AddJob, WorkerStep, Take, ReadList, DeleteList, Submit, Mined, Evicted, Finish,
             MinedUnwatched, Restart, PutBackOrphan, PutBackSlow
    <2> QED
      BY <2>1, <2>2, <2>3
  <1>2. Message(tx.transfer) \in Messages
    BY <1>1, InFlightTypes
  <1>3. Signers(Message(tx.transfer)) \subseteq Signers(Message(tx.transfer))'
    BY <1>2, HandlersAdvance DEF Provenance, Signers
  <1> QED
    BY <1>1, <1>3, InFlightBacked, EmittedGrows

LEMMA NextLedgerInv == TypeOK /\ Provenance /\ [Next]_vars => LedgerInv'
  <1> SUFFICES ASSUME TypeOK, Provenance, [Next]_vars, NEW c \in Chains, NEW p \in ledger'[c]
               PROVE  /\ Log[p.transfer].tx \in emitted'
                      /\ By(p.signatures) \subseteq Signers(Message(p.transfer))'
    BY DEF LedgerInv
  <1>1. /\ p.transfer \in Transfers
        /\ Log[p.transfer].tx \in emitted
        /\ By(p.signatures) \subseteq Signers(Message(p.transfer))
    <2>1. CASE p \in ledger[c]
      <3>1. p \in Payments
        BY <2>1 DEF TypeOK, LedgerTypeOK
      <3> QED
        BY <2>1, <3>1 DEF Provenance, LedgerInv, Payments
    <2>2. CASE p \notin ledger[c]
      <3>1. PICK tx : InFlight(tx) /\ Pay(tx.transfer, tx.held)
        BY <2>2, LedgerSteps
      <3>2. Log[tx.transfer].to \in Chains /\ tx.transfer \in Transfers
        BY <3>1, InFlightTypes
      <3>3. p = [transfer |-> tx.transfer, signatures |-> Range(tx.held)]
        BY <2>2, <3>1, <3>2 DEF Pay, TypeOK, LedgerTypeOK
      <3>4. p.transfer = tx.transfer /\ p.signatures = Range(tx.held)
        BY <3>3
      <3> QED
        BY <3>1, <3>2, <3>4, InFlightBacked
    <2> QED
      BY <2>1, <2>2
  <1>2. Signers(Message(p.transfer)) \subseteq Signers(Message(p.transfer))'
    BY <1>1, ConstantTypes, HandlersAdvance DEF Provenance, Signers
  <1> QED
    BY <1>1, <1>2, EmittedGrows

LEMMA ProvenanceInvariant == Spec => []Provenance
  <1>1. TypeOK /\ Provenance /\ [Next]_vars => Provenance'
    <2> SUFFICES ASSUME TypeOK, Provenance, [Next]_vars PROVE Provenance'
      OBVIOUS
    <2>1. HandlerInv'
      BY HandlersAdvance DEF Provenance, HandlerInv
    <2> QED
      BY <2>1, NextListInv, NextJobInv, NextWorkerInv, NextUnwatchedInv, NextLedgerInv
         DEF Provenance
  <1> QED
    BY <1>1, InitProvenance, TypeCorrect, PTL DEF Spec

LEMMA PaymentsByQuorum == PaymentInv /\ Provenance => PaidByQuorum
  <1> SUFFICES ASSUME PaymentInv, Provenance, NEW c \in Chains, NEW p \in ledger[c]
               PROVE  /\ Log[p.transfer].to = c
                      /\ Log[p.transfer].tx \in emitted
                      /\ By(p.signatures) \subseteq Signers(Message(p.transfer))
                      /\ Cardinality(By(p.signatures)) >= Threshold[c]
    BY DEF PaidByQuorum, By
  <1>1. ScopedTo(p.signatures, c) /\ Cardinality(p.signatures) >= Threshold[c]
    BY DEF PaymentInv
  <1>2. Cardinality(By(p.signatures)) = Cardinality(p.signatures)
    BY <1>1, OneSignaturePerSigner
  <1> QED
    BY <1>1, <1>2 DEF PaymentInv, Provenance, LedgerInv

(* Every payment is for a transfer that was mined, at its destination, and *)
(* by a threshold of distinct nodes that handled a log of its message -    *)
(* also when a job was queued, stolen or processed with too few of them.   *)
THEOREM PaidOnlyByQuorum == Spec => []PaidByQuorum
  BY PaymentInvariant, ProvenanceInvariant, PaymentsByQuorum, PTL
=============================================================================
