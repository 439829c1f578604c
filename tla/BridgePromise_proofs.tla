------------------------ MODULE BridgePromise_proofs ------------------------
(***************************************************************************)
(* The proof that BridgeRelay implements BridgeTransfer: its pushes are    *)
(* approvals, its payments settlements, and no other step can be seen.     *)
(***************************************************************************)
EXTENDS BridgeRelay_proofs

(* What the promise sees of a state, beside emitted. *)
Approved == [m \in Messages |-> Signers(m)]

PaymentsOf(e) == {p \in ledger[Log[e].to] : p.transfer = e}

Settled == [e \in Transfers |-> Cardinality(PaymentsOf(e))]

(* The same step, in the promise's own words. *)
Stutters == UNCHANGED <<emitted, Approved, Settled>>

LEMMA InitImplements == Init => Promise!Init
  <1> SUFFICES ASSUME Init PROVE Promise!Init
    OBVIOUS
  <1>1. \A m \in Messages : Signers(m) = {}
    BY DEF Init, Signers, Pushed, InProgress
  <1>2. \A e \in Transfers : {p \in ledger[Log[e].to] : p.transfer = e} = {}
    BY ConstantTypes DEF Init, ContractInit
  <1>3. Cardinality({}) = 0
    BY FS_EmptySet
  <1> QED
    BY <1>1, <1>2, <1>3 DEF Init, Promise!Init

(* Who has signed depends only on which handlers have pushed. *)
LEMMA SameSigners ==
    ASSUME \A c \in Calls : handler'[c] \in Pushed <=> handler[c] \in Pushed
    PROVE  Approved' = Approved
  BY DEF Approved, Signers

LEMMA SamePayments == UNCHANGED ledger => Settled' = Settled
  BY DEF Settled, PaymentsOf

(* A transaction is mined at its origin: none of its handlers ran before.  *)
LEMMA EmitImplements ==
    ASSUME HandlerInv, NEW t \in Txs, Emit(t)
    PROVE  Promise!Lock(t)
  <1>1. \A c \in Calls : handler'[c] \in Pushed <=> handler[c] \in Pushed
    BY DEF Emit, HandlerInv, Pushed, InProgress
  <1>2. Approved' = Approved /\ Settled' = Settled
    BY <1>1, SameSigners, SamePayments DEF Emit
  <1> QED
    BY <1>2 DEF Emit, Promise!Lock, Approved, Settled, PaymentsOf

LEMMA PushImplements ==
    ASSUME TypeOK, HandlerInv, NEW c \in Calls, Push(c)
    PROVE  Promise!Approve(c.node, Message(c.transfer))
  <1> DEFINE m == Message(c.transfer)
  <1>1. /\ c.node \in Nodes /\ c.transfer \in Transfers /\ m \in Messages
        /\ Log[c.transfer].tx \in emitted
    BY CallTypes, ConstantTypes DEF Push, HandlerInv
  <1>2. /\ handler'[c] \in Pushed
        /\ \A d \in Calls : d # c => handler'[d] = handler[d]
    BY DEF Push, MoveTo, TypeOK, Pushed, InProgress
  <1>3. handler[c] \notin Pushed
    BY DEF Push, Pushed, InProgress
  <1>4. ASSUME NEW k \in Messages
        PROVE  Signers(k)' = IF k = m THEN Signers(m) \cup {c.node} ELSE Signers(k)
    BY <1>1, <1>2, <1>3 DEF Signers
  <1>5. Approved' = [Approved EXCEPT ![m] = @ \cup {c.node}]
    BY <1>1, <1>4 DEF Approved
  <1>6. Settled' = Settled /\ emitted' = emitted
    BY SamePayments DEF Push
  <1> QED
    BY <1>1, <1>5, <1>6 DEF Promise!Approve, Promise!Message, Message, Approved, Settled, PaymentsOf

(* A contract pays: for the first time, since it never does so twice. *)
LEMMA PayImplements ==
    ASSUME TypeOK, Provenance, PaidOnce', UNCHANGED <<emitted, handler>>,
           ~ UNCHANGED ledger,
           NEW tx, InFlight(tx), AcceptsNow(tx), Pay(tx.transfer, tx.held)
    PROVE  Promise!Settle(tx.transfer)
  <1> DEFINE e == tx.transfer
             c == Log[e].to
             new == [transfer |-> e, signatures |-> Range(tx.held)]
  <1>1. e \in Transfers /\ c \in Chains /\ tx.held \in Seq(Signatures)
    BY InFlightTypes
  <1>2. /\ ledger'[c] = ledger[c] \cup {new}
        /\ \A d \in Chains : d # c => ledger'[d] = ledger[d]
    BY <1>1 DEF Pay, TypeOK, LedgerTypeOK
  <1>3. new \notin ledger[c]
    <2> SUFFICES ASSUME new \in ledger[c] PROVE FALSE
      OBVIOUS
    <2>1. [ledger EXCEPT ![c] = @ \cup {new}] = ledger
      BY <1>1 DEF TypeOK, LedgerTypeOK
    <2> QED
      BY <2>1 DEF Pay
  <1>4. new.transfer = e
    OBVIOUS
  <1> HIDE DEF new
  <1>5. PaymentsOf(e) = {} /\ PaymentsOf(e)' = {new}
    BY <1>1, <1>2, <1>3, <1>4 DEF PaidOnce, PaymentsOf
  <1>6. \A f \in Transfers : f # e => PaymentsOf(f)' = PaymentsOf(f)
    <2> SUFFICES ASSUME NEW f \in Transfers, f # e PROVE PaymentsOf(f)' = PaymentsOf(f)
      OBVIOUS
    <2>1. Log[f].to \in Chains
      BY ConstantTypes
    <2>2. CASE Log[f].to # c
      BY <1>2, <2>1, <2>2 DEF PaymentsOf
    <2>3. CASE Log[f].to = c
      BY <1>2, <1>4, <2>3 DEF PaymentsOf
    <2> QED
      BY <2>2, <2>3
  <1>7. /\ Settled[e] = 0
        /\ Settled' = [Settled EXCEPT ![e] = @ + 1]
    <2>1. Cardinality({}) = 0 /\ Cardinality({new}) = 0 + 1
      BY FS_EmptySet, FS_Singleton
    <2>2. Settled[e] = 0 /\ Settled'[e] = Settled[e] + 1
      BY <1>1, <1>5, <2>1 DEF Settled
    <2>3. \A f \in Transfers : f # e => Settled'[f] = Settled[f]
      BY <1>6 DEF Settled
    <2>4. DOMAIN Settled = Transfers /\ DOMAIN Settled' = Transfers
      BY DEF Settled
    <2>5. /\ Settled = [f \in Transfers |-> Settled[f]]
          /\ Settled' = [f \in Transfers |-> Settled'[f]]
      BY DEF Settled
    <2> HIDE DEF e
    <2> QED
      BY <1>1, <2>2, <2>3, <2>5
  <1>8. Cardinality(Signers(Message(e))) >= Threshold[c]
    <2>1. /\ ScopedTo(Range(tx.held), c)
          /\ Cardinality(Range(tx.held)) >= Threshold[c]
      BY <1>1, SeqRange DEF AcceptsNow, Accepts, ScopedTo
    <2>2. /\ IsFiniteSet(By(Range(tx.held)))
          /\ Cardinality(By(Range(tx.held))) = Cardinality(Range(tx.held))
      BY <2>1, OneSignaturePerSigner
    <2>3. By(Range(tx.held)) \subseteq Signers(Message(e))
      BY InFlightBacked
    <2>4. IsFiniteSet(Signers(Message(e)))
      BY FS_Subset, TransfersAssumption DEF Signers
    <2>5. /\ Cardinality(By(Range(tx.held))) <= Cardinality(Signers(Message(e)))
          /\ Cardinality(By(Range(tx.held))) \in Nat
          /\ Cardinality(Signers(Message(e))) \in Nat
      BY <2>2, <2>3, <2>4, FS_Subset, FS_CardinalityType
    <2> QED
      BY <1>1, <2>1, <2>2, <2>5, ConstantTypes
  <1>9. Log[e].tx \in emitted
    BY InFlightBacked
  <1>10. Approved' = Approved
    BY DEF Approved, Signers
  <1>11. Approved[Message(e)] = Signers(Message(e))
    BY <1>1, ConstantTypes DEF Approved
  <1>12. Promise!Cardinality(Signers(Message(e))) = Cardinality(Signers(Message(e)))
    BY DEF Promise!Cardinality, Cardinality
  <1>13. Promise!Message(e) = Message(e)
    BY DEF Promise!Message, Message
  <1>14. Promise!Cardinality(Approved[Promise!Message(e)]) >= Threshold[c]
    BY <1>8, <1>11, <1>12, <1>13
  <1> QED
    BY <1>7, <1>9, <1>10, <1>14 DEF Promise!Settle, Approved, Settled, PaymentsOf

(* The steps that the promise does not see. *)
LEMMA OthersStutter ==
    ASSUME TypeOK, [Next]_vars, UNCHANGED ledger,
           \A t \in Txs : ~ Emit(t), \A c \in Calls : ~ Push(c)
    PROVE  Stutters
  <1> USE DEF Pushed, InProgress
  <1>1. emitted' = emitted
    BY DEF Next, vars, Miss, Redeliver, HandlerStep, Resend, Count, CountOutdated, CheckJob,
           AddJob, WorkerStep, Take, ReadList, DeleteList, Submit, Mined, WaitFails, Evicted,
           Finish, MinedUnwatched, Crash, Restart, PutBackOrphan, PutBackSlow
  <1>2. ASSUME NEW c \in Calls PROVE handler'[c] \in Pushed <=> handler[c] \in Pushed
    <2>1. ASSUME NEW d \in Calls, Miss(d) \/ Redeliver(d)
          PROVE  handler'[c] \in Pushed <=> handler[c] \in Pushed
      BY <2>1 DEF Miss, Redeliver
    <2>2. ASSUME NEW d \in Calls, Count(d) \/ CountOutdated(d) \/ CheckJob(d) \/ AddJob(d)
          PROVE  handler'[c] \in Pushed <=> handler[c] \in Pushed
      <3>1. handler[d] \in Pushed /\ \E step \in Pushed : MoveTo(d, step)
        BY <2>2 DEF Count, CountOutdated, CheckJob, AddJob
      <3> QED
        BY <3>1 DEF MoveTo, TypeOK
    <2>3. ASSUME NEW n \in Nodes, Crash(n)
          PROVE  handler'[c] \in Pushed <=> handler[c] \in Pushed
      <3>1. handler'[c] = handler[c] \/ handler'[c] = AfterCrash(handler[c])
        BY <2>3 DEF Crash
      <3>2. AfterCrash(handler[c]) \in Pushed <=> handler[c] \in Pushed
        BY DEF AfterCrash
      <3> QED
        BY <3>1, <3>2
    <2>4. CASE UNCHANGED handler
      BY <2>4
    <2> QED
      BY <2>1, <2>2, <2>3, <2>4
         DEF Next, vars, HandlerStep, Resend, WorkerStep, Take, ReadList, DeleteList, Submit,
             Mined, WaitFails, Evicted, Finish, MinedUnwatched, Restart, PutBackOrphan,
             PutBackSlow
  <1> QED
    BY <1>1, <1>2, SameSigners, SamePayments DEF Stutters

LEMMA StepImplements ==
    ASSUME TypeOK, Provenance, PaidOnce', [Next]_vars
    PROVE  Promise!Next \/ Stutters
  <1>1. CASE ~ UNCHANGED ledger
    <2>1. PICK tx : InFlight(tx) /\ AcceptsNow(tx) /\ Pay(tx.transfer, tx.held)
      BY <1>1, LedgerSteps
    <2>2. UNCHANGED <<emitted, handler>>
      BY <1>1 DEF Next, vars, Emit, Miss, Redeliver, HandlerStep, Push, Resend, Count,
                  CountOutdated, CheckJob, AddJob, WorkerStep, Take, ReadList, DeleteList,
                  Submit, Mined, WaitFails, Evicted, Finish, MinedUnwatched, Crash, Restart,
                  PutBackOrphan, PutBackSlow
    <2>3. Promise!Settle(tx.transfer) /\ tx.transfer \in Transfers
      BY <1>1, <2>1, <2>2, PayImplements, InFlightTypes
    <2> QED
      BY <2>3 DEF Promise!Next
  <1>2. ASSUME NEW t \in Txs, Emit(t) PROVE Promise!Next
    BY <1>2, EmitImplements DEF Promise!Next, Provenance
  <1>3. ASSUME NEW c \in Calls, Push(c) PROVE Promise!Next
    <2>1. c.node \in Nodes /\ Message(c.transfer) \in Messages
      BY CallTypes, ConstantTypes
    <2> QED
      BY <1>3, <2>1, PushImplements DEF Promise!Next, Provenance
  <1> QED
    BY <1>1, <1>2, <1>3, OthersStutter

(* The nodes, lists, queue, workers and contracts together keep what the   *)
(* bridge promises: only a mined transaction is approved, and a transfer   *)
(* is settled once, by a threshold of approvals - whatever faults happen.  *)
THEOREM RelayImplementsPromise == QuorumsIntersect => (Spec => ImplementsPromise)
  <1> SUFFICES ASSUME QuorumsIntersect PROVE Spec => ImplementsPromise
    OBVIOUS
  <1>1. TypeOK /\ Provenance /\ PaidOnce' /\ [Next]_vars
        => Promise!Next \/ Stutters
    BY StepImplements
  <1>2. Stutters => UNCHANGED <<emitted, [m \in Messages |-> Signers(m)],
                               [e \in Transfers |-> Cardinality({p \in ledger[Log[e].to] : p.transfer = e})]>>
    BY DEF Stutters, Approved, Settled, PaymentsOf
  <1>3. Spec => []PaidOnce
    BY PaidAtMostOnce
  <1> QED
    BY <1>1, <1>2, <1>3, InitImplements, TypeCorrect, ProvenanceInvariant, PTL
       DEF Spec, ImplementsPromise, Promise!Spec
=============================================================================
