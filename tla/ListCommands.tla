---------------------------- MODULE ListCommands ----------------------------
(***************************************************************************)
(* What a handler may rely on when it pushes on a list and counts it, both *)
(* on one client, without connection, queue and retries: the view that     *)
(* BridgeRelay has of Redis.  Push is there its Push and Resend, Count its *)
(* Count; a push that is refused or never happens, and a count that fails, *)
(* are its fault redis.                                                    *)
(***************************************************************************)
EXTENDS Naturals

CONSTANT Calls      \* calls of the handlers

VARIABLES
    pushes,         \* call -> how often its signature was pushed
    counts,         \* call -> what became of its count
    refused,        \* calls whose push Redis refused, the last time
    losses          \* connections lost so far

Init ==
    /\ pushes = [c \in Calls |-> 0]
    /\ counts = [c \in Calls |-> "open"]
    /\ refused = {}
    /\ losses = 0

Open(c) == counts[c] = "open"

(* The signature is pushed once, and at most once more for every lost      *)
(* connection, but only until its handler has a count.                     *)
Push(c) ==
    /\ Open(c)
    /\ pushes[c] <= losses
    /\ pushes' = [pushes EXCEPT ![c] = @ + 1]
    /\ refused' = refused \ {c}
    /\ UNCHANGED <<counts, losses>>

(* Redis may also refuse it, and nobody looks at that answer. *)
Refuse(c) ==
    /\ Open(c)
    /\ refused' = refused \cup {c}
    /\ UNCHANGED <<pushes, counts, losses>>

(* A count that arrives includes the push of its handler, or the push was  *)
(* refused: it is never merely late.                                       *)
Count(c) ==
    /\ Open(c)
    /\ pushes[c] > 0 \/ c \in refused
    /\ counts' = [counts EXCEPT ![c] = "answered"]
    /\ UNCHANGED <<pushes, refused, losses>>

Failing(failed) ==
    /\ \A c \in failed : Open(c)
    /\ counts' = [c \in Calls |-> IF c \in failed THEN "failed" ELSE counts[c]]

(* Counts fail, whether their pushes succeeded or not. *)
Fail ==
    /\ \E failed \in SUBSET Calls : Failing(failed)
    /\ UNCHANGED <<pushes, refused, losses>>

(* A lost connection, perhaps the last one. *)
Lose ==
    /\ losses' = losses + 1
    /\ \E failed \in SUBSET Calls : Failing(failed)
    /\ UNCHANGED <<pushes, refused>>

Next ==
    \/ \E c \in Calls : Push(c) \/ Refuse(c) \/ Count(c)
    \/ Fail
    \/ Lose

Spec == Init /\ [][Next]_<<pushes, counts, refused, losses>>
=============================================================================
