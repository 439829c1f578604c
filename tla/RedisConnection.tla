-------------------------- MODULE RedisConnection --------------------------
(***************************************************************************)
(* One RedisClientService and its connection, as the event handlers of a   *)
(* node share it: every call of a handler issues an rpush, does not await  *)
(* it, and issues an llen once it knows the threshold.  BridgeRelay takes  *)
(* each command as one step that may fail or happen twice; this module is  *)
(* where that comes from, and shows what may be relied on.  The worker's   *)
(* client is another instance of the same code, with lrange and del, each  *)
(* of which is awaited: it has fewer interleavings than this one.          *)
(*                                                                         *)
(* The client (ioredis) keeps what is not answered yet in the order of     *)
(* issue: first what it wrote to the connection, then what it keeps until  *)
(* there is one.  What a lost connection did not answer is written again   *)
(* to the next.  No command outlives the delay of a reconnection on the    *)
(* way to the server.                                                      *)
(***************************************************************************)
EXTENDS Naturals, Sequences

CONSTANTS
    Calls,          \* calls of the handlers
    MaxRetries,     \* redis.maxRetries of the configuration
    MaxDrops        \* bound: connections that are lost

ASSUME RedisAssumption == MaxRetries \in Nat /\ MaxDrops \in Nat

VARIABLES
    link,           \* the connection of the client
    times,          \* attempts to reconnect since it was last ready
    pending,        \* commands that are not answered, in order of issue
    served,         \* how many of them the server dealt with on this connection
    refused,        \* commands the server answered with an error, the last time
    result,         \* command -> what its caller knows
    ran,            \* command -> how often the server carried it out
    drops           \* connections lost so far

vars == <<link, times, pending, served, refused, result, ran, drops>>

Rpush(c) == [op |-> "rpush", call |-> c]

Llen(c) == [op |-> "llen", call |-> c]

Ping == [op |-> "ping"]

Commands == [op : {"rpush", "llen"}, call : Calls] \cup {Ping}

Results == {"none", "pending", "answered", "rejected"}

TypeOK ==
    /\ link \in {"connecting", "ready", "ended"}
    /\ times \in 0 .. MaxRetries
    /\ pending \in Seq(Commands)
    /\ served \in 0 .. Len(pending)
    /\ refused \in SUBSET Commands
    /\ result \in [Commands -> Results]
    /\ ran \in [Commands -> Nat]
    /\ drops \in Nat

(* The constructor starts to connect; onModuleInit pings. *)
Init ==
    /\ link = "connecting"
    /\ times = 0
    /\ pending = <<Ping>>
    /\ served = 0
    /\ refused = {}
    /\ result = [x \in Commands |-> IF x = Ping THEN "pending" ELSE "none"]
    /\ ran = [x \in Commands |-> 0]
    /\ drops = 0

-----------------------------------------------------------------------------
(* The callers.                                                            *)

(* A client that gave up rejects at once; the service logs the error and   *)
(* returns undefined.                                                      *)
Issue(x) ==
    /\ result[x] = "none"
    /\ IF link = "ended"
       THEN /\ result' = [result EXCEPT ![x] = "rejected"]
            /\ UNCHANGED pending
       ELSE /\ result' = [result EXCEPT ![x] = "pending"]
            /\ pending' = Append(pending, x)
    /\ UNCHANGED <<link, times, served, refused, ran, drops>>

Settled(x) == result[x] \in {"answered", "rejected"}

(* The modules that listen to the chains are initialised after this one:   *)
(* start-up waits for the ping, answered or not.                           *)
Push(c) == Settled(Ping) /\ Issue(Rpush(c))

(* A variant: the count is asked on the client of the worker. *)
Count_OtherClient(c) ==
    /\ result[Rpush(c)] # "none" /\ result[Llen(c)] = "none"
    /\ result' = [result EXCEPT ![Llen(c)] = "answered"]
    /\ ran' = [ran EXCEPT ![Llen(c)] = @ + 1]
    /\ UNCHANGED <<link, times, pending, served, refused, drops>>

(* After the threshold arrived, whatever became of the rpush. *)
Count(c) == result[Rpush(c)] # "none" /\ Issue(Llen(c))

-----------------------------------------------------------------------------
(* The connection and the server.                                          *)

RejectAll ==
    /\ pending' = <<>>
    /\ result' = [x \in Commands |-> IF result[x] = "pending" THEN "rejected" ELSE result[x]]

(* Variants: the strategy has no limit; it allows one attempt more; every  *)
(* failed attempt rejects the commands that wait (maxRetriesPerRequest 0). *)
Retry_Forever(n) ==
    /\ link' = "connecting"
    /\ times' = IF n > MaxRetries THEN 0 ELSE n
    /\ UNCHANGED <<pending, result>>

Retry_OneMore(n) ==
    IF n > MaxRetries + 1 THEN link' = "ended" /\ RejectAll /\ UNCHANGED times
                          ELSE /\ link' = "connecting" /\ times' = n
                               /\ UNCHANGED <<pending, result>>

Retry_PerRequest(n) ==
    /\ IF n > MaxRetries THEN link' = "ended" /\ UNCHANGED times
                         ELSE link' = "connecting" /\ times' = n
    /\ RejectAll

(* retryStrategy for the n-th attempt: after the last one the client ends, *)
(* for good, and rejects what waits.  Until then commands wait, however    *)
(* long (maxRetriesPerRequest null).                                       *)
Retry(n) ==
    IF n > MaxRetries THEN link' = "ended" /\ RejectAll /\ UNCHANGED times
                      ELSE /\ link' = "connecting" /\ times' = n
                           /\ UNCHANGED <<pending, result>>

(* The attempt succeeds: everything that is not answered is written. *)
Connect ==
    /\ link = "connecting"
    /\ link' = "ready"
    /\ times' = 0
    /\ served' = 0
    /\ UNCHANGED <<pending, refused, result, ran, drops>>

AttemptFails ==
    /\ link = "connecting"
    /\ Retry(times + 1)
    /\ served' = 0
    /\ UNCHANGED <<refused, ran, drops>>

Drop ==
    /\ link = "ready"
    /\ drops < MaxDrops
    /\ drops' = drops + 1
    /\ Retry(1)
    /\ served' = 0
    /\ UNCHANGED <<refused, ran>>

(* A variant: what is not answered in time is sent again.                  *)
Execute_Repeats ==
    /\ link = "ready"
    /\ served < Len(pending)
    /\ served' \in {served, served + 1}
    /\ ran' = [ran EXCEPT ![pending[served + 1]] = @ + 1]
    /\ refused' = refused \ {pending[served + 1]}
    /\ UNCHANGED <<link, times, pending, result, drops>>

(* The server takes what it receives in order, and carries it out, *)
Execute ==
    /\ link = "ready"
    /\ served < Len(pending)
    /\ served' = served + 1
    /\ ran' = [ran EXCEPT ![pending[served + 1]] = @ + 1]
    /\ refused' = refused \ {pending[served + 1]}
    /\ UNCHANGED <<link, times, pending, result, drops>>

(* or refuses it (out of memory, read-only, still loading); the connection *)
(* lives on and the next command may succeed.                              *)
Refuse ==
    /\ link = "ready"
    /\ served < Len(pending)
    /\ served' = served + 1
    /\ refused' = refused \cup {pending[served + 1]}
    /\ UNCHANGED <<link, times, pending, result, ran, drops>>

(* Its answers arrive in order.  One that is an error rejects its command, *)
(* and no other: the service logs it and returns undefined.                *)
Answer ==
    /\ link = "ready"
    /\ served > 0
    /\ result' = [result EXCEPT ![Head(pending)] =
                     IF Head(pending) \in refused THEN "rejected" ELSE "answered"]
    /\ pending' = Tail(pending)
    /\ served' = served - 1
    /\ UNCHANGED <<link, times, refused, ran, drops>>

-----------------------------------------------------------------------------
Attempt == Connect \/ AttemptFails

Serve == Execute \/ Refuse

Next ==
    \/ \E c \in Calls : Push(c) \/ Count(c)
    \/ Attempt
    \/ Drop
    \/ Serve
    \/ Answer

Spec == Init /\ [][Next]_vars

(* The delay before an attempt ends, an attempt succeeds or fails, and a   *)
(* connected server executes and answers.  That it is ever reached is not  *)
(* assumed.                                                                *)
FairSpec ==
    /\ Spec
    /\ WF_vars(Attempt)
    /\ WF_vars(Serve)
    /\ WF_vars(Answer)

-----------------------------------------------------------------------------
(* A list is counted without the caller's own signature only if the server *)
(* refused the signature, never because the two commands, issued without   *)
(* awaiting the first, waited for a connection, were written twice or were *)
(* cut off between the two.  Without refusals the last handler to count    *)
(* sees all signatures, which is why somebody queues the job.              *)
CountSeesOwnPush ==
    \A c \in Calls : ran[Llen(c)] > 0 => ran[Rpush(c)] > 0 \/ Rpush(c) \in refused

(* A signature can be pushed a second time, after a worker has read and    *)
(* deleted the list, only as long as its handler has no count: never once  *)
(* the handler went on to compare, queue or end.                           *)
PushesSettled ==
    [][\A c \in Calls :
         Settled(Llen(c)) => ran'[Rpush(c)] = ran[Rpush(c)]]_vars

CountOf(c) == CASE result[Llen(c)] = "answered" -> "answered"
                [] result[Llen(c)] = "rejected" -> "failed"
                [] OTHER                        -> "open"

(* Together, and with a bound on the repetitions - one for each connection *)
(* that is lost, however the attempts to reconnect overlap with what the   *)
(* handlers issue meanwhile - this is what BridgeRelay assumes of Redis.   *)
Promise ==
    INSTANCE ListCommands
    WITH pushes <- [c \in Calls |-> ran[Rpush(c)]],
         counts <- [c \in Calls |-> CountOf(c)],
         refused <- {c \in Calls : Rpush(c) \in refused},
         losses <- drops

ImplementsListCommands == Promise!Spec

(* Nobody waits for Redis for ever, even if it never comes back: neither a *)
(* handler or the worker, nor the start-up of the node.                    *)
EveryCommandEnds ==
    \A x \in Commands : result[x] = "pending" ~> Settled(x)
=============================================================================
