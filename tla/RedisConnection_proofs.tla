---------------------- MODULE RedisConnection_proofs ----------------------
(***************************************************************************)
(* Proofs about RedisConnection, for any number of calls, of attempts to   *)
(* reconnect and of lost connections.                                      *)
(***************************************************************************)
EXTENDS RedisConnection, SequenceTheorems, TLAPS

Positions == 1 .. Len(pending)

(* The server carried it out at some time, or refused it the last time. *)
Dealt(x) == ran[x] > 0 \/ x \in refused

(* What was served on this connection was dealt with. *)
ServedDealt == \A i \in 1 .. served : Dealt(pending[i])

(* An llen waits behind the rpush of its call, unless that was dealt with. *)
PushAhead ==
    \A i \in Positions : \A c \in Calls :
        pending[i] = Llen(c) =>
            Dealt(Rpush(c)) \/ \E j \in 1 .. i - 1 : pending[j] = Rpush(c)

NoPushBehind ==
    \A i, j \in Positions : \A c \in Calls :
        i < j /\ pending[i] = Llen(c) => pending[j] # Rpush(c)

(* What the callers know agrees with what waits, and nothing waits twice.  *)
ResultsAgree ==
    /\ \A i \in Positions : result[pending[i]] = "pending"
    /\ \A i, j \in Positions : pending[i] = pending[j] => i = j
    /\ \A x \in Commands : result[x] = "pending" => \E i \in Positions : pending[i] = x
    /\ \A x \in Commands : result[x] = "answered" => ran[x] > 0
    /\ \A x \in Commands : result[x] = "rejected" => link = "ended" \/ x \in refused
    /\ link = "ended" => pending = <<>>

CallOrder ==
    \A c \in Calls : result[Rpush(c)] = "none" => result[Llen(c)] = "none"

NoPushAfterCount ==
    \A c \in Calls : Settled(Llen(c)) => \A i \in Positions : pending[i] # Rpush(c)

IInv ==
    /\ TypeOK /\ ServedDealt /\ PushAhead /\ NoPushBehind
    /\ ResultsAgree /\ CallOrder /\ NoPushAfterCount /\ CountSeesOwnPush

LEMMA CommandTypes ==
    /\ Ping \in Commands
    /\ \A c \in Calls : Rpush(c) \in Commands /\ Llen(c) \in Commands
    /\ \A c, d \in Calls : Rpush(c) # Llen(d)
    /\ \A c, d \in Calls : Rpush(c) = Rpush(d) => c = d
    /\ \A c, d \in Calls : Llen(c) = Llen(d) => c = d
    /\ \A c \in Calls : Rpush(c) # Ping /\ Llen(c) # Ping
  BY DEF Commands, Rpush, Llen, Ping

LEMMA InitInv == Init => IInv
  <1> SUFFICES ASSUME Init PROVE IInv
    OBVIOUS
  <1>1. /\ pending = <<Ping>> /\ Len(pending) = 1 /\ pending[1] = Ping
        /\ pending \in Seq(Commands)
        /\ link = "connecting"
    BY CommandTypes DEF Init
  <1>2. Positions = {1}
    BY <1>1 DEF Positions
  <1>3. /\ result \in [Commands -> Results]
        /\ result[Ping] = "pending"
        /\ \A x \in Commands : x # Ping => result[x] = "none"
    BY CommandTypes DEF Init, Results
  <1>4. TypeOK
    BY <1>1, <1>3, RedisAssumption DEF Init, TypeOK
  <1>5. ResultsAgree
    BY <1>1, <1>2, <1>3 DEF ResultsAgree
  <1>6. ServedDealt /\ PushAhead /\ NoPushBehind
    BY <1>1, <1>2, CommandTypes DEF Init, ServedDealt, PushAhead, NoPushBehind
  <1>7. CallOrder /\ NoPushAfterCount /\ CountSeesOwnPush
    BY <1>3, CommandTypes DEF Init, CallOrder, NoPushAfterCount, CountSeesOwnPush, Settled
  <1> QED
    BY <1>4, <1>5, <1>6, <1>7 DEF IInv

-----------------------------------------------------------------------------
(* The sequence after an issue and after an answer. *)
LEMMA Appended ==
    ASSUME pending \in Seq(Commands), NEW x \in Commands, pending' = Append(pending, x)
    PROVE  /\ pending' \in Seq(Commands)
           /\ Len(pending') = Len(pending) + 1
           /\ \A i \in Positions : pending'[i] = pending[i]
           /\ pending'[Len(pending) + 1] = x
  BY DEF Positions

LEMMA Answered ==
    ASSUME pending \in Seq(Commands), Len(pending) > 0, pending' = Tail(pending)
    PROVE  /\ pending' \in Seq(Commands)
           /\ Len(pending') = Len(pending) - 1
           /\ \A i \in 1 .. Len(pending') : pending'[i] = pending[i + 1]
           /\ Head(pending) = pending[1]
  BY DEF Positions

(* A command is issued for the first time, and only after the rpush if it  *)
(* is an llen.                                                             *)
LEMMA RejectedInv ==
    ASSUME IInv, NEW x \in Commands, Issue(x), link = "ended",
           \A c \in Calls : x = Llen(c) => result[Rpush(c)] # "none"
    PROVE  IInv'
  <1>1. /\ UNCHANGED <<link, times, pending, served, refused, ran, drops>>
        /\ result' = [result EXCEPT ![x] = "rejected"]
    BY DEF Issue
  <1>2. TypeOK'
    BY <1>1 DEF IInv, TypeOK, Results
  <1>3. \A y \in Commands : result'[y] = IF y = x THEN "rejected" ELSE result[y]
    BY <1>1 DEF IInv, TypeOK
  <1>4. pending = <<>> /\ Positions = {} /\ Positions' = {}
    BY <1>1 DEF IInv, ResultsAgree, Positions
  <1>5. ResultsAgree'
    BY <1>1, <1>3, <1>4 DEF IInv, ResultsAgree
  <1>6. CallOrder'
    BY <1>3, CommandTypes DEF IInv, CallOrder
  <1>7. PushAhead' /\ NoPushBehind' /\ NoPushAfterCount'
    BY <1>4 DEF PushAhead, NoPushBehind, NoPushAfterCount
  <1>8. ServedDealt' /\ CountSeesOwnPush'
    BY <1>1 DEF IInv, ServedDealt, Dealt, CountSeesOwnPush
  <1> QED
    BY <1>2, <1>5, <1>6, <1>7, <1>8 DEF IInv

LEMMA WaitingInv ==
    ASSUME IInv, NEW x \in Commands, Issue(x), link # "ended",
           \A c \in Calls : x = Llen(c) => result[Rpush(c)] # "none"
    PROVE  IInv'
  <1>1. /\ UNCHANGED <<link, times, served, refused, ran, drops>>
        /\ result' = [result EXCEPT ![x] = "pending"]
        /\ pending' = Append(pending, x)
        /\ result[x] = "none"
    BY DEF Issue
  <1>2. pending \in Seq(Commands) /\ Len(pending) \in Nat
    BY DEF IInv, TypeOK
  <1>3. /\ pending' \in Seq(Commands)
        /\ Len(pending') = Len(pending) + 1
        /\ \A i \in Positions : pending'[i] = pending[i]
        /\ pending'[Len(pending) + 1] = x
    BY <1>1, <1>2, Appended
  <1>4. Positions' = Positions \cup {Len(pending) + 1} /\ Len(pending) + 1 \notin Positions
    BY <1>2, <1>3 DEF Positions
  <1>5. TypeOK'
    BY <1>1, <1>2, <1>3 DEF IInv, TypeOK, Results
  <1>6. \A y \in Commands : result'[y] = IF y = x THEN "pending" ELSE result[y]
    BY <1>1 DEF IInv, TypeOK
  <1>7. \A i \in Positions : pending[i] \in Commands /\ pending[i] # x
    BY <1>1, <1>2 DEF IInv, ResultsAgree, Positions
  <1>8. ResultsAgree'
    <2>1. \A i \in Positions' : result'[pending'[i]] = "pending"
      BY <1>3, <1>4, <1>6, <1>7 DEF IInv, ResultsAgree
    <2>2. \A i, j \in Positions' : pending'[i] = pending'[j] => i = j
      BY <1>3, <1>4, <1>7 DEF IInv, ResultsAgree
    <2>3. \A y \in Commands : result'[y] = "pending" => \E i \in Positions' : pending'[i] = y
      BY <1>3, <1>4, <1>6 DEF IInv, ResultsAgree
    <2>4. /\ \A y \in Commands : result'[y] = "answered" => ran'[y] > 0
          /\ \A y \in Commands : result'[y] = "rejected" => link' = "ended" \/ y \in refused'
          /\ link' = "ended" => pending' = <<>>
      BY <1>1, <1>6 DEF IInv, ResultsAgree
    <2> QED
      BY <2>1, <2>2, <2>3, <2>4 DEF ResultsAgree
  <1>9. CallOrder'
    BY <1>6, CommandTypes DEF IInv, CallOrder
  <1>10. ServedDealt'
    <2>1. \A i \in 1 .. served : i \in Positions
      BY <1>2 DEF IInv, TypeOK, Positions
    <2> QED
      BY <1>1, <1>3, <2>1 DEF IInv, ServedDealt, Dealt
  <1>11. PushAhead'
    <2> SUFFICES ASSUME NEW i \in Positions', NEW c \in Calls, pending'[i] = Llen(c),
                        ~ Dealt(Rpush(c))
                 PROVE  \E j \in 1 .. i - 1 : pending'[j] = Rpush(c)
      BY <1>1 DEF PushAhead, Dealt
    <2>1. CASE i \in Positions
      <3>1. PICK j \in 1 .. i - 1 : pending[j] = Rpush(c)
        BY <1>3, <2>1 DEF IInv, PushAhead
      <3>2. j \in Positions
        BY <1>2, <2>1 DEF Positions
      <3> QED
        BY <1>3, <3>1, <3>2
    <2>2. CASE i = Len(pending) + 1
      <3>1. result[Rpush(c)] = "pending"
        <4>1. x = Llen(c) /\ result[Rpush(c)] \in Results
          BY <1>3, <2>2, CommandTypes DEF IInv, TypeOK
        <4>2. result[Rpush(c)] # "none" /\ result[Rpush(c)] # "answered"
          BY <4>1, CommandTypes DEF IInv, ResultsAgree, Dealt
        <4>3. result[Rpush(c)] # "rejected"
          BY CommandTypes DEF IInv, ResultsAgree, Dealt
        <4> QED
          BY <4>1, <4>2, <4>3 DEF Results
      <3>2. PICK j \in Positions : pending[j] = Rpush(c)
        BY <3>1, CommandTypes DEF IInv, ResultsAgree
      <3>3. j \in 1 .. i - 1
        BY <1>2, <2>2 DEF Positions
      <3> QED
        BY <1>3, <3>2, <3>3
    <2> QED
      BY <1>4, <2>1, <2>2
  <1>12. NoPushBehind'
    <2> SUFFICES ASSUME NEW i \in Positions', NEW j \in Positions', NEW c \in Calls,
                        i < j, pending'[i] = Llen(c), pending'[j] = Rpush(c)
                 PROVE  FALSE
      BY DEF NoPushBehind
    <2>1. i \in Positions
      BY <1>2, <1>4 DEF Positions
    <2>2. j \notin Positions
      BY <1>3, <2>1 DEF IInv, NoPushBehind
    <2>3. x = Rpush(c) /\ pending[i] = Llen(c)
      BY <1>3, <1>4, <2>1, <2>2
    <2>4. result[Llen(c)] = "none" /\ result[Llen(c)] = "pending"
      BY <1>1, <2>1, <2>3 DEF IInv, CallOrder, ResultsAgree
    <2> QED
      BY <2>4
  <1>13. NoPushAfterCount'
    <2> SUFFICES ASSUME NEW c \in Calls, Settled(Llen(c))', NEW i \in Positions',
                        pending'[i] = Rpush(c)
                 PROVE  FALSE
      BY DEF NoPushAfterCount
    <2>1. Settled(Llen(c)) /\ result[Llen(c)] # "none"
      BY <1>6, CommandTypes DEF Settled
    <2>2. i \notin Positions
      BY <1>3, <2>1 DEF IInv, NoPushAfterCount
    <2>3. x = Rpush(c)
      BY <1>3, <1>4, <2>2
    <2> QED
      BY <1>1, <2>1, <2>3 DEF IInv, CallOrder
  <1>14. CountSeesOwnPush'
    BY <1>1 DEF IInv, CountSeesOwnPush
  <1> QED
    BY <1>5, <1>8, <1>9, <1>10, <1>11, <1>12, <1>13, <1>14 DEF IInv

(* Another attempt, or the end: what waits stays in its order, or is       *)
(* rejected as a whole.                                                    *)
LEMMA RetryInv ==
    ASSUME IInv, NEW n \in 1 .. MaxRetries + 1, Retry(n), served' = 0,
           UNCHANGED <<refused, ran>>,
           drops' \in Nat, link # "ended"
    PROVE  IInv'
  <1>1. CASE n > MaxRetries
    <2>1. link' = "ended" /\ times' = times /\ pending' = <<>>
      BY <1>1 DEF Retry, RejectAll
    <2>2. \A y \in Commands :
             result'[y] = IF result[y] = "pending" THEN "rejected" ELSE result[y]
      BY <1>1 DEF Retry, RejectAll
    <2>3. result' \in [Commands -> Results]
      BY <1>1 DEF Retry, RejectAll, IInv, TypeOK, Results
    <2>4. Len(pending') = 0 /\ pending' \in Seq(Commands) /\ Positions' = {}
      BY <2>1 DEF Positions
    <2>5. TypeOK'
      BY <2>1, <2>3, <2>4 DEF IInv, TypeOK
    <2>6. ResultsAgree'
      BY <2>1, <2>2, <2>4 DEF IInv, ResultsAgree
    <2>7. CallOrder'
      BY <2>2, CommandTypes DEF IInv, CallOrder
    <2>8. PushAhead' /\ NoPushBehind' /\ NoPushAfterCount'
      BY <2>4 DEF PushAhead, NoPushBehind, NoPushAfterCount
    <2>9. ServedDealt' /\ CountSeesOwnPush'
      BY DEF IInv, ServedDealt, Dealt, CountSeesOwnPush
    <2> QED
      BY <2>5, <2>6, <2>7, <2>8, <2>9 DEF IInv
  <1>2. CASE ~ (n > MaxRetries)
    <2>1. link' = "connecting" /\ times' = n /\ UNCHANGED <<pending, result>>
      BY <1>2 DEF Retry
    <2>2. Positions' = Positions
      BY <2>1 DEF Positions
    <2>3. TypeOK'
      BY <1>2, <2>1, RedisAssumption DEF IInv, TypeOK
    <2>4. ResultsAgree'
      BY <2>1, <2>2 DEF IInv, ResultsAgree
    <2>5. PushAhead' /\ NoPushBehind' /\ NoPushAfterCount'
      BY <2>1, <2>2 DEF IInv, PushAhead, NoPushBehind, NoPushAfterCount, Settled, Dealt
    <2>6. ServedDealt' /\ CountSeesOwnPush' /\ CallOrder'
      BY <2>1 DEF IInv, ServedDealt, Dealt, CountSeesOwnPush, CallOrder
    <2> QED
      BY <2>3, <2>4, <2>5, <2>6 DEF IInv
  <1> QED
    BY <1>1, <1>2

LEMMA ConnectInv == IInv /\ Connect => IInv'
  <1> SUFFICES ASSUME IInv, Connect PROVE IInv'
    OBVIOUS
  <1>1. /\ link' = "ready" /\ times' = 0 /\ served' = 0
        /\ UNCHANGED <<pending, refused, result, ran, drops>>
        /\ link # "ended"
    BY DEF Connect
  <1>2. Positions' = Positions
    BY <1>1 DEF Positions
  <1>3. TypeOK'
    BY <1>1, RedisAssumption DEF IInv, TypeOK
  <1>4. ResultsAgree'
    BY <1>1, <1>2 DEF IInv, ResultsAgree
  <1>5. PushAhead' /\ NoPushBehind' /\ NoPushAfterCount'
    BY <1>1, <1>2 DEF IInv, PushAhead, NoPushBehind, NoPushAfterCount, Settled, Dealt
  <1>6. ServedDealt' /\ CountSeesOwnPush' /\ CallOrder'
    BY <1>1 DEF IInv, ServedDealt, Dealt, CountSeesOwnPush, CallOrder
  <1> QED
    BY <1>3, <1>4, <1>5, <1>6 DEF IInv

(* Whether the server carries a command out or refuses it. *)
LEMMA ServeInv == IInv /\ Serve => IInv'
  <1> SUFFICES ASSUME IInv, Serve PROVE IInv'
    OBVIOUS
  <1>1. /\ UNCHANGED <<link, times, pending, result, drops>>
        /\ served' = served + 1
        /\ served \in Nat /\ served + 1 \in Positions
        /\ pending \in Seq(Commands)
        /\ ran \in [Commands -> Nat] /\ refused \in SUBSET Commands
    BY DEF Serve, Execute, Refuse, IInv, TypeOK, Positions
  <1>2. PICK x \in Commands : x = pending[served + 1] /\ result[x] = "pending"
    BY <1>1 DEF Positions, IInv, ResultsAgree
  <1>3. /\ ran' \in [Commands -> Nat] /\ refused' \in SUBSET Commands
        /\ Dealt(x)'
        /\ \A y \in Commands : y # x => ran'[y] = ran[y] /\ (y \in refused' <=> y \in refused)
        /\ \A y \in Commands : ran[y] > 0 => ran'[y] > 0
        /\ ran'[x] > 0 => ran[x] > 0 \/ Execute
    <2>1. CASE Execute
      BY <1>1, <1>2, <2>1 DEF Execute, Dealt
    <2>2. CASE Refuse
      BY <1>1, <1>2, <2>2 DEF Refuse, Dealt
    <2> QED
      BY <2>1, <2>2 DEF Serve
  <1>4. Positions' = Positions /\ (\A y \in Commands : Dealt(y) => Dealt(y)')
    BY <1>1, <1>3 DEF Positions, Dealt
  <1>5. TypeOK'
    BY <1>1, <1>3 DEF IInv, TypeOK, Positions
  <1>6. ServedDealt'
    <2> SUFFICES ASSUME NEW i \in 1 .. served + 1 PROVE Dealt(pending[i])'
      BY <1>1 DEF ServedDealt
    <2>1. pending[i] \in Commands /\ pending'[i] = pending[i]
      BY <1>1 DEF Positions
    <2>2. CASE i \in 1 .. served
      <3>1. Dealt(pending[i])
        BY <2>2 DEF IInv, ServedDealt
      <3> QED
        BY <1>1, <1>4, <2>1, <3>1 DEF Dealt
    <2>3. CASE i = served + 1
      BY <1>1, <1>2, <1>3, <2>3 DEF Dealt
    <2> QED
      BY <1>1, <2>2, <2>3
  <1>7. ResultsAgree'
    BY <1>1, <1>2, <1>3, <1>4 DEF IInv, ResultsAgree
  <1>8. PushAhead'
    BY <1>1, <1>4, CommandTypes DEF IInv, PushAhead
  <1>9. NoPushBehind' /\ NoPushAfterCount' /\ CallOrder'
    BY <1>1, <1>4 DEF IInv, NoPushBehind, NoPushAfterCount, CallOrder, Settled
  <1>10. CountSeesOwnPush'
    <2> SUFFICES ASSUME NEW c \in Calls, ran'[Llen(c)] > 0 PROVE Dealt(Rpush(c))'
      BY DEF CountSeesOwnPush, Dealt
    <2>1. CASE ran[Llen(c)] > 0
      <3>1. Dealt(Rpush(c))
        BY <2>1 DEF IInv, CountSeesOwnPush, Dealt
      <3> QED
        BY <1>4, <3>1, CommandTypes
    <2>2. CASE x = Llen(c)
      <3>1. Dealt(Rpush(c)) \/ \E j \in 1 .. served : pending[j] = Rpush(c)
        <4> DEFINE i == served + 1
        <4>1. i \in Positions /\ pending[i] = Llen(c) /\ i - 1 = served
          BY <1>1, <1>2, <2>2
        <4> HIDE DEF i
        <4> QED
          BY <4>1 DEF IInv, PushAhead
      <3>2. Dealt(Rpush(c))
        BY <3>1 DEF IInv, ServedDealt
      <3> QED
        BY <1>4, <3>2, CommandTypes
    <2> QED
      BY <1>3, <2>1, <2>2, CommandTypes
  <1> QED
    BY <1>5, <1>6, <1>7, <1>8, <1>9, <1>10 DEF IInv

LEMMA AnswerInv == IInv /\ Answer => IInv'
  <1> SUFFICES ASSUME IInv, Answer PROVE IInv'
    OBVIOUS
  <1> DEFINE x == pending[1]
  <1>1. /\ UNCHANGED <<link, times, refused, ran, drops>>
        /\ served' = served - 1
        /\ served \in Nat /\ served > 0 /\ served =< Len(pending)
        /\ pending \in Seq(Commands) /\ Len(pending) \in Nat /\ Len(pending) > 0
        /\ link = "ready"
    BY DEF Answer, IInv, TypeOK
  <1>2. /\ pending' \in Seq(Commands)
        /\ Len(pending') = Len(pending) - 1
        /\ \A i \in 1 .. Len(pending') : pending'[i] = pending[i + 1]
        /\ Head(pending) = x
    BY <1>1, Answered DEF Answer
  <1>3. /\ x \in Commands /\ 1 \in Positions
        /\ \A i \in Positions' : i + 1 \in Positions /\ pending'[i] = pending[i + 1]
        /\ \A i \in Positions : i # 1 => i - 1 \in Positions'
        /\ \A i \in Positions : i \in Nat /\ i >= 1
        /\ \A i \in Positions' : i \in Nat /\ i >= 1
    BY <1>1, <1>2 DEF Positions
  <1>4. /\ result' \in [Commands -> Results]
        /\ \A y \in Commands : y # x => result'[y] = result[y]
        /\ result'[x] = IF x \in refused THEN "rejected" ELSE "answered"
    BY <1>2, <1>3 DEF Answer, IInv, TypeOK, Results
  <1>5. TypeOK'
    BY <1>1, <1>2, <1>4 DEF IInv, TypeOK
  <1>6. Dealt(x)
    BY <1>1 DEF IInv, ServedDealt
  <1>7. \A i \in Positions' : pending'[i] \in Commands /\ pending'[i] # x
    BY <1>1, <1>3 DEF IInv, ResultsAgree, Positions
  <1>8. ResultsAgree'
    <2>1. \A i \in Positions' : result'[pending'[i]] = "pending"
      BY <1>3, <1>4, <1>7 DEF IInv, ResultsAgree
    <2>2. \A i, j \in Positions' : pending'[i] = pending'[j] => i = j
      <3> SUFFICES ASSUME NEW i \in Positions', NEW j \in Positions',
                          pending'[i] = pending'[j]
                   PROVE  i = j
        OBVIOUS
      <3>1. i + 1 = j + 1
        BY <1>3 DEF IInv, ResultsAgree
      <3> QED
        BY <1>3, <3>1
    <2>3. \A y \in Commands : result'[y] = "pending" => \E i \in Positions' : pending'[i] = y
      <3> SUFFICES ASSUME NEW y \in Commands, result'[y] = "pending"
                   PROVE  \E i \in Positions' : pending'[i] = y
        OBVIOUS
      <3>1. y # x /\ result[y] = "pending"
        BY <1>4
      <3>2. PICK i \in Positions : pending[i] = y
        BY <3>1 DEF IInv, ResultsAgree
      <3>3. i - 1 \in Positions'
        BY <1>3, <3>1, <3>2
      <3>4. pending'[i - 1] = y
        BY <1>3, <3>2, <3>3
      <3> QED
        BY <3>3, <3>4
    <2>4. /\ \A y \in Commands : result'[y] = "answered" => ran'[y] > 0
          /\ \A y \in Commands : result'[y] = "rejected" => link' = "ended" \/ y \in refused'
          /\ link' = "ended" => pending' = <<>>
      BY <1>1, <1>4, <1>6 DEF IInv, ResultsAgree, Dealt
    <2> QED
      BY <2>1, <2>2, <2>3, <2>4 DEF ResultsAgree
  <1>9. ServedDealt'
    <2> SUFFICES ASSUME NEW i \in 1 .. served - 1 PROVE Dealt(pending'[i])
      BY <1>1 DEF ServedDealt, Dealt
    <2>1. pending'[i] = pending[i + 1] /\ i + 1 \in 1 .. served
      BY <1>1, <1>2
    <2> QED
      BY <2>1 DEF IInv, ServedDealt
  <1>10. PushAhead'
    <2> SUFFICES ASSUME NEW i \in Positions', NEW c \in Calls, pending'[i] = Llen(c),
                        ~ Dealt(Rpush(c))
                 PROVE  \E j \in 1 .. i - 1 : pending'[j] = Rpush(c)
      BY <1>1 DEF PushAhead, Dealt
    <2>1. i + 1 \in Positions /\ pending[i + 1] = Llen(c) /\ i \in Nat
      BY <1>3
    <2>2. PICK j \in 1 .. i : pending[j] = Rpush(c)
      BY <2>1 DEF IInv, PushAhead
    <2>3. j # 1
      BY <1>6, <2>2
    <2>4. j - 1 \in 1 .. i - 1 /\ j - 1 \in Positions' /\ (j - 1) + 1 = j
      BY <1>2, <2>1, <2>2, <2>3 DEF Positions
    <2>5. pending'[j - 1] = Rpush(c)
      BY <1>3, <2>2, <2>4
    <2> QED
      BY <2>4, <2>5
  <1>11. NoPushBehind'
    <2> SUFFICES ASSUME NEW i \in Positions', NEW j \in Positions', NEW c \in Calls,
                        i < j, pending'[i] = Llen(c), pending'[j] = Rpush(c)
                 PROVE  FALSE
      BY DEF NoPushBehind
    <2>1. i + 1 < j + 1 /\ i + 1 \in Positions /\ j + 1 \in Positions
      BY <1>3
    <2>2. pending[i + 1] = Llen(c) /\ pending[j + 1] = Rpush(c)
      BY <1>3
    <2> QED
      BY <2>1, <2>2 DEF IInv, NoPushBehind
  <1>12. NoPushAfterCount'
    <2> SUFFICES ASSUME NEW c \in Calls, Settled(Llen(c))', NEW i \in Positions',
                        pending'[i] = Rpush(c)
                 PROVE  FALSE
      BY DEF NoPushAfterCount
    <2>1. i + 1 \in Positions /\ pending[i + 1] = Rpush(c) /\ 1 < i + 1
      BY <1>3
    <2>2. CASE x = Llen(c)
      BY <1>3, <2>1, <2>2 DEF IInv, NoPushBehind
    <2>3. CASE x # Llen(c)
      BY <1>4, <2>1, <2>3, CommandTypes DEF IInv, NoPushAfterCount, Settled
    <2> QED
      BY <2>2, <2>3
  <1>13. CallOrder'
    <2> SUFFICES ASSUME NEW c \in Calls, result'[Rpush(c)] = "none"
                 PROVE  result'[Llen(c)] = "none"
      BY DEF CallOrder
    <2>1. result[Rpush(c)] = "none"
      BY <1>4, CommandTypes
    <2>2. result[Llen(c)] = "none"
      BY <2>1 DEF IInv, CallOrder
    <2>3. Llen(c) # x
      BY <1>3, <2>2 DEF IInv, ResultsAgree
    <2> QED
      BY <1>4, <2>2, <2>3, CommandTypes
  <1>14. CountSeesOwnPush'
    BY <1>1 DEF IInv, CountSeesOwnPush
  <1> QED
    BY <1>5, <1>8, <1>9, <1>10, <1>11, <1>12, <1>13, <1>14 DEF IInv

LEMMA NextInv == IInv /\ [Next]_vars => IInv'
  <1> SUFFICES ASSUME IInv, [Next]_vars PROVE IInv'
    OBVIOUS
  <1>1. CASE UNCHANGED vars
    BY <1>1 DEF vars, IInv, TypeOK, ServedDealt, Dealt, PushAhead, NoPushBehind, ResultsAgree,
                CallOrder, NoPushAfterCount, CountSeesOwnPush, Positions, Settled
  <1>2. ASSUME NEW c \in Calls, Push(c) PROVE IInv'
    BY <1>2, RejectedInv, WaitingInv, CommandTypes DEF Push
  <1>3. ASSUME NEW c \in Calls, Count(c) PROVE IInv'
    BY <1>3, RejectedInv, WaitingInv, CommandTypes DEF Count
  <1>4. CASE Connect
    BY <1>4, ConnectInv
  <1>5. CASE AttemptFails
    <2>1. times + 1 \in 1 .. MaxRetries + 1 /\ drops' \in Nat /\ link # "ended"
      BY <1>5, RedisAssumption DEF AttemptFails, IInv, TypeOK
    <2> QED
      BY <1>5, <2>1, RetryInv DEF AttemptFails
  <1>6. CASE Drop
    <2>1. 1 \in 1 .. MaxRetries + 1 /\ drops' \in Nat /\ link # "ended"
      BY <1>6, RedisAssumption DEF Drop, IInv, TypeOK
    <2> QED
      BY <1>6, <2>1, RetryInv DEF Drop
  <1>7. CASE Serve
    BY <1>7, ServeInv
  <1>8. CASE Answer
    BY <1>8, AnswerInv
  <1> QED
    BY <1>1, <1>2, <1>3, <1>4, <1>5, <1>6, <1>7, <1>8 DEF Next, Attempt

LEMMA Invariance == Spec => []IInv
  BY InitInv, NextInv, PTL DEF Spec

(* Every variable keeps its type: in particular the client never makes     *)
(* more than MaxRetries attempts in a row.                                 *)
THEOREM TypeCorrect == Spec => []TypeOK
  <1>1. IInv => TypeOK
    BY DEF IInv
  <1> QED
    BY <1>1, Invariance, PTL

(* A list is counted without the own signature only if Redis refused it.   *)
THEOREM OwnPushCounted == Spec => []CountSeesOwnPush
  <1>1. IInv => CountSeesOwnPush
    BY DEF IInv
  <1> QED
    BY <1>1, Invariance, PTL

(* Once a handler has its count, its signature is never pushed again.      *)
THEOREM PushesEnd == Spec => PushesSettled
  <1>1. IInv /\ [Next]_vars =>
           [\A c \in Calls : Settled(Llen(c)) => ran'[Rpush(c)] = ran[Rpush(c)]]_vars
    <2> SUFFICES ASSUME IInv, [Next]_vars, NEW c \in Calls, Settled(Llen(c))
                 PROVE  ran'[Rpush(c)] = ran[Rpush(c)]
      OBVIOUS
    <2>1. CASE Execute
      <3>1. served + 1 \in Positions /\ pending[served + 1] \in Commands
        BY <2>1 DEF Execute, IInv, TypeOK, Positions
      <3>2. pending[served + 1] # Rpush(c)
        BY <3>1 DEF IInv, NoPushAfterCount
      <3> QED
        BY <2>1, <3>2, CommandTypes DEF Execute, IInv, TypeOK
    <2>2. CASE ~ Execute
      BY <2>2 DEF Next, Attempt, Serve, Refuse, Push, Count, Issue, Connect, AttemptFails,
                  Drop, Answer, vars
    <2> QED
      BY <2>1, <2>2
  <1> QED
    BY <1>1, Invariance, PTL DEF Spec, PushesSettled

-----------------------------------------------------------------------------
(* A connection executes a command once: the repetitions of a command are  *)
(* at most the connections that were lost, and fewer until it is served  *)
(* on the present one.                                                     *)
RunsInv ==
    /\ link = "connecting" => served = 0
    /\ \A x \in Commands : ran[x] <= 1 + drops
    /\ \A x \in Commands : result[x] = "none" => ran[x] = 0
    /\ \A i \in Positions : i > served => ran[pending[i]] <= drops

LEMMA InitRuns == Init => RunsInv
  BY CommandTypes DEF Init, RunsInv, Positions

LEMMA IssueRuns ==
    ASSUME IInv, RunsInv, NEW x \in Commands, Issue(x)
    PROVE  RunsInv'
  <1>1. UNCHANGED <<link, served, ran, drops>> /\ result[x] = "none"
    BY DEF Issue
  <1>2. \A y \in Commands : result'[y] = "none" => result[y] = "none"
    BY DEF Issue, IInv, TypeOK
  <1>3. CASE pending' = pending
    BY <1>1, <1>2, <1>3 DEF RunsInv, Positions
  <1>4. CASE pending' = Append(pending, x)
    <2>1. /\ Len(pending') = Len(pending) + 1 /\ Len(pending) \in Nat
          /\ \A i \in Positions : pending'[i] = pending[i]
          /\ pending'[Len(pending) + 1] = x
      <3>1. pending \in Seq(Commands)
        BY DEF IInv, TypeOK
      <3>2. Len(pending) \in Nat
        BY <3>1
      <3> QED
        BY <1>4, <3>1, <3>2, Appended, Zenon
    <2>2. ran[x] = 0 /\ drops \in Nat
      BY <1>1 DEF RunsInv, IInv, TypeOK
    <2>3. ASSUME NEW i \in Positions', i > served PROVE ran[pending'[i]] <= drops
      <3>1. i \in Positions \/ i = Len(pending) + 1
        BY <2>1 DEF Positions
      <3> QED
        BY <2>1, <2>2, <2>3, <3>1 DEF RunsInv
    <2> QED
      BY <1>1, <1>2, <2>3 DEF RunsInv
  <1> QED
    BY <1>3, <1>4 DEF Issue

(* Between two connections nothing is served. *)
LEMMA RetryRuns ==
    ASSUME IInv, RunsInv, NEW n, Retry(n), served' = 0, UNCHANGED ran,
           \/ link = "connecting" /\ drops' = drops
           \/ drops' = drops + 1
    PROVE  RunsInv'
  <1>1. /\ \A y \in Commands : result'[y] = "none" => result[y] = "none"
        /\ pending' = pending \/ pending' = <<>>
    BY DEF Retry, RejectAll, IInv, TypeOK
  <1>2. /\ drops \in Nat /\ drops' \in Nat /\ drops <= drops'
        /\ pending \in Seq(Commands)
        /\ \A y \in Commands : ran[y] \in Nat /\ ran[y] <= 1 + drops
    BY DEF IInv, TypeOK, RunsInv
  <1>3. \A y \in Commands : ran[y] <= 1 + drops'
    BY <1>2
  <1>4. ASSUME NEW i \in Positions' PROVE ran[pending'[i]] <= drops'
    <2>1. i \in Positions /\ pending' = pending
      BY <1>1 DEF Positions
    <2>2. pending[i] \in Commands /\ i > 0
      BY <1>2, <2>1 DEF Positions
    <2>3. CASE link = "connecting" /\ drops' = drops
      BY <2>1, <2>2, <2>3 DEF RunsInv
    <2>4. CASE drops' = drops + 1
      BY <1>2, <2>1, <2>2, <2>4
    <2> QED
      BY <2>3, <2>4
  <1> QED
    BY <1>1, <1>3, <1>4 DEF RunsInv

LEMMA ServeRuns == IInv /\ RunsInv /\ Serve => RunsInv'
  <1> SUFFICES ASSUME IInv, RunsInv, Serve PROVE RunsInv'
    OBVIOUS
  <1> DEFINE x == pending[served + 1]
  <1>1. /\ UNCHANGED <<link, pending, result, drops>> /\ link = "ready"
        /\ served' = served + 1 /\ served \in Nat /\ served + 1 \in Positions
        /\ x \in Commands
    BY DEF Serve, Execute, Refuse, IInv, TypeOK, Positions
  <1>2. /\ drops \in Nat /\ ran \in [Commands -> Nat]
        /\ ran[x] <= drops /\ result[x] = "pending"
    BY <1>1 DEF IInv, TypeOK, ResultsAgree, RunsInv
  <1>3. \A y \in Commands : ran'[y] = ran[y] \/ (y = x /\ ran'[y] = ran[y] + 1)
    BY <1>1, <1>2 DEF Serve, Execute, Refuse
  <1>4. \A y \in Commands : ran'[y] <= 1 + drops'
    BY <1>1, <1>2, <1>3 DEF RunsInv
  <1>5. \A y \in Commands : result'[y] = "none" => ran'[y] = 0
    BY <1>1, <1>2, <1>3 DEF RunsInv
  <1>6. ASSUME NEW i \in Positions', i > served' PROVE ran'[pending'[i]] <= drops'
    <2>1. i \in Positions /\ i > served + 1
      BY <1>1, <1>6 DEF Positions
    <2>2. pending[i] # x /\ pending[i] \in Commands
      BY <1>1, <2>1 DEF IInv, ResultsAgree, TypeOK, Positions
    <2>3. i > served
      BY <1>1, <2>1 DEF Positions
    <2> QED
      BY <1>1, <1>3, <2>1, <2>2, <2>3 DEF RunsInv
  <1> QED
    BY <1>1, <1>4, <1>5, <1>6 DEF RunsInv

LEMMA AnswerRuns == IInv /\ RunsInv /\ Answer => RunsInv'
  <1> SUFFICES ASSUME IInv, RunsInv, Answer PROVE RunsInv'
    OBVIOUS
  <1>1. /\ UNCHANGED <<link, ran, drops>> /\ link = "ready"
        /\ served' = served - 1 /\ served \in Nat
        /\ pending \in Seq(Commands) /\ Len(pending) \in Nat /\ Len(pending) > 0
    BY DEF Answer, IInv, TypeOK
  <1>2. /\ Len(pending') = Len(pending) - 1
        /\ \A i \in 1 .. Len(pending') : pending'[i] = pending[i + 1]
    BY <1>1, Answered DEF Answer
  <1>3. \A y \in Commands : result'[y] = "none" => result[y] = "none"
    BY DEF Answer, IInv, TypeOK
  <1>4. ASSUME NEW i \in Positions', i > served' PROVE ran[pending'[i]] <= drops
    <2>1. i + 1 \in Positions /\ i + 1 > served /\ pending'[i] = pending[i + 1]
      BY <1>1, <1>2, <1>4 DEF Positions
    <2> QED
      BY <2>1 DEF RunsInv
  <1> QED
    BY <1>1, <1>3, <1>4 DEF RunsInv

LEMMA NextRuns == IInv /\ RunsInv /\ [Next]_vars => RunsInv'
  <1> SUFFICES ASSUME IInv, RunsInv, [Next]_vars PROVE RunsInv'
    OBVIOUS
  <1>1. CASE UNCHANGED vars
    BY <1>1 DEF vars, RunsInv, Positions
  <1>2. ASSUME NEW c \in Calls, Push(c) \/ Count(c) PROVE RunsInv'
    BY <1>2, IssueRuns, CommandTypes DEF Push, Count
  <1>3. CASE Connect
    BY <1>3 DEF Connect, RunsInv, Positions
  <1>4. CASE AttemptFails
    BY <1>4, RetryRuns DEF AttemptFails
  <1>5. CASE Drop
    BY <1>5, RetryRuns DEF Drop
  <1>6. CASE Serve
    BY <1>6, ServeRuns
  <1>7. CASE Answer
    BY <1>7, AnswerRuns
  <1> QED
    BY <1>1, <1>2, <1>3, <1>4, <1>5, <1>6, <1>7 DEF Next, Attempt

-----------------------------------------------------------------------------
(* The client implements ListCommands.                                     *)

Pushes == [c \in Calls |-> ran[Rpush(c)]]

Counts == [c \in Calls |-> CountOf(c)]

Refused == {c \in Calls : Rpush(c) \in refused}

Stutters == UNCHANGED <<Pushes, Counts, Refused, drops>>

LEMMA InitImplements == Init => Promise!Init
  BY CommandTypes DEF Init, Promise!Init, CountOf

LEMMA OpenCounts == \A c \in Calls : ~ Settled(Llen(c)) <=> Promise!Open(c)
  BY DEF Settled, CountOf, Promise!Open

LEMMA KindsOfCommands ==
    \A x \in Commands : x = Ping \/ \E c \in Calls : x = Rpush(c) \/ x = Llen(c)
  BY DEF Commands, Ping, Rpush, Llen

LEMMA SamePushes == UNCHANGED ran => Pushes' = Pushes
  BY DEF Pushes

LEMMA SameRefused == UNCHANGED refused => Refused' = Refused
  BY DEF Refused

LEMMA SameCounts ==
    (\A c \in Calls : CountOf(c)' = CountOf(c)) => Counts' = Counts
  BY DEF Counts

LEMMA IssueImplements ==
    ASSUME IInv, NEW x \in Commands, Issue(x)
    PROVE  Promise!Fail \/ Stutters
  <1>1. UNCHANGED <<refused, ran, drops>> /\ result[x] = "none"
    BY DEF Issue
  <1>2. \A y \in Commands : y # x => result'[y] = result[y]
    BY DEF Issue, IInv, TypeOK
  <1>3. Pushes' = Pushes /\ Refused' = Refused
    BY <1>1, SamePushes, SameRefused
  <1>4. CASE \E c \in Calls : x = Llen(c) /\ result'[x] = "rejected"
    <2>1. PICK c \in Calls : x = Llen(c) /\ result'[x] = "rejected"
      BY <1>4
    <2>2. Promise!Open(c) /\ CountOf(c)' = "failed"
      BY <1>1, <2>1, OpenCounts DEF Settled, CountOf
    <2>3. \A d \in Calls : d # c => CountOf(d)' = CountOf(d)
      BY <1>2, <2>1, CommandTypes DEF CountOf
    <2>4. Promise!Failing({c})
      BY <2>2, <2>3 DEF Promise!Failing
    <2> QED
      BY <1>1, <1>3, <2>4 DEF Promise!Fail, Pushes, Refused
  <1>5. CASE ~ \E c \in Calls : x = Llen(c) /\ result'[x] = "rejected"
    <2>1. result'[x] \in {"pending", "rejected"}
      BY DEF Issue, IInv, TypeOK
    <2>2. \A c \in Calls : CountOf(c)' = CountOf(c)
      BY <1>1, <1>2, <1>5, <2>1, CommandTypes DEF CountOf
    <2> QED
      BY <1>1, <1>3, <2>2, SameCounts DEF Stutters
  <1> QED
    BY <1>4, <1>5

LEMMA RetryImplements ==
    ASSUME IInv, NEW n, Retry(n)
    PROVE  \E failed \in SUBSET Calls : Promise!Failing(failed)
  <1>1. CASE UNCHANGED result
    <2>1. \A c \in Calls : CountOf(c)' = CountOf(c)
      BY <1>1 DEF CountOf
    <2>2. Promise!Failing({})
      BY <2>1 DEF Promise!Failing
    <2> QED
      BY <2>2
  <1>2. CASE RejectAll
    <2> DEFINE failed == {c \in Calls : result[Llen(c)] = "pending"}
    <2>1. \A c \in failed : Promise!Open(c) /\ CountOf(c)' = "failed"
      BY <1>2, OpenCounts, CommandTypes DEF RejectAll, Settled, CountOf
    <2>2. \A c \in Calls : c \notin failed => CountOf(c)' = CountOf(c)
      BY <1>2, CommandTypes DEF RejectAll, CountOf
    <2>3. Promise!Failing(failed)
      BY <2>1, <2>2 DEF Promise!Failing
    <2> QED
      BY <2>3
  <1> QED
    BY <1>1, <1>2 DEF Retry

LEMMA ServeImplements ==
    ASSUME IInv, RunsInv, Serve
    PROVE  (\E c \in Calls : Promise!Push(c) \/ Promise!Refuse(c)) \/ Stutters
  <1> DEFINE x == pending[served + 1]
  <1>1. /\ UNCHANGED <<result, drops>> /\ drops \in Nat
        /\ served \in Nat /\ served + 1 \in Positions
        /\ x \in Commands /\ ran \in [Commands -> Nat]
    BY DEF Serve, Execute, Refuse, IInv, TypeOK, Positions
  <1>2. UNCHANGED Counts
    <2>1. \A c \in Calls : CountOf(c)' = CountOf(c)
      BY <1>1 DEF CountOf
    <2> QED
      BY <2>1, SameCounts
  <1>3. ASSUME NEW c \in Calls, x = Rpush(c) PROVE Promise!Push(c) \/ Promise!Refuse(c)
    <2>1. Promise!Open(c)
      BY <1>1, <1>3, OpenCounts DEF IInv, NoPushAfterCount
    <2>2. ran[Rpush(c)] <= drops
      BY <1>1, <1>3 DEF RunsInv
    <2>3. CASE Execute
      <3>1. /\ Pushes' = [Pushes EXCEPT ![c] = @ + 1]
            /\ Refused' = Refused \ {c}
        BY <1>1, <1>3, <2>3, CommandTypes DEF Execute, Pushes, Refused
      <3> QED
        BY <1>1, <1>2, <2>1, <2>2, <3>1 DEF Promise!Push, Pushes, Counts, Refused
    <2>4. CASE Refuse
      <3>1. Pushes' = Pushes /\ Refused' = Refused \cup {c}
        BY <1>1, <1>3, <2>4, CommandTypes DEF Refuse, Pushes, Refused
      <3> QED
        BY <1>1, <1>2, <2>1, <3>1 DEF Promise!Refuse, Pushes, Counts, Refused
    <2> QED
      BY <2>3, <2>4 DEF Serve
  <1>4. ASSUME \A c \in Calls : x # Rpush(c) PROVE Stutters
    <2>1. Pushes' = Pushes /\ Refused' = Refused
      BY <1>1, <1>4, CommandTypes DEF Serve, Execute, Refuse, Pushes, Refused
    <2> QED
      BY <1>1, <1>2, <2>1 DEF Stutters
  <1> QED
    BY <1>3, <1>4

(* The answer to an llen is a count, or its failure. *)
LEMMA AnswerImplements ==
    ASSUME IInv, Answer
    PROVE  (\E c \in Calls : Promise!Count(c)) \/ Promise!Fail \/ Stutters
  <1> DEFINE x == pending[1]
  <1>1. /\ UNCHANGED <<refused, ran, drops>> /\ served \in Nat /\ served > 0
        /\ 1 \in Positions /\ Head(pending) = x /\ x \in Commands
    BY DEF Answer, IInv, TypeOK, Positions
  <1>2. result[x] = "pending" /\ Dealt(x)
    BY <1>1 DEF IInv, ResultsAgree, ServedDealt
  <1>3. /\ \A y \in Commands : y # x => result'[y] = result[y]
        /\ result'[x] = IF x \in refused THEN "rejected" ELSE "answered"
    BY <1>1 DEF Answer, IInv, TypeOK
  <1>4. Pushes' = Pushes /\ Refused' = Refused
    BY <1>1, SamePushes, SameRefused
  <1>5. ASSUME NEW c \in Calls, x = Llen(c) PROVE Promise!Count(c) \/ Promise!Fail
    <2>1. Promise!Open(c)
      BY <1>2, <1>5, OpenCounts DEF Settled
    <2>2. \A d \in Calls : d # c => CountOf(d)' = CountOf(d)
      BY <1>3, <1>5, CommandTypes DEF CountOf
    <2>3. CASE x \in refused
      <3>1. CountOf(c)' = "failed"
        BY <1>3, <1>5, <2>3, CommandTypes DEF CountOf
      <3>2. Promise!Failing({c})
        BY <2>1, <2>2, <3>1 DEF Promise!Failing
      <3> QED
        BY <1>1, <1>4, <3>2 DEF Promise!Fail, Pushes, Refused
    <2>4. CASE x \notin refused
      <3>1. ran[Llen(c)] > 0
        BY <1>2, <1>5, <2>4 DEF Dealt
      <3>2. ran[Rpush(c)] > 0 \/ c \in Refused
        BY <3>1 DEF IInv, CountSeesOwnPush, Refused
      <3>3. CountOf(c)' = "answered"
        BY <1>3, <1>5, <2>4, CommandTypes DEF CountOf
      <3>4. Counts' = [Counts EXCEPT ![c] = "answered"]
        BY <2>2, <3>3 DEF Counts
      <3> QED
        BY <1>1, <1>4, <2>1, <3>2, <3>4 DEF Promise!Count, Pushes, Counts, Refused
    <2> QED
      BY <2>3, <2>4
  <1>6. ASSUME \A c \in Calls : x # Llen(c) PROVE Stutters
    <2>1. \A c \in Calls : CountOf(c)' = CountOf(c)
      BY <1>3, <1>6, CommandTypes DEF CountOf
    <2> QED
      BY <1>1, <1>4, <2>1, SameCounts DEF Stutters
  <1> QED
    BY <1>5, <1>6

LEMMA NextImplements ==
    IInv /\ RunsInv /\ [Next]_vars => Promise!Next \/ Stutters
  <1> SUFFICES ASSUME IInv, RunsInv, [Next]_vars PROVE Promise!Next \/ Stutters
    OBVIOUS
  <1>1. CASE UNCHANGED <<refused, ran, result, drops>>
    <2>1. \A c \in Calls : CountOf(c)' = CountOf(c)
      BY <1>1 DEF CountOf
    <2> QED
      BY <1>1, <2>1, SamePushes, SameRefused, SameCounts DEF Stutters
  <1>2. ASSUME NEW c \in Calls, Push(c) \/ Count(c) PROVE Promise!Next \/ Stutters
    BY <1>2, IssueImplements, CommandTypes DEF Push, Count, Promise!Next
  <1>3. CASE AttemptFails
    BY <1>3, RetryImplements, SamePushes, SameRefused
       DEF AttemptFails, Promise!Next, Promise!Fail, Pushes, Refused
  <1>4. CASE Drop
    BY <1>4, RetryImplements, SamePushes, SameRefused
       DEF Drop, Promise!Next, Promise!Lose, Pushes, Refused
  <1>5. CASE Serve
    BY <1>5, ServeImplements DEF Promise!Next
  <1>6. CASE Answer
    BY <1>6, AnswerImplements DEF Promise!Next
  <1> QED
    BY <1>1, <1>2, <1>3, <1>4, <1>5, <1>6 DEF Next, Attempt, Connect, vars

(* A handler that pushes and counts on one client pushes once, and once    *)
(* more at most for every lost connection, until it has a count that       *)
(* includes the push, unless Redis refused it: what BridgeRelay takes for  *)
(* granted.                                                                *)
THEOREM ConnectionImplementsListCommands == Spec => ImplementsListCommands
  <1>1. IInv /\ RunsInv /\ [Next]_vars
        => [Promise!Next]_<<Pushes, Counts, Refused, drops>>
    BY NextImplements DEF Stutters
  <1> QED
    BY <1>1, InitImplements, InitRuns, NextRuns, Invariance, PTL
       DEF Spec, ImplementsListCommands, Promise!Spec, Pushes, Counts, Refused
=============================================================================
