------------------------- MODULE Connection_proofs -------------------------
(***************************************************************************)
(* Proofs about Connection, for any number of networks, failures and       *)
(* errors, and whatever the outcomes of the attempts to reconnect.         *)
(***************************************************************************)
EXTENDS Connection, FiniteSetTheorems, SequenceTheorems, TLAPS

KeptIn(ss) == {i \in 1 .. Len(ss) : i = 1 \/ ss[i].setUp # "half"}

NoticedIn(ss) == {i \in 1 .. Len(ss) : ss[i].setUp = "full" /\ ss[i].noticed}

(* A list of sockets of one network: only a socket that is gone, and has a *)
(* handler, was noticed to be gone.                                        *)
SocketList(ss) ==
    /\ ss \in Seq(Sockets) /\ Len(ss) >= 1
    /\ \A i \in 1 .. Len(ss) : ss[i].noticed => ~ ss[i].open /\ ss[i].setUp # "none"

(* The errors of one network account for its sockets and timeouts, and for *)
(* the losses it was told of.  If the start-up did not subscribe it, the   *)
(* first error was of a socket that never was subscribed.                  *)
Accounted(ss, t, e) ==
    /\ SocketList(ss) /\ t \in Nat /\ e \in Nat
    /\ Cardinality(KeptIn(ss)) + t = 1 + e
    /\ ss[1].setUp = "none" => Len(ss) = 1 /\ t = 0
    /\ Cardinality(NoticedIn(ss)) <= e
    /\ ss[1].setUp = "full" \/ (Len(ss) = 1 /\ t = 0) \/ Cardinality(NoticedIn(ss)) < e

(* The same while an attempt is under way. *)
Attempting(ss, t, e) ==
    /\ SocketList(ss) /\ t \in Nat /\ e \in Nat
    /\ Cardinality(KeptIn(ss)) + t = e
    /\ ss[1].setUp # "none"
    /\ Cardinality(NoticedIn(ss)) <= e
    /\ ss[1].setUp = "full" \/ Cardinality(NoticedIn(ss)) < e

(* The start-up loop has not reached these networks. *)
Untouched ==
    \A i \in 1 .. Len(Networks) :
        i > started => sockets[Networks[i]][1].setUp = "none"

IInv ==
    /\ TypeOK /\ Untouched
    /\ \A c \in Chains : Accounted(sockets[c], timers[c], errors[c])

-----------------------------------------------------------------------------
LEMMA NewSocketType ==
    ASSUME NEW x \in {"none", "half", "full"}
    PROVE  /\ NewSocket(x) \in Sockets /\ NewSocket(x).setUp = x
           /\ NewSocket(x).noticed = FALSE /\ NewSocket(x).open = TRUE
  BY DEF NewSocket, Sockets

LEMMA ReplaceSocket ==
    ASSUME NEW ss \in Seq(Sockets), NEW j \in 1 .. Len(ss), NEW s \in Sockets
    PROVE  LET new == [ss EXCEPT ![j] = s]
           IN  /\ new \in Seq(Sockets) /\ Len(new) = Len(ss)
               /\ \A i \in 1 .. Len(ss) : new[i] = IF i = j THEN s ELSE ss[i]
  OBVIOUS

LEMMA CountsFinite ==
    ASSUME NEW ss \in Seq(Sockets)
    PROVE  /\ Len(ss) \in Nat
           /\ IsFiniteSet(KeptIn(ss)) /\ Cardinality(KeptIn(ss)) \in Nat
           /\ IsFiniteSet(NoticedIn(ss)) /\ Cardinality(NoticedIn(ss)) \in Nat
  <1>1. Len(ss) \in Nat /\ IsFiniteSet(1 .. Len(ss))
    BY FS_Interval
  <1>2. KeptIn(ss) \subseteq 1 .. Len(ss) /\ NoticedIn(ss) \subseteq 1 .. Len(ss)
    BY DEF KeptIn, NoticedIn
  <1> QED
    BY <1>1, <1>2, FS_Subset, FS_CardinalityType

LEMMA AddOne ==
    ASSUME NEW S, IsFiniteSet(S), NEW x
    PROVE  /\ IsFiniteSet(S \cup {x})
           /\ Cardinality(S \cup {x}) <= Cardinality(S) + 1
  <1>1. Cardinality(S) \in Nat
    BY FS_CardinalityType
  <1>2. IsFiniteSet(S \cup {x})
    BY FS_AddElement
  <1>3. Cardinality(S \cup {x}) = IF x \in S THEN Cardinality(S) ELSE Cardinality(S) + 1
    BY FS_AddElement
  <1> QED
    BY <1>1, <1>2, <1>3

(* What one more socket adds to the counts. *)
LEMMA AppendCounts ==
    ASSUME NEW ss, SocketList(ss), NEW x \in {"none", "half", "full"}
    PROVE  LET new == Append(ss, NewSocket(x))
           IN  /\ SocketList(new) /\ Len(new) = Len(ss) + 1 /\ new[1] = ss[1]
               /\ Cardinality(KeptIn(new)) =
                     Cardinality(KeptIn(ss)) + (IF x = "half" THEN 0 ELSE 1)
               /\ NoticedIn(new) = NoticedIn(ss)
  <1> DEFINE s == NewSocket(x)
             new == Append(ss, s)
             n == Len(ss) + 1
  <1>1. s \in Sockets /\ s.setUp = x /\ ~ s.noticed
    BY NewSocketType
  <1> HIDE DEF s
  <1>2. /\ new \in Seq(Sockets) /\ Len(new) = n /\ Len(ss) \in Nat /\ Len(ss) >= 1
        /\ \A i \in 1 .. Len(ss) : new[i] = ss[i]
        /\ new[n] = s
    BY <1>1 DEF SocketList
  <1> HIDE DEF new
  <1>3. 1 .. n = (1 .. Len(ss)) \cup {n} /\ n \notin 1 .. Len(ss) /\ n # 1
    BY <1>2
  <1>4. SocketList(new) /\ new[1] = ss[1]
    BY <1>1, <1>2, <1>3 DEF SocketList
  <1>5. NoticedIn(new) = NoticedIn(ss)
    BY <1>1, <1>2, <1>3 DEF NoticedIn
  <1>6. KeptIn(new) = KeptIn(ss) \cup (IF x = "half" THEN {} ELSE {n}) /\ n \notin KeptIn(ss)
    BY <1>1, <1>2, <1>3 DEF KeptIn
  <1>7. Cardinality(KeptIn(new)) = Cardinality(KeptIn(ss)) + (IF x = "half" THEN 0 ELSE 1)
    <2>1. IsFiniteSet(KeptIn(ss)) /\ Cardinality(KeptIn(ss)) \in Nat
      BY CountsFinite DEF SocketList
    <2>2. CASE x = "half"
      BY <1>6, <2>1, <2>2
    <2>3. CASE x # "half"
      BY <1>6, <2>1, <2>3, FS_AddElement
    <2> QED
      BY <2>2, <2>3
  <1> QED
    BY <1>2, <1>4, <1>5, <1>7 DEF new, s

(* However an attempt ends, the accounts are right. *)
LEMMA AttemptAccounted ==
    ASSUME NEW ss, NEW p, NEW e, Attempting(ss, p, e)
    PROVE  /\ Accounted(Append(ss, NewSocket("full")), p, e)
           /\ Accounted(Append(ss, NewSocket("none")), p, e)
           /\ Accounted(Append(ss, NewSocket("half")), p + 1, e)
           /\ Accounted(ss, p + 1, e)
  <1>1. /\ SocketList(ss) /\ p \in Nat /\ e \in Nat /\ Len(ss) \in Nat /\ Len(ss) >= 1
        /\ Cardinality(KeptIn(ss)) \in Nat /\ Cardinality(NoticedIn(ss)) \in Nat
    BY CountsFinite DEF Attempting, SocketList
  <1>2. Accounted(ss, p + 1, e)
    BY <1>1 DEF Attempting, Accounted
  <1>3. ASSUME NEW x \in {"none", "half", "full"}, NEW q \in Nat,
               q = IF x = "half" THEN p + 1 ELSE p
        PROVE  Accounted(Append(ss, NewSocket(x)), q, e)
    <2> DEFINE new == Append(ss, NewSocket(x))
    <2>1. /\ SocketList(new) /\ new[1] = ss[1]
          /\ Cardinality(KeptIn(new)) =
                Cardinality(KeptIn(ss)) + (IF x = "half" THEN 0 ELSE 1)
          /\ NoticedIn(new) = NoticedIn(ss)
      BY <1>1, AppendCounts
    <2> HIDE DEF new
    <2>2. Cardinality(KeptIn(new)) + q = 1 + e
      BY <1>1, <1>3, <2>1 DEF Attempting
    <2>3. Accounted(new, q, e)
      BY <1>1, <1>3, <2>1, <2>2 DEF Attempting, Accounted
    <2> QED
      BY <2>3 DEF new
  <1>4. p + 1 \in Nat
    BY <1>1
  <1> QED
    BY <1>1, <1>2, <1>3, <1>4

(* An error event starts an attempt, whatever the socket it comes from. *)
LEMMA ErrorAttempts ==
    ASSUME NEW ss, NEW t, NEW e, Accounted(ss, t, e),
           NEW j \in 1 .. Len(ss), ss[j].setUp # "none"
    PROVE  Attempting([ss EXCEPT ![j].noticed = ~ ss[j].open], t, e + 1)
  <1> DEFINE s == [ss[j] EXCEPT !.noticed = ~ ss[j].open]
             new == [ss EXCEPT ![j] = s]
  <1>1. /\ SocketList(ss) /\ t \in Nat /\ e \in Nat /\ Len(ss) \in Nat /\ Len(ss) >= 1
        /\ ss \in Seq(Sockets) /\ ss[j] \in Sockets
        /\ IsFiniteSet(NoticedIn(ss)) /\ Cardinality(NoticedIn(ss)) \in Nat
        /\ Cardinality(KeptIn(ss)) \in Nat
    BY CountsFinite DEF Accounted, SocketList
  <1>2. /\ s \in Sockets /\ s.setUp = ss[j].setUp
        /\ s.noticed => ~ s.open
    BY <1>1 DEF Sockets
  <1> HIDE DEF s
  <1>3. /\ new \in Seq(Sockets) /\ Len(new) = Len(ss)
        /\ \A i \in 1 .. Len(ss) : new[i] = IF i = j THEN s ELSE ss[i]
    BY <1>1, <1>2, ReplaceSocket
  <1> HIDE DEF new
  <1>4. SocketList(new)
    BY <1>1, <1>2, <1>3 DEF SocketList
  <1>5. KeptIn(new) = KeptIn(ss)
    BY <1>2, <1>3 DEF KeptIn
  <1>6. NoticedIn(new) \subseteq NoticedIn(ss) \cup {j}
    BY <1>3 DEF NoticedIn
  <1>7. Cardinality(NoticedIn(new)) \in Nat
        /\ Cardinality(NoticedIn(new)) <= Cardinality(NoticedIn(ss)) + 1
    <2>1. /\ IsFiniteSet(NoticedIn(ss) \cup {j})
          /\ Cardinality(NoticedIn(ss) \cup {j}) <= Cardinality(NoticedIn(ss)) + 1
      BY <1>1, AddOne
    <2> QED
      BY <1>1, <1>6, <2>1, FS_Subset, FS_CardinalityType
  <1>8. new[1].setUp = ss[1].setUp /\ ss[1].setUp # "none"
    <2>1. new[1].setUp = ss[1].setUp
      BY <1>1, <1>2, <1>3
    <2>2. ss[1].setUp # "none"
      <3>1. SUFFICES ASSUME ss[1].setUp = "none" PROVE FALSE
        OBVIOUS
      <3>2. Len(ss) = 1
        BY <3>1 DEF Accounted
      <3> QED
        BY <3>1, <3>2
    <2> QED
      BY <2>1, <2>2
  <1>9. ss[1].setUp = "full" \/ Cardinality(NoticedIn(new)) < e + 1
    <2>1. CASE Len(ss) = 1 /\ ss[1].setUp # "full"
      <3>1. NoticedIn(new) = {}
        BY <1>3, <1>8, <2>1 DEF NoticedIn
      <3> QED
        BY <1>1, <3>1, FS_EmptySet
    <2>2. CASE Cardinality(NoticedIn(ss)) < e
      BY <1>1, <1>7, <2>2
    <2>3. CASE Len(ss) # 1 /\ ss[1].setUp # "full"
      <3>1. Cardinality(NoticedIn(ss)) < e
        BY <2>3 DEF Accounted
      <3> QED
        BY <1>1, <1>7, <3>1
    <2> QED
      BY <2>1, <2>2, <2>3
  <1>10. Cardinality(KeptIn(new)) + t = e + 1 /\ Cardinality(NoticedIn(new)) <= e + 1
    BY <1>1, <1>5, <1>7 DEF Accounted
  <1>11. Attempting(new, t, e + 1)
    BY <1>1, <1>4, <1>8, <1>9, <1>10 DEF Attempting
  <1> QED
    BY <1>11 DEF new, s

(* So does a timeout. *)
LEMMA TimeoutAttempts ==
    ASSUME NEW ss, NEW t, NEW e, Accounted(ss, t, e), t > 0
    PROVE  Attempting(ss, t - 1, e)
  <1>1. /\ SocketList(ss) /\ t \in Nat /\ e \in Nat /\ t - 1 \in Nat
        /\ Cardinality(KeptIn(ss)) \in Nat
    BY CountsFinite DEF Accounted, SocketList
  <1> QED
    BY <1>1 DEF Accounted, Attempting

(* A connection that is lost changes no account. *)
LEMMA LossAccounted ==
    ASSUME NEW ss, NEW t, NEW e, Accounted(ss, t, e), NEW j \in 1 .. Len(ss)
    PROVE  Accounted([ss EXCEPT ![j].open = FALSE], t, e)
  <1> DEFINE s == [ss[j] EXCEPT !.open = FALSE]
             new == [ss EXCEPT ![j] = s]
  <1>1. /\ SocketList(ss) /\ Len(ss) \in Nat /\ Len(ss) >= 1
        /\ ss \in Seq(Sockets) /\ ss[j] \in Sockets
    BY DEF Accounted, SocketList
  <1>2. /\ s \in Sockets /\ s.setUp = ss[j].setUp
        /\ s.noticed = ss[j].noticed /\ ~ s.open
    BY <1>1 DEF Sockets
  <1> HIDE DEF s
  <1>3. /\ new \in Seq(Sockets) /\ Len(new) = Len(ss)
        /\ \A i \in 1 .. Len(ss) : new[i] = IF i = j THEN s ELSE ss[i]
    BY <1>1, <1>2, ReplaceSocket
  <1> HIDE DEF new
  <1>4. SocketList(new) /\ new[1].setUp = ss[1].setUp
    BY <1>1, <1>2, <1>3 DEF SocketList
  <1>5. KeptIn(new) = KeptIn(ss) /\ NoticedIn(new) = NoticedIn(ss)
    BY <1>2, <1>3 DEF KeptIn, NoticedIn
  <1>6. Accounted(new, t, e)
    BY <1>3, <1>4, <1>5 DEF Accounted
  <1> QED
    BY <1>6 DEF new, s

(* Nor does the start-up loop. *)
LEMMA SetUpAccounted ==
    ASSUME NEW ss, NEW t, NEW e, Accounted(ss, t, e), ss[1].setUp = "none",
           NEW x \in {"half", "full"}
    PROVE  Accounted([ss EXCEPT ![1].setUp = x], t, e)
  <1> DEFINE s == [ss[1] EXCEPT !.setUp = x]
             new == [ss EXCEPT ![1] = s]
  <1>1. /\ SocketList(ss) /\ Len(ss) = 1 /\ t = 0 /\ e \in Nat
        /\ ss \in Seq(Sockets) /\ ss[1] \in Sockets /\ ~ ss[1].noticed
    BY DEF Accounted, SocketList
  <1>2. s \in Sockets /\ s.setUp = x /\ ~ s.noticed
    BY <1>1 DEF Sockets
  <1> HIDE DEF s
  <1>3. new \in Seq(Sockets) /\ Len(new) = 1 /\ new[1] = s
    <2>1. \A j \in 1 .. Len(ss) :
             /\ [ss EXCEPT ![j] = s] \in Seq(Sockets)
             /\ Len([ss EXCEPT ![j] = s]) = Len(ss)
             /\ [ss EXCEPT ![j] = s][j] = s
      BY <1>1, <1>2, ReplaceSocket
    <2>2. 1 \in 1 .. Len(ss)
      BY <1>1
    <2> QED
      BY <1>1, <2>1, <2>2
  <1> HIDE DEF new
  <1>4. SocketList(new)
    BY <1>2, <1>3 DEF SocketList
  <1>5. KeptIn(new) = KeptIn(ss) /\ NoticedIn(new) = {}
    BY <1>1, <1>2, <1>3 DEF KeptIn, NoticedIn
  <1>6. Cardinality(NoticedIn(new)) = 0
    BY <1>5, FS_EmptySet
  <1>7. Accounted(new, t, e)
    BY <1>1, <1>2, <1>3, <1>4, <1>5, <1>6 DEF Accounted
  <1> QED
    BY <1>7 DEF new, s

-----------------------------------------------------------------------------
LEMMA InitInv == Init => IInv
  <1> SUFFICES ASSUME Init PROVE IInv
    OBVIOUS
  <1> DEFINE s == NewSocket("none")
  <1>1. s \in Sockets /\ s.setUp = "none" /\ ~ s.noticed
    BY NewSocketType
  <1>2. /\ sockets = [c \in Chains |-> <<s>>] /\ timers = [c \in Chains |-> 0]
        /\ errors = [c \in Chains |-> 0]
    BY DEF Init
  <1> HIDE DEF s
  <1>3. <<s>> \in Seq(Sockets) /\ Len(<<s>>) = 1 /\ <<s>>[1] = s
    BY <1>1
  <1>4. TypeOK
    BY <1>2, <1>3, ConnectionAssumption DEF Init, TypeOK
  <1>5. Untouched
    BY <1>1, <1>2, <1>3 DEF Untouched, Chains
  <1>6. Accounted(<<s>>, 0, 0)
    <2>1. KeptIn(<<s>>) = {1} /\ NoticedIn(<<s>>) = {}
      BY <1>1, <1>3 DEF KeptIn, NoticedIn
    <2>2. Cardinality({1}) = 1 /\ Cardinality({}) = 0
      BY FS_EmptySet, FS_Singleton
    <2>3. SocketList(<<s>>)
      BY <1>1, <1>3 DEF SocketList
    <2> QED
      BY <1>3, <2>1, <2>2, <2>3 DEF Accounted
  <1> QED
    BY <1>2, <1>4, <1>5, <1>6 DEF IInv

LEMMA SetUpInv == IInv /\ SetUpNext => IInv'
  <1> SUFFICES ASSUME IInv, SetUpNext PROVE IInv'
    OBVIOUS
  <1> DEFINE c == Networks[started + 1]
  <1>1. /\ Len(Networks) \in Nat /\ started \in Nat /\ started < Len(Networks)
        /\ started + 1 \in 1 .. Len(Networks) /\ c \in Chains
        /\ UNCHANGED <<timers, errors>>
    BY DEF SetUpNext, IInv, TypeOK, Chains
  <1>2. PICK x \in {"half", "full"} : sockets' = [sockets EXCEPT ![c][1].setUp = x]
    BY DEF SetUpNext
  <1>3. /\ started' \in 0 .. Len(Networks) /\ started' >= started + 1
        /\ failures' \in 0 .. MaxFailures
    BY <1>1, ConnectionAssumption DEF SetUpNext, Failure, NoFailure, IInv, TypeOK
  <1>4. sockets[c][1].setUp = "none"
    BY <1>1 DEF IInv, Untouched
  <1> HIDE DEF c
  <1> DEFINE new == [sockets[c] EXCEPT ![1].setUp = x]
  <1>5. Accounted(new, timers[c], errors[c])
    BY <1>1, <1>4, SetUpAccounted DEF IInv
  <1>6. sockets' = [sockets EXCEPT ![c] = new]
    BY <1>2
  <1> HIDE DEF new
  <1>7. /\ sockets' \in [Chains -> Seq(Sockets)] /\ sockets'[c] = new
        /\ \A d \in Chains : d # c => sockets'[d] = sockets[d]
    <2>1. new \in Seq(Sockets)
      BY <1>5 DEF Accounted, SocketList
    <2>2. sockets \in [Chains -> Seq(Sockets)] /\ c \in Chains
      BY <1>1 DEF IInv, TypeOK
    <2> QED
      BY <1>6, <2>1, <2>2
  <1>8. TypeOK'
    BY <1>1, <1>3, <1>7 DEF IInv, TypeOK
  <1>9. Untouched'
    <2> SUFFICES ASSUME NEW i \in 1 .. Len(Networks), i > started'
                 PROVE  sockets'[Networks[i]][1].setUp = "none"
      BY DEF Untouched
    <2>1. i # started + 1 /\ i > started /\ Networks[i] \in Chains
      BY <1>1, <1>3 DEF Chains
    <2>2. Networks[i] # c
      BY <1>1, <2>1, ConnectionAssumption DEF c
    <2> QED
      BY <1>7, <2>1, <2>2 DEF IInv, Untouched
  <1>10. \A d \in Chains : Accounted(sockets'[d], timers'[d], errors'[d])
    BY <1>1, <1>5, <1>7 DEF IInv
  <1> QED
    BY <1>8, <1>9, <1>10 DEF IInv

(* A step that leaves the start-up alone, changes the sockets of network c *)
(* into ss, and takes back no set-up.                                      *)
LEMMA NetworkInv ==
    ASSUME IInv, NEW c \in Chains, NEW ss, NEW t, NEW e \in 0 .. MaxErrors,
           Accounted(ss, t, e), ss[1].setUp = sockets[c][1].setUp,
           sockets' = [sockets EXCEPT ![c] = ss], timers' = [timers EXCEPT ![c] = t],
           errors' = [errors EXCEPT ![c] = e], UNCHANGED started,
           failures' \in 0 .. MaxFailures
    PROVE  IInv'
  <1>1. ss \in Seq(Sockets) /\ t \in Nat
    BY DEF Accounted, SocketList
  <1>2. TypeOK'
    BY <1>1 DEF IInv, TypeOK
  <1>3. /\ sockets'[c] = ss /\ timers'[c] = t /\ errors'[c] = e
        /\ \A d \in Chains : d # c => /\ sockets'[d] = sockets[d]
                                      /\ timers'[d] = timers[d] /\ errors'[d] = errors[d]
    BY DEF IInv, TypeOK
  <1>4. Untouched'
    <2> SUFFICES ASSUME NEW i \in 1 .. Len(Networks), i > started
                 PROVE  sockets'[Networks[i]][1].setUp = "none"
      BY DEF Untouched
    <2>1. Networks[i] \in Chains
      BY DEF Chains
    <2> QED
      BY <1>3, <2>1 DEF IInv, Untouched
  <1>5. \A d \in Chains : Accounted(sockets'[d], timers'[d], errors'[d])
    BY <1>3 DEF IInv
  <1> QED
    BY <1>2, <1>4, <1>5 DEF IInv

LEMMA BreakInv ==
    ASSUME IInv, NEW c \in Chains, NEW i \in SocketsOf(c), Break(c, i)
    PROVE  IInv'
  <1> DEFINE ss == [sockets[c] EXCEPT ![i].open = FALSE]
  <1>1. /\ sockets[c] \in Seq(Sockets) /\ timers[c] \in Nat /\ errors[c] \in 0 .. MaxErrors
        /\ Len(sockets[c]) \in Nat /\ Len(sockets[c]) >= 1
        /\ sockets[c][i] \in Sockets
    BY DEF IInv, TypeOK, Accounted, SocketList, SocketsOf
  <1>2. Accounted(ss, timers[c], errors[c])
    BY LossAccounted DEF IInv, SocketsOf
  <1>3. ss[1].setUp = sockets[c][1].setUp
    BY <1>1 DEF SocketsOf, Sockets
  <1>4. /\ sockets' = [sockets EXCEPT ![c] = ss] /\ timers' = [timers EXCEPT ![c] = timers[c]]
        /\ errors' = [errors EXCEPT ![c] = errors[c]] /\ UNCHANGED started
    BY DEF Break, IInv, TypeOK
  <1>5. failures' \in 0 .. MaxFailures
    BY ConnectionAssumption DEF Break, Failure, IInv, TypeOK
  <1> HIDE DEF ss
  <1> QED
    BY <1>1, <1>2, <1>3, <1>4, <1>5, NetworkInv

(* An attempt, from what the error or the timeout that caused it leaves.   *)
LEMMA ReconnectInv ==
    ASSUME IInv, NEW c \in Chains, NEW ss, NEW p, NEW e \in 0 .. MaxErrors,
           Attempting(ss, p, e), Reconnect(c, ss, p),
           ss[1].setUp = sockets[c][1].setUp,
           errors' = [errors EXCEPT ![c] = e], UNCHANGED started
    PROVE  IInv'
  <1>1. failures' \in 0 .. MaxFailures
    <2>1. NoFailure \/ Failure
      BY DEF Reconnect
    <2> QED
      BY <2>1, ConnectionAssumption DEF NoFailure, Failure, IInv, TypeOK
  <1>2. SocketList(ss)
    BY DEF Attempting
  <1>3. PICK new, t : /\ Accounted(new, t, e) /\ new[1] = ss[1]
                      /\ sockets' = [sockets EXCEPT ![c] = new]
                      /\ timers' = [timers EXCEPT ![c] = t]
    <2>1. \A x \in {"none", "half", "full"} : Append(ss, NewSocket(x))[1] = ss[1]
      BY <1>2, AppendCounts
    <2>2. /\ Accounted(Append(ss, NewSocket("full")), p, e)
          /\ Accounted(Append(ss, NewSocket("none")), p, e)
          /\ Accounted(Append(ss, NewSocket("half")), p + 1, e)
          /\ Accounted(ss, p + 1, e)
      BY AttemptAccounted
    <2> QED
      BY <2>1, <2>2 DEF Reconnect
  <1> QED
    BY <1>1, <1>3, NetworkInv

LEMMA OnErrorInv ==
    ASSUME IInv, NEW c \in Chains, NEW i \in SocketsOf(c), OnError(c, i)
    PROVE  IInv'
  <1> DEFINE ss == [sockets[c] EXCEPT ![i].noticed = ~ sockets[c][i].open]
  <1>1. /\ sockets[c] \in Seq(Sockets) /\ Len(sockets[c]) \in Nat /\ Len(sockets[c]) >= 1
        /\ errors[c] \in 0 .. MaxErrors /\ errors[c] < MaxErrors
        /\ sockets[c][i] \in Sockets /\ sockets[c][i].setUp # "none"
    BY DEF OnError, IInv, TypeOK, Accounted, SocketList, SocketsOf
  <1>2. Attempting(ss, timers[c], errors[c] + 1)
    BY <1>1, ErrorAttempts DEF IInv, SocketsOf
  <1>3. ss[1].setUp = sockets[c][1].setUp
    BY <1>1 DEF SocketsOf, Sockets
  <1>4. /\ Reconnect(c, ss, timers[c]) /\ UNCHANGED started
        /\ errors' = [errors EXCEPT ![c] = errors[c] + 1]
    BY DEF OnError
  <1>5. errors[c] + 1 \in 0 .. MaxErrors
    BY <1>1, ConnectionAssumption
  <1> HIDE DEF ss
  <1> QED
    BY <1>2, <1>3, <1>4, <1>5, ReconnectInv

LEMMA OnTimeoutInv ==
    ASSUME IInv, NEW c \in Chains, OnTimeout(c)
    PROVE  IInv'
  <1>1. Attempting(sockets[c], timers[c] - 1, errors[c])
    BY TimeoutAttempts DEF OnTimeout, IInv
  <1>2. /\ Reconnect(c, sockets[c], timers[c] - 1) /\ UNCHANGED started
        /\ errors' = [errors EXCEPT ![c] = errors[c]] /\ errors[c] \in 0 .. MaxErrors
    BY DEF OnTimeout, IInv, TypeOK
  <1> QED
    BY <1>1, <1>2, ReconnectInv

LEMMA NextInv == IInv /\ [Next]_vars => IInv'
  <1> SUFFICES ASSUME IInv, [Next]_vars PROVE IInv'
    OBVIOUS
  <1>1. CASE UNCHANGED vars
    BY <1>1 DEF vars, IInv, TypeOK, Untouched
  <1>2. CASE SetUpNext
    BY <1>2, SetUpInv
  <1>3. ASSUME NEW c \in Chains, OnTimeout(c) PROVE IInv'
    BY <1>3, OnTimeoutInv
  <1>4. ASSUME NEW c \in Chains, NEW i \in SocketsOf(c), Break(c, i) \/ OnError(c, i)
        PROVE  IInv'
    BY <1>4, BreakInv, OnErrorInv
  <1> QED
    BY <1>1, <1>2, <1>3, <1>4 DEF Next, SocketsOf

LEMMA Invariance == Spec => []IInv
  BY InitInv, NextInv, PTL DEF Spec

-----------------------------------------------------------------------------
(* Every variable keeps its type: in particular no timeout is counted      *)
(* that is not pending.                                                    *)
THEOREM TypeCorrect == Spec => []TypeOK
  <1>1. IInv => TypeOK
    BY DEF IInv
  <1> QED
    BY <1>1, Invariance, PTL

(* The sets the properties count are those of the accounts. *)
LEMMA SameSets ==
    ASSUME NEW c
    PROVE  /\ Kept(c) = KeptIn(sockets[c]) /\ Noticed(c) = NoticedIn(sockets[c])
           /\ Subscribed(c) \subseteq Kept(c)
  BY DEF Kept, KeptIn, Noticed, NoticedIn, Subscribed, SocketsOf

(* Every error event leads to one socket more, now or after the timeouts   *)
(* that are pending, besides those that throwing set-ups leave behind,     *)
(* whatever the order of losses, errors, attempts and timeouts.            *)
THEOREM AttemptsConserved == Spec => []OneAttemptPerError
  <1>1. IInv => OneAttemptPerError
    BY SameSets DEF IInv, Accounted, OneAttemptPerError
  <1> QED
    BY <1>1, Invariance, PTL

(* A log is heard once, and once more per error event that is not the      *)
(* first after the loss of a subscription.                                 *)
THEOREM HeardOnce == Spec => []HeardOncePerAlarm
  <1>1. IInv => HeardOncePerAlarm
    <2> SUFFICES ASSUME IInv, NEW c \in Chains
                 PROVE  Cardinality(Live(c)) <= 1 + (errors[c] - Cardinality(Noticed(c)))
      BY DEF HeardOncePerAlarm
    <2>1. /\ Accounted(sockets[c], timers[c], errors[c])
          /\ timers[c] \in Nat /\ errors[c] \in Nat
          /\ IsFiniteSet(Kept(c)) /\ Cardinality(Kept(c)) \in Nat
          /\ IsFiniteSet(Noticed(c)) /\ Cardinality(Noticed(c)) \in Nat
      BY SameSets, CountsFinite DEF IInv, Accounted, SocketList
    <2>2. Live(c) \subseteq Kept(c) /\ Noticed(c) \subseteq Kept(c)
      BY SameSets DEF Live, Noticed
    <2>3. Live(c) \cap Noticed(c) = {}
      BY <2>1 DEF Accounted, SocketList, Live, Noticed, Subscribed, SocketsOf
    <2>4. IsFiniteSet(Live(c)) /\ Cardinality(Live(c)) \in Nat
      BY <2>1, <2>2, FS_Subset, FS_CardinalityType
    <2>5. Cardinality(Live(c) \cup Noticed(c)) = Cardinality(Live(c)) + Cardinality(Noticed(c))
      <3>1. Cardinality(Live(c) \cap Noticed(c)) = 0
        BY <2>3, FS_EmptySet
      <3>2. Cardinality(Live(c) \cup Noticed(c)) =
               Cardinality(Live(c)) + Cardinality(Noticed(c)) - Cardinality(Live(c) \cap Noticed(c))
        BY <2>1, <2>4, FS_Union
      <3> QED
        BY <2>1, <2>4, <3>1, <3>2
    <2>6. Cardinality(Live(c) \cup Noticed(c)) <= Cardinality(Kept(c))
      BY <2>1, <2>2, FS_Subset
    <2>7. Cardinality(Kept(c)) + timers[c] = 1 + errors[c]
      BY <2>1, SameSets DEF Accounted
    <2> QED
      BY <2>1, <2>4, <2>5, <2>6, <2>7
  <1> QED
    BY <1>1, Invariance, PTL

(* A node that knows all its losses and hears nothing has an attempt       *)
(* pending, unless an earlier one dropped its provider: if every           *)
(* subscription was lost and noticed, the errors outnumber the sockets     *)
(* they led to.                                                            *)
THEOREM DeafOnlyWhenDropped == Spec => []DeafOnlyByDroppedProvider
  <1>1. IInv => DeafOnlyByDroppedProvider
    <2> SUFFICES ASSUME IInv, NEW c \in Chains, KnowsItIsDeaf(c), ~ Dropped(c)
                 PROVE  timers[c] > 0
      BY DEF DeafOnlyByDroppedProvider
    <2> DEFINE ss == sockets[c]
    <2>1. /\ Accounted(ss, timers[c], errors[c]) /\ timers[c] \in Nat /\ errors[c] \in Nat
          /\ ss \in Seq(Sockets) /\ Len(ss) \in Nat /\ Len(ss) >= 1
          /\ IsFiniteSet(NoticedIn(ss)) /\ Cardinality(NoticedIn(ss)) \in Nat
          /\ Cardinality(KeptIn(ss)) + timers[c] = 1 + errors[c]
          /\ Cardinality(NoticedIn(ss)) <= errors[c]
      BY CountsFinite DEF IInv, Accounted, SocketList
    <2>2. /\ Noticed(c) = NoticedIn(ss)
          /\ Subscribed(c) = Noticed(c) /\ Subscribed(c) # {}
      BY SameSets DEF KnowsItIsDeaf
    <2>3. \A i \in 1 .. Len(ss) : ss[i] \in Sockets /\ ss[i].setUp # "none"
      BY <2>1 DEF Dropped, SocketsOf
    <2>4. KeptIn(ss) = NoticedIn(ss) \cup {1}
      BY <2>1, <2>2, <2>3 DEF KeptIn, Subscribed, SocketsOf, Sockets
    <2>5. CASE ss[1].setUp = "full"
      <3>1. 1 \in NoticedIn(ss)
        BY <2>1, <2>2, <2>5 DEF Subscribed, SocketsOf
      <3>2. KeptIn(ss) = NoticedIn(ss)
        BY <2>4, <3>1
      <3> QED
        BY <2>1, <3>2
    <2>6. CASE ss[1].setUp # "full"
      <3>1. 1 \notin NoticedIn(ss)
        BY <2>6 DEF NoticedIn
      <3>2. Cardinality(KeptIn(ss)) = Cardinality(NoticedIn(ss)) + 1
        BY <2>1, <2>4, <3>1, FS_AddElement
      <3>3. Len(ss) # 1
        BY <2>2, <2>6 DEF Subscribed, SocketsOf
      <3>4. Cardinality(NoticedIn(ss)) < errors[c]
        BY <2>1, <2>6, <3>3 DEF Accounted
      <3> QED
        BY <2>1, <3>2, <3>4
    <2> QED
      BY <2>5, <2>6
  <1> QED
    BY <1>1, Invariance, PTL
=============================================================================
