----------------------------- MODULE Connection -----------------------------
(***************************************************************************)
(* How one node stays subscribed to its Ethereum networks: the sockets it  *)
(* opens for each, the start-up loop over the networks, and reconnections  *)
(* after an error of a socket.  What a subscribed node does with the logs  *)
(* is in BridgeRelay; a network nobody listens to is its fault "miss", two *)
(* live subscriptions its fault "duplicate".                               *)
(***************************************************************************)
EXTENDS Naturals, Sequences, FiniteSets

CONSTANTS
    Networks,       \* the configured networks, in order
    Outcomes,       \* how an attempt to reconnect may end
    MaxFailures,    \* bound: sockets that break, calls that throw
    MaxErrors       \* bound: error events per network

ASSUME ConnectionAssumption ==
    /\ Len(Networks) \in Nat /\ MaxFailures \in Nat /\ MaxErrors \in Nat
    /\ \A i, j \in 1 .. Len(Networks) : Networks[i] = Networks[j] => i = j

VARIABLES
    started,        \* how many networks the start-up loop is done with
    sockets,        \* network -> the WebSocket providers opened for it
    timers,         \* network -> reconnections waiting for a timeout
    failures,       \* failures so far
    errors          \* network -> error events its sockets emitted so far

vars == <<started, sockets, timers, failures, errors>>

Chains == {Networks[i] : i \in 1 .. Len(Networks)}

(* setUp: how far setupEventListeners got.  "half" has the keep-alive      *)
(* interval and the error handler, "full" the contract's listeners too;    *)
(* nothing takes any of them back.  noticed: the error handler was called  *)
(* after the connection was lost.                                          *)
Sockets == [open : BOOLEAN, setUp : {"none", "half", "full"}, noticed : BOOLEAN]

TypeOK ==
    /\ started \in 0 .. Len(Networks)
    /\ sockets \in [Chains -> Seq(Sockets)]
    /\ timers \in [Chains -> Nat]
    /\ failures \in 0 .. MaxFailures
    /\ errors \in [Chains -> 0 .. MaxErrors]

NewSocket(setUp) == [open |-> TRUE, setUp |-> setUp, noticed |-> FALSE]

(* The constructor opens a socket to every network. *)
Init ==
    /\ started = 0
    /\ sockets = [c \in Chains |-> <<NewSocket("none")>>]
    /\ timers = [c \in Chains |-> 0]
    /\ failures = 0
    /\ errors = [c \in Chains |-> 0]

Failure == failures < MaxFailures /\ failures' = failures + 1

NoFailure == UNCHANGED failures

(* setupAllEventListeners, one network at a time.  The loop ends with the  *)
(* first network whose contract cannot be made, which has its interval and *)
(* its error handler by then; the module logs it and the node runs.        *)
SetUpNext ==
    /\ started < Len(Networks)
    /\ LET c == Networks[started + 1]
       IN  \/ /\ NoFailure
              /\ started' = started + 1
              /\ sockets' = [sockets EXCEPT ![c][1].setUp = "full"]
           \/ /\ Failure
              /\ started' = Len(Networks)
              /\ sockets' = [sockets EXCEPT ![c][1].setUp = "half"]
    /\ UNCHANGED <<timers, errors>>

(* A connection is lost.  The node learns it from an error event, if at    *)
(* all: a socket that only closes tells nobody.                            *)
Break(c, i) ==
    /\ sockets[c][i].open
    /\ Failure
    /\ sockets' = [sockets EXCEPT ![c][i].open = FALSE]
    /\ UNCHANGED <<started, timers, errors>>

-----------------------------------------------------------------------------
(* Variants: a provider that throws is not tried again; every attempt is   *)
(* followed by another.                                                    *)
Reconnect_NoRetry(c, ss, pending) ==
    /\ timers' = [timers EXCEPT ![c] = pending]
    /\ \/ /\ NoFailure
          /\ sockets' = [sockets EXCEPT ![c] = Append(ss, NewSocket("full"))]
       \/ /\ Failure
          /\ sockets' = [sockets EXCEPT ![c] = ss]

Reconnect_AlwaysRetry(c, ss, pending) ==
    /\ timers' = [timers EXCEPT ![c] = pending + 1]
    /\ sockets' = [sockets EXCEPT ![c] = Append(ss, NewSocket("full"))]
    /\ Failure

(* reconnectWebSocket, from a list ss of sockets and a number of pending   *)
(* timeouts.  A provider that is not ready yet is left open and forgotten; *)
(* one that cannot be created, or set up to the end, leads to another      *)
(* attempt, the latter with its socket, interval and handler left behind.  *)
Reconnect(c, ss, pending) ==
    LET Leave(left, waiting) ==
            /\ sockets' = [sockets EXCEPT ![c] = left]
            /\ timers' = [timers EXCEPT ![c] = waiting]
    IN  \/ /\ "ready" \in Outcomes /\ NoFailure
           /\ Leave(Append(ss, NewSocket("full")), pending)
        \/ /\ "not ready" \in Outcomes /\ NoFailure
           /\ Leave(Append(ss, NewSocket("none")), pending)
        \/ /\ "throws" \in Outcomes /\ Failure
           /\ Leave(ss, pending + 1)
        \/ /\ "set-up throws" \in Outcomes /\ Failure
           /\ Leave(Append(ss, NewSocket("half")), pending + 1)

(* A variant: the handler takes over an attempt that is waiting.           *)
OnError_TakesOver(c, i) ==
    /\ sockets[c][i].setUp # "none" /\ errors[c] < MaxErrors
    /\ errors' = [errors EXCEPT ![c] = @ + 1]
    /\ Reconnect(c, [sockets[c] EXCEPT ![i].noticed = ~ sockets[c][i].open],
                 timers[c] - 1)
    /\ UNCHANGED started

(* The error handler, which is never removed: it answers every error event *)
(* of its provider alike, the first after a loss, one that is repeated and *)
(* one of a socket that lives on.                                          *)
OnError(c, i) ==
    /\ sockets[c][i].setUp # "none" /\ errors[c] < MaxErrors
    /\ errors' = [errors EXCEPT ![c] = @ + 1]
    /\ Reconnect(c, [sockets[c] EXCEPT ![i].noticed = ~ sockets[c][i].open], timers[c])
    /\ UNCHANGED started

OnTimeout(c) ==
    /\ timers[c] > 0
    /\ Reconnect(c, sockets[c], timers[c] - 1)
    /\ UNCHANGED <<started, errors>>

-----------------------------------------------------------------------------
Next ==
    \/ SetUpNext
    \/ \E c \in Chains : OnTimeout(c)
    \/ \E c \in Chains : \E i \in 1 .. Len(sockets[c]) : Break(c, i) \/ OnError(c, i)

Spec == Init /\ [][Next]_vars

(* Timeouts fire.  That failures stop at some point is in their bound.     *)
FairSpec == Spec /\ \A c \in Chains : WF_vars(OnTimeout(c))

-----------------------------------------------------------------------------
SocketsOf(c) == 1 .. Len(sockets[c])

Subscribed(c) == {i \in SocketsOf(c) : sockets[c][i].setUp = "full"}

Live(c) == {i \in Subscribed(c) : sockets[c][i].open}

(* The lost subscriptions the node was told of. *)
Noticed(c) == {i \in Subscribed(c) : sockets[c][i].noticed}

(* The node was subscribed to c, and has been told of every loss. *)
KnowsItIsDeaf(c) == Subscribed(c) # {} /\ Noticed(c) = Subscribed(c)

(* An attempt found its new provider not ready. *)
Dropped(c) == \E i \in SocketsOf(c) : sockets[c][i].setUp = "none"

(* The one way to end up deaf, told of it and not trying: a new provider   *)
(* that was not ready when reconnectWebSocket looked.  Every other failed  *)
(* attempt leaves a timeout behind, however losses, errors and retries     *)
(* overlap and wherever an attempt or the start-up threw.                  *)
DeafOnlyByDroppedProvider ==
    \A c \in Chains :
        KnowsItIsDeaf(c) => timers[c] > 0 \/ Dropped(c)

(* Listeners are never removed, so a reconnection should replace a         *)
(* subscription that is gone.  One that answers the first error after such *)
(* a loss does; every other error event (repeated, of a socket that lives  *)
(* on, of one that was set up by half) may have the node hear each log     *)
(* once more.  Retries and timeouts, in whatever order, never do.          *)
HeardOncePerAlarm ==
    \A c \in Chains :
        Cardinality(Live(c)) <= 1 + (errors[c] - Cardinality(Noticed(c)))

(* The sockets that are not left over from a set-up that threw. *)
Kept(c) == {i \in SocketsOf(c) : i = 1 \/ sockets[c][i].setUp # "half"}

(* Every error event is answered by one attempt, which ends in one socket  *)
(* more, however often it is put off: none is forgotten and none counts    *)
(* twice.  Sockets and their keep-alive intervals are never closed, so     *)
(* this is also how many a node ends up with: one per error event, and one *)
(* per retry whose set-up threw.                                           *)
OneAttemptPerError ==
    \A c \in Chains : Cardinality(Kept(c)) + timers[c] = 1 + errors[c]

(* A loss that was noticed is repaired, if no new provider is dropped. *)
HeardAgain == \A c \in Chains : KnowsItIsDeaf(c) ~> Live(c) # {} \/ Dropped(c)
=============================================================================
