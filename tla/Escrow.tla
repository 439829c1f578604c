------------------------------- MODULE Escrow -------------------------------
(***************************************************************************)
(* What the custody of a token promises, in value: nothing about chains,   *)
(* units or number formats.  A reserve is held for what circulates; value  *)
(* moves from the one to the other and back.  What a transfer says of its  *)
(* value is off by a few parts in the precision of the numbers at most,    *)
(* and on the way                                                          *)
(*   - a transfer that cannot be read loses all of it,                     *)
(*   - a transfer of more than the destination can pay loses all of it,    *)
(*   - any other loses less than one unit, and none gains.                 *)
(* No transfer fails because the reserve does not suffice, unless earlier  *)
(* ones said more than their value.                                        *)
(***************************************************************************)
EXTENDS Integers

CONSTANTS
    Limit,          \* a destination can pay fewer units than this
    Precision       \* of the numbers that transfers are written in

VARIABLES
    unit,           \* value of the coarsest unit
    reserve,        \* value held
    circulating,    \* value issued for it
    outbound,       \* value on the way from the reserve, as its transfer says
    returning,      \* value on the way back, as its transfer says
    gained          \* what transfers said beyond their value, in total

Init ==
    /\ unit \in Nat \ {0}
    /\ reserve = 0
    /\ circulating = 0
    /\ outbound = 0
    /\ returning = 0
    /\ gained = 0

(* A value is said to be n. *)
Near(n, value) ==
    /\ Precision * n <= Precision * value + 4 * value
    /\ Precision * value <= Precision * n + 4 * value

(* A transfer of a value says n, or nothing that can be read.              *)
Says(value, n) ==
    /\ n = 0 \/ Near(n, value)
    /\ gained' = gained + IF n > value THEN n - value ELSE 0

(* A payment for what was sent, less than one unit short. *)
Settles(sent, paid) == paid \in 0 .. sent /\ sent < paid + unit

Deposit ==
    /\ outbound = 0
    /\ reserve' > reserve
    /\ Says(reserve' - reserve, outbound')
    /\ UNCHANGED <<unit, circulating, returning>>

Issue ==
    /\ Settles(outbound, circulating' - circulating)
    /\ outbound' = 0
    /\ UNCHANGED <<unit, reserve, returning, gained>>

Redeem ==
    /\ returning = 0
    /\ circulating' \in 0 .. circulating - 1
    /\ Says(circulating - circulating', returning')
    /\ UNCHANGED <<unit, reserve, outbound>>

Release ==
    /\ reserve' >= 0
    /\ Settles(returning, reserve - reserve')
    /\ returning' = 0
    /\ UNCHANGED <<unit, circulating, outbound, gained>>

Void ==
    \/ /\ outbound >= Limit * unit
       /\ outbound' = 0
       /\ UNCHANGED <<unit, reserve, circulating, returning, gained>>
    \/ /\ \/ returning >= Limit * unit
          \/ returning > reserve /\ gained > 0
       /\ returning' = 0
       /\ UNCHANGED <<unit, reserve, circulating, outbound, gained>>

Next == Deposit \/ Issue \/ Redeem \/ Release \/ Void

Spec == Init /\ [][Next]_<<unit, reserve, circulating, outbound, returning, gained>>
=============================================================================
