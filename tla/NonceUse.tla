------------------------------ MODULE NonceUse ------------------------------
(***************************************************************************)
(* What FROST asks of a signer's nonces, whatever the service does around  *)
(* them: a pair is made once; while it is kept it may make one partial     *)
(* signature; once it has, or was dropped, it is never used again.         *)
(***************************************************************************)
EXTENDS Naturals

CONSTANT Nonces

VARIABLES
    made,          \* pairs that exist
    kept,          \* pairs that may still be used
    uses           \* uses[n]: partial signatures made with pair n

vars == <<made, kept, uses>>

Init == made = {} /\ kept = {} /\ uses = [n \in Nonces |-> 0]

\* A new pair; the signer may drop others at the same time.
Make(n) ==
    /\ n \notin made
    /\ made' = made \cup {n}
    /\ n \in kept' /\ kept' \subseteq kept \cup {n}
    /\ UNCHANGED uses

Use(n) ==
    /\ n \in kept
    /\ uses' = [uses EXCEPT ![n] = @ + 1]
    /\ kept' \subseteq kept \ {n}
    /\ UNCHANGED made

Drop == kept' \subseteq kept /\ UNCHANGED <<made, uses>>

Next == (\E n \in Nonces : Make(n) \/ Use(n)) \/ Drop

Spec == Init /\ [][Next]_vars
-----------------------------------------------------------------------------
\* What it comes to: one pair never makes two partial signatures, from which
\* the member's share could be computed.
UsedOnce == \A n \in Nonces : uses[n] <= 1
=============================================================================
