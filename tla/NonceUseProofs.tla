--------------------------- MODULE NonceUseProofs ---------------------------
(***************************************************************************)
(* That the rules of NonceUse are enough: no pair is used twice.           *)
(***************************************************************************)
EXTENDS NonceUse, TLAPS

\* A pair that may still be used exists and was not used yet.
UseInv ==
    /\ uses \in [Nonces -> Nat] /\ kept \subseteq made
    /\ \A n \in Nonces : uses[n] <= 1
    /\ \A n \in Nonces : n \notin made \/ n \in kept => uses[n] = 0

\* No sequence of making, dropping and using pairs makes two partial signatures
\* with one (frost.ts, round2Sign).
THEOREM OnceOnly == Spec => []UsedOnce
<1>1. Init => UseInv
  BY DEF Init, UseInv
<1>2. UseInv /\ [Next]_vars => UseInv'
  <2> SUFFICES ASSUME UseInv, [Next]_vars PROVE UseInv'
    OBVIOUS
  <2>1. ASSUME NEW n \in Nonces, Make(n) PROVE UseInv'
    BY <2>1 DEF UseInv, Make
  <2>2. ASSUME NEW n \in Nonces, Use(n) PROVE UseInv'
    BY <2>2 DEF UseInv, Use
  <2>3. CASE Drop
    BY <2>3 DEF UseInv, Drop
  <2>4. CASE UNCHANGED vars
    BY <2>4 DEF UseInv, vars
  <2> QED
    BY <2>1, <2>2, <2>3, <2>4 DEF Next
<1>3. UseInv => UsedOnce
  BY DEF UseInv, UsedOnce
<1> QED
  BY <1>1, <1>2, <1>3, PTL DEF Spec
=============================================================================
