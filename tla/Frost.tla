------------------------------- MODULE Frost -------------------------------
(***************************************************************************)
(* frost/frost.ts: keys from a trusted dealer, the two rounds of a signing *)
(* ceremony, verification of the partials, the aggregate.                  *)
(*                                                                         *)
(* The group is abstract: a point is its discrete logarithm to the base G, *)
(* so that adding points adds scalars and equal points are equal scalars.  *)
(* Ed25519's order is a small prime here.  The hashes are a random oracle: *)
(* what it answers for the commitment list of a ceremony is any of Hashes. *)
(* Hexadecimal and bytes are left out; reduction modulo L is not.          *)
(***************************************************************************)
EXTENDS Integers, FiniteSets, SequencesExt

CONSTANTS
    L,             \* the order of the group
    Total,         \* n, the number of shares dealt
    Thresholds,    \* t, as the dealer may be asked
    Coefficients,  \* bound: values of randomScalar
    Nonces,        \* bound: pairs of nonces a member may draw
    Hashes,        \* bound: values of H1 and H2
    Liars          \* bound: members whose partial is not what round2Sign gives

Scalars == 0 .. L - 1
Members == 1 .. Total

ASSUME FrostAssumption ==
    /\ Liars \in Nat
    /\ L \in Nat /\ L > 2 /\ \A d \in 2 .. L - 1 : L % d # 0
    /\ Total \in 1 .. L - 1 /\ Thresholds \subseteq 1 .. Total
    /\ Coefficients \subseteq Scalars \ {0} /\ Hashes \subseteq Scalars
    /\ Nonces \subseteq [hiding : Scalars \ {0}, binding : Scalars \ {0}]

VARIABLES
    keys,          \* what the dealer gave out, NoKeys before
    nonces,        \* each member's nonces of this ceremony
    list,          \* the commitment list of this ceremony
    rho, c,        \* what the oracle answers for it
    partials,      \* partials the coordinator has, in the order of the list
    tampered,      \* members whose partial is not what round2Sign gave
    signature      \* the aggregate, NoSignature before

vars == <<keys, nonces, list, rho, c, partials, tampered, signature>>

NoKeys == [t |-> 0]
NoSignature == [none |-> TRUE]

-----------------------------------------------------------------------------
(* Arithmetic modulo the group order *)

mod(a) == a % L

\* Square and multiply.
modPow(base, exp) ==
    LET power[e \in 0 .. exp] ==
            IF e = 0 THEN 1
            ELSE mod(power[e \div 2] * power[e \div 2] * (IF e % 2 = 1 THEN base ELSE 1))
    IN power[exp]

invert(a) == modPow(mod(a), L - 2)

\* Mutant of lagrangeCoefficient: over all members, not over the participants.
LagrangeOverAll(id, ids) ==
    LET others == Members \ {id}
    IN mod(ProductSet(others) * invert(ProductSet({j - id : j \in others})))

\* Of participant id among ids, evaluated at 0.
lagrangeCoefficient(id, ids) ==
    LET others == ids \ {id}
    IN mod(ProductSet(others) * invert(ProductSet({j - id : j \in others})))
-----------------------------------------------------------------------------
(* Derivations both sides make from the commitment list *)

Participants == {list[i].identifier : i \in DOMAIN list}
Duplicates == Cardinality(Participants) # Len(list)

CommitmentOf(id) == list[CHOOSE i \in DOMAIN list : list[i].identifier = id]

\* Mutant of groupCommitment: the binding commitments are left out.
GroupCommitmentUnbound ==
    mod(SumFunction([id \in Participants |-> CommitmentOf(id).hiding]))

groupCommitment ==
    mod(SumFunction([id \in Participants |->
                        CommitmentOf(id).hiding + CommitmentOf(id).binding * rho[id]]))

\* Mutant of CommitmentMatches: a member signs for whatever the list says of it.
AnyCommitment(id) == ~Duplicates

\* round2Sign's integrity check; it also refuses a list with duplicates.
CommitmentMatches(id) ==
    ~Duplicates /\ CommitmentOf(id) = [identifier |-> id, hiding |-> nonces[id].hiding,
                                       binding |-> nonces[id].binding]

round2Sign(id) ==
    mod(nonces[id].hiding + nonces[id].binding * rho[id]
        + lagrangeCoefficient(id, Participants) * keys.shares[id] * c)

\* Mutant of verifySignatureShare: the Lagrange coefficient is left out.
VerifyWithoutLambda(share) ==
    share.zi = mod(CommitmentOf(share.identifier).hiding
                   + CommitmentOf(share.identifier).binding * rho[share.identifier]
                   + c * keys.shares[share.identifier])

\* zi G = D + rho E + (c lambda) Y, with Y the member's verification share.
verifySignatureShare(share) ==
    share.zi = mod(CommitmentOf(share.identifier).hiding
                   + CommitmentOf(share.identifier).binding * rho[share.identifier]
                   + mod(c * lagrangeCoefficient(share.identifier, Participants))
                     * keys.shares[share.identifier])

\* Ed25519's verification: z G = R + c A.  The oracle answers c for this R.
verifySignature(sig) == sig.z = mod(sig.R + c * keys.groupPublicKey)
-----------------------------------------------------------------------------
Init ==
    /\ keys = NoKeys
    /\ nonces = <<>> /\ list = <<>> /\ rho = <<>> /\ c = 0
    /\ partials = <<>> /\ tampered = {} /\ signature = NoSignature

\* Mutant of Coeffs: a polynomial of one degree less.
CoeffsShort(t) == [1 .. t - 1 -> Coefficients]

\* The secret and t - 1 more coefficients, each a randomScalar: not zero.
Coeffs(t) == [1 .. t -> Coefficients]

\* f(x), the share of x for x > 0 and the group secret for x = 0.
Evaluate(f, x) == mod(SumFunction([k \in DOMAIN f |-> f[k] * modPow(x, k - 1)]))

\* A share that is zero has no verification share: G.multiply throws.
trustedDealerKeygen(t) ==
    /\ keys = NoKeys
    /\ \E f \in Coeffs(t) :
         /\ \A id \in Members : Evaluate(f, id) # 0
         /\ keys' = [t |-> t, shares |-> [id \in Members |-> Evaluate(f, id)],
                     groupPublicKey |-> f[1]]
    /\ UNCHANGED <<nonces, list, rho, c, partials, tampered, signature>>

\* The lists a coordinator may send: the members' commitments in any order,
\* with an entry of its own making, or with one entry twice.
Lists(made) ==
    LET Entry(id) == [identifier |-> id, hiding |-> made[id].hiding, binding |-> made[id].binding]
        plain(ids) == [i \in DOMAIN ids |-> Entry(ids[i])]
        MadeOf(ids) == {plain(ids), Append(plain(ids), plain(ids)[1])}
                         \cup {[plain(ids) EXCEPT ![1].hiding = p.hiding] : p \in Nonces}
    IN UNION {MadeOf(ids) : ids \in SetToSeqs(DOMAIN made)}

\* H1 and H2 are applied to the whole list, which no ceremony has seen before.
bindingFactors(ids) == [ids -> Hashes]
challenge == Hashes

\* round1 of each participant, and a list made of the commitments.
round1(ids) ==
    /\ keys # NoKeys
    /\ list = <<>>
    /\ \E made \in [ids -> Nonces] :
         /\ nonces' = made
         /\ list' \in Lists(made)
    /\ rho' \in bindingFactors(ids) /\ c' \in challenge
    /\ UNCHANGED <<keys, partials, tampered, signature>>

Answer(i, zi) ==
    partials' = Append(partials, [identifier |-> list[i].identifier, zi |-> zi])

\* A member answers with what round2Sign gives, or with something else.
SignShare ==
    LET i == Len(partials) + 1
    IN /\ i <= Len(list)
       /\ \/ /\ CommitmentMatches(list[i].identifier)
             /\ Answer(i, round2Sign(list[i].identifier))
             /\ UNCHANGED tampered
          \/ /\ Cardinality(tampered) < Liars
             /\ \E zi \in Scalars \ {round2Sign(list[i].identifier)} : Answer(i, zi)
             /\ tampered' = tampered \cup {list[i].identifier}
       /\ UNCHANGED <<keys, nonces, list, rho, c, signature>>

\* sortedCommitments throws on a duplicate; the shares must be as many.
aggregate ==
    /\ list # <<>> /\ ~Duplicates /\ Len(partials) = Len(list)
    /\ signature = NoSignature
    /\ signature' = [R |-> groupCommitment,
                     z |-> mod(SumFunction([i \in DOMAIN partials |-> partials[i].zi]))]
    /\ UNCHANGED <<keys, nonces, list, rho, c, partials, tampered>>

\* The ceremony is over, or given up at a refusal.
EndCeremony ==
    /\ list # <<>>
    /\ nonces' = <<>> /\ list' = <<>> /\ rho' = <<>> /\ c' = 0
    /\ partials' = <<>> /\ tampered' = {} /\ signature' = NoSignature
    /\ UNCHANGED keys

Next ==
    \/ \E t \in Thresholds : trustedDealerKeygen(t)
    \/ \E ids \in (SUBSET Members) \ {{}} : round1(ids)
    \/ SignShare \/ aggregate \/ EndCeremony

Spec == Init /\ [][Next]_vars
-----------------------------------------------------------------------------
\* The entry of the list is the commitment the member made.
Genuine(id) == CommitmentOf(id).hiding = nonces[id].hiding

\* pipeline.ts:179 names a member FAULTY when its partial does not verify: this
\* never happens to a member that followed the protocol, whatever the list says
\* of it, and always to one that answered something else for its commitment.
BadShareFound ==
    \A i \in DOMAIN partials :
        LET id == partials[i].identifier
        IN ~Duplicates => /\ id \notin tampered => verifySignatureShare(partials[i])
                          /\ id \in tampered /\ Genuine(id) => ~verifySignatureShare(partials[i])

\* The partials of t members or more, whichever they are, make a signature that
\* verifies if each of them does: pipeline.ts:193 rejects nothing that passed line
\* 179.  A single one that does not is never hidden by the others; two may be.
VerifiedSharesSign ==
    signature # NoSignature /\ Len(partials) >= keys.t
    => LET bad == {i \in DOMAIN partials : ~verifySignatureShare(partials[i])}
       IN /\ bad = {} => verifySignature(signature)
          /\ Cardinality(bad) = 1 => ~verifySignature(signature)

\* frost.ts:6: one member less than t makes no signature that verifies, unless
\* the challenge happens to be zero.
BelowThresholdFails ==
    /\ signature # NoSignature
    /\ Len(partials) = keys.t - 1 /\ tampered = {} /\ c # 0
    => ~verifySignature(signature)
=============================================================================
