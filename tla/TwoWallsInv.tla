----------------------------- MODULE TwoWallsInv -----------------------------
(***************************************************************************)
(* The inductive invariant behind the theorems of TwoWallsProofs.  None of *)
(* its parts depends on RequestCap: they hold for a requestId that is run  *)
(* again while its first run is still in flight.                           *)
(***************************************************************************)
EXTENDS TwoWalls

Paid(p) == p <= nruns /\ Confirmed(p)

\* Nothing happens on behalf of a run that has not started.
InvStarted ==
    /\ \A p \in Runs : pc[p] # "idle" => p <= nruns
    /\ \A m \in net : m.run <= nruns

\* A member that is about to sign, or has signed, has seen the bank's signature.
InvPaid ==
    /\ \A h \in signing : Paid(h.run)
    /\ \A p \in Runs : partials[p] # {} => Paid(p)

\* Steps of a run before it asks for attestations.
Early == {"idle", "preflight", "debit", "publish", "approvers"}

\* Attestations whose submission threw and that may yet land.
Attesting == {t \in pending : t.what \in Verdicts}

\* One validate call per run and member: a member is asked, then at work, then
\* has attested or may yet, and never in two of these at once.
InvAttest ==
    /\ \A p \in Runs : pc[p] \in Early =>
          /\ \A m \in net : m.kind = "validate" => m.run # p
          /\ \A h \in checking : h.run # p
          /\ \A t \in pending : t.run # p
          /\ \A s \in Signers : approvals[p][s] = "none"
    /\ \A m \in net : m.kind = "validate" =>
          /\ approvals[m.run][m.to] = "none"
          /\ \A h \in checking : h.run # m.run \/ h.by # m.to
          /\ \A t \in Attesting : t.run # m.run \/ t.by # m.to
    /\ \A h \in checking :
          /\ approvals[h.run][h.by] = "none"
          /\ \A t \in Attesting : t.run # h.run \/ t.by # h.by
    /\ \A g, h \in checking : g.run = h.run /\ g.by = h.by => g = h
    /\ \A t \in Attesting : approvals[t.run][t.by] = "none"
    /\ \A t, u \in Attesting : t.run = u.run /\ t.by = u.by => t = u

\* A partial is never ahead of the quorum on the ledger.
InvQuorum ==
    \A p \in Runs : partials[p] # {} => Cardinality(Approvers(p)) >= T

\* A ceremony always has T participants.
InvChosen ==
    \A p \in Runs : pc[p] \in {"round1", "round2"} => Cardinality(chosen[p]) = T

\* The ceremony keeps count: whoever is no longer awaited has signed.
InvCeremony ==
    \A p \in Runs :
        /\ pc[p] \in {"round1", "round2"} => ~token[p]
        /\ pc[p] = "round2" => chosen[p] \ waiting[p] \subseteq partials[p]
        /\ reply[p].is = "partial" => reply[p].from \in partials[p]
        /\ pc[p] \in Early \cup {"gather", "poll"} => ~token[p]
        /\ token[p] => Cardinality(chosen[p]) = T /\ chosen[p] \subseteq partials[p]

\* The receipt follows the token, the delivery follows the receipt.
InvReceipt ==
    /\ \A p \in Runs : pc[p] \in {"prepare", "fragment", "submit"} => token[p]
    /\ \A p \in Runs : p \in receipts \/ Receipt(p) \in pending => token[p]
    /\ \A p \in Runs : status[p] = "DELIVERED" => p \in receipts

IInv ==
    /\ TypeOK
    /\ InvStarted
    /\ InvPaid
    /\ InvAttest
    /\ InvQuorum
    /\ InvChosen
    /\ InvCeremony
    /\ InvReceipt
=============================================================================
