--------------------------- MODULE KeyCeremonies ---------------------------
(***************************************************************************)
(* The two one-time ceremonies of server/src/scripts: setup-keys.ts deals  *)
(* the FROST shares and the bank's key pair, setup-xrpl.ts makes the       *)
(* consortium's accounts on the ledger.  Either may stop at any step       *)
(* (killed, a ledger failure, an answer that is lost) and be run again.    *)
(*                                                                         *)
(* Every run makes everything anew: run g's keys are known by the number   *)
(* g.  A file holds the number of the run that wrote it.                   *)
(***************************************************************************)
EXTENDS Naturals, FiniteSets, SequencesExt

CONSTANTS
    N,             \* consortium members
    Quorum,        \* XRPL_MULTISIGN_QUORUM
    MaxAttempts,   \* attempts of fundNew, 4 in the code
    MaxRuns        \* bound: runs of each script

ASSUME CeremonyAssumption ==
    /\ N \in Nat \ {0} /\ Quorum \in 1 .. N
    /\ MaxAttempts \in Nat \ {0} /\ MaxRuns \in Nat

VARIABLES
    run,           \* run[s]: number of the last run of script s
    stage,         \* stage[s]: what that run does
    written,       \* written[s]: number of files it has written
    attempts,      \* failed attempts to fund the next account
    funded,        \* accounts it has funded: the members', then the authority
    authority,     \* authority[g]: the authority account of run g of setup-xrpl
    disk,          \* disk[f]: run that wrote file f, 0 if there is none
    torn           \* scripts whose last run to write a file did not write all

vars == <<run, stage, written, attempts, funded, authority, disk, torn>>

Scripts == {"keys", "xrpl"}
Members == 1 .. N
Runs == 1 .. MaxRuns

\* The files of each script, in the order of the code.
KeysFiles == <<<<"group", 0>>>> \o [i \in Members |-> <<"signer", i>>]
                                \o <<<<"bank", 0>>, <<"bank.pub", 0>>>>

\* Mutant of XrplFiles: the manifest comes before the members' keys.
ManifestFirst == <<<<"enc", 0>>, <<"manifest", 0>>>> \o [i \in Members |-> <<"member", i>>]

XrplFiles == <<<<"enc", 0>>>> \o [i \in Members |-> <<"member", i>>] \o <<<<"manifest", 0>>>>

FilesOf(s) == IF s = "keys" THEN KeysFiles ELSE XrplFiles
Files == ToSet(KeysFiles) \cup ToSet(XrplFiles)
Manifest == disk[<<"manifest", 0>>]

\* The steps on the ledger between the funding and the files.
LedgerStages == {"signerList", "selfTest", "disableMaster", "retest"}
Running == {"fund", "write"} \cup LedgerStages

TypeOK ==
    /\ run \in [Scripts -> 0 .. MaxRuns]
    /\ stage \in [Scripts -> Running \cup {"idle", "stopped", "done"}]
    /\ \A s \in Scripts : written[s] \in 0 .. Len(FilesOf(s))
    /\ attempts \in 0 .. MaxAttempts /\ funded \in 0 .. N + 1
    /\ authority \in [Runs -> [signerList : BOOLEAN, master : BOOLEAN, tested : BOOLEAN]]
    /\ disk \in [Files -> 0 .. MaxRuns] /\ torn \subseteq Scripts

Init ==
    /\ run = [s \in Scripts |-> 0] /\ stage = [s \in Scripts |-> "idle"]
    /\ written = [s \in Scripts |-> 0] /\ attempts = 0 /\ funded = 0
    /\ authority = [g \in Runs |-> [signerList |-> FALSE, master |-> TRUE, tested |-> FALSE]]
    /\ disk = [f \in Files |-> 0] /\ torn = {}

Goto(s, next) == stage' = [stage EXCEPT ![s] = next]
-----------------------------------------------------------------------------
Start(s) ==
    /\ stage[s] \notin Running /\ run[s] < MaxRuns
    /\ run' = [run EXCEPT ![s] = @ + 1]
    /\ written' = [written EXCEPT ![s] = 0]
    /\ Goto(s, IF s = "keys" THEN "write" ELSE "fund")
    /\ IF s = "keys" THEN UNCHANGED <<attempts, funded>> ELSE attempts' = 0 /\ funded' = 0
    /\ UNCHANGED <<authority, disk, torn>>

\* The process is killed, or a step throws without having had an effect.
Stop(s) ==
    /\ stage[s] \in Running
    /\ Goto(s, "stopped")
    /\ UNCHANGED <<run, written, attempts, funded, authority, disk, torn>>

\* Mutant of FundFails: one attempt too many.
FundFailsOnceMore ==
    /\ stage["xrpl"] = "fund"
    /\ attempts' = attempts + 1
    /\ IF attempts' <= MaxAttempts THEN UNCHANGED stage ELSE Goto("xrpl", "stopped")
    /\ UNCHANGED <<run, written, funded, authority, disk, torn>>

\* fundNew: retried at once; the last failure throws.
FundFails ==
    /\ stage["xrpl"] = "fund"
    /\ attempts' = attempts + 1
    /\ IF attempts' < MaxAttempts THEN UNCHANGED stage ELSE Goto("xrpl", "stopped")
    /\ UNCHANGED <<run, written, funded, authority, disk, torn>>

FundNew ==
    /\ stage["xrpl"] = "fund"
    /\ funded' = funded + 1 /\ attempts' = 0
    /\ IF funded' <= N THEN UNCHANGED stage ELSE Goto("xrpl", "signerList")
    /\ UNCHANGED <<run, written, authority, disk, torn>>

\* Mutant of After: the self-test comes once the master key is disabled.
AfterUntested(ledgerStage) ==
    CASE ledgerStage = "signerList" -> "disableMaster"
      [] ledgerStage = "disableMaster" -> "selfTest"
      [] ledgerStage = "selfTest" -> "retest"
      [] ledgerStage = "retest" -> "write"

After(ledgerStage) ==
    CASE ledgerStage = "signerList" -> "selfTest"
      [] ledgerStage = "selfTest" -> "disableMaster"
      [] ledgerStage = "disableMaster" -> "retest"
      [] ledgerStage = "retest" -> "write"

\* What a transaction does to the authority account; a multisigned one needs
\* the signer list, and one signed by the authority alone its master key.
Effect(ledgerStage, account) ==
    CASE ledgerStage = "signerList" /\ account.master -> [account EXCEPT !.signerList = TRUE]
      [] ledgerStage = "disableMaster" /\ account.master -> [account EXCEPT !.master = FALSE]
      [] ledgerStage \in {"selfTest", "retest"} /\ account.signerList ->
             [account EXCEPT !.tested = TRUE]

\* submit, submitMultisign: the ledger applies the transaction; the script goes
\* on, or throws because the answer does not arrive.
Submit ==
    /\ stage["xrpl"] \in LedgerStages
    /\ authority' = [authority EXCEPT ![run["xrpl"]] = Effect(stage["xrpl"], @)]
    /\ \/ Goto("xrpl", After(stage["xrpl"]))
       \/ Goto("xrpl", "stopped")
    /\ UNCHANGED <<run, written, attempts, funded, disk, torn>>

\* Mutant of Content: a file that exists is left as it is.
KeptContent(s, file) == IF disk[file] = 0 THEN run[s] ELSE disk[file]

Content(s, file) == run[s]

\* writeFileSync of the next file.
Write(s) ==
    LET file == FilesOf(s)[written[s] + 1] IN
    /\ stage[s] = "write"
    /\ disk' = [disk EXCEPT ![file] = Content(s, file)]
    /\ written' = [written EXCEPT ![s] = @ + 1]
    /\ IF written'[s] < Len(FilesOf(s)) THEN torn' = torn \cup {s} /\ UNCHANGED stage
                                        ELSE torn' = torn \ {s} /\ Goto(s, "done")
    /\ UNCHANGED <<run, attempts, funded, authority>>

Next ==
    \/ \E s \in Scripts : Start(s) \/ Stop(s) \/ Write(s)
    \/ FundFails \/ FundNew \/ Submit

Spec == Init /\ [][Next]_vars
-----------------------------------------------------------------------------
\* Shares, verification shares and group key, or wallets, encryption key and
\* manifest: what is on disk belongs together, except from a run that writes
\* it to the next run that writes all of it.
FilesAgree ==
    \A s \in Scripts : s \notin torn => \A f, h \in ToSet(FilesOf(s)) : disk[f] = disk[h]

\* setup-xrpl.ts:14: the master key is disabled only after a multisigned
\* transaction went through, and the services find a manifest only of an
\* authority whose master key is disabled.
MasterOutlastsSelfTest ==
    /\ \A g \in Runs : ~authority[g].master => authority[g].tested
    /\ Manifest # 0 => ~authority[Manifest].master

\* The secrets of run g: in the memory of the script, or on disk.
Secrets(g) ==
    IF run["xrpl"] = g /\ stage["xrpl"] \in Running THEN Members
    ELSE {i \in Members : disk[<<"member", i>>] = g}

\* No quorum can sign for the authority of run g any more, nor its master key.
LockedOut(g) == ~authority[g].master /\ Cardinality(Secrets(g)) < Quorum

\* setup-xrpl.ts:14, "so we never brick the account": holds from the moment a
\* quorum's keys are written to the moment another run writes its own.
LockedOutOnlyInWindow ==
    \A g \in Runs : LockedOut(g) =>
        \/ g = run["xrpl"] /\ stage["xrpl"] = "stopped" /\ written["xrpl"] <= Quorum
        \/ g < run["xrpl"]
=============================================================================
