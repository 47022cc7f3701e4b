------------------------- MODULE KeyCeremoniesProofs -------------------------
(***************************************************************************)
(* Theorems about KeyCeremonies, for every consortium, quorum and number   *)
(* of runs.                                                                *)
(***************************************************************************)
EXTENDS KeyCeremonies, SequenceTheorems, FiniteSetTheorems, TLAPS

USE CeremonyAssumption

-----------------------------------------------------------------------------
(* The files of each script, by their place in the order of the code.      *)

LEMMA ThreeParts ==
    ASSUME NEW S, NEW a \in Seq(S), NEW b \in Seq(S), NEW c \in Seq(S)
    PROVE  /\ a \o b \o c \in Seq(S)
           /\ Len(a \o b \o c) = Len(a) + Len(b) + Len(c)
           /\ \A k \in 1 .. Len(a) : (a \o b \o c)[k] = a[k]
           /\ \A k \in 1 .. Len(b) : (a \o b \o c)[Len(a) + k] = b[k]
           /\ \A k \in 1 .. Len(c) : (a \o b \o c)[Len(a) + Len(b) + k] = c[k]
OBVIOUS

Tags == {"group", "signer", "bank", "bank.pub", "enc", "member", "manifest"}
Names == Tags \X Nat

LEMMA NamesOfMembers ==
    ASSUME NEW tag \in Tags
    PROVE  /\ [i \in Members |-> <<tag, i>>] \in Seq(Names)
           /\ Len([i \in Members |-> <<tag, i>>]) = N
<1> DEFINE b == [i \in Members |-> <<tag, i>>]
<1>1. \A i \in Members : <<tag, i>> \in Names
  BY DEF Names, Members
<1>2. b \in [1 .. N -> Names]
  BY <1>1 DEF Members
<1>3. b \in Seq(Names)
  BY <1>2, SeqDef
<1>4. DOMAIN b = 1 .. N /\ DOMAIN b = 1 .. Len(b) /\ Len(b) \in Nat
  BY <1>2, <1>3, LenProperties
<1> HIDE DEF b
<1>5. Len(b) = N
  BY <1>4
<1> QED
  BY <1>3, <1>5 DEF b

LEMMA OneName ==
    ASSUME NEW x \in Names, NEW y \in Names
    PROVE  /\ <<x>> \in Seq(Names) /\ Len(<<x>>) = 1 /\ <<x>>[1] = x
           /\ <<x, y>> \in Seq(Names) /\ Len(<<x, y>>) = 2
           /\ <<x, y>>[1] = x /\ <<x, y>>[2] = y
OBVIOUS

LEMMA KeysFilesAre ==
    /\ Len(KeysFiles) = N + 3 /\ DOMAIN KeysFiles = 1 .. N + 3
    /\ \A k \in 1 .. N + 3 :
          \/ KeysFiles[k] = <<"group", 0>>
          \/ \E i \in Members : KeysFiles[k] = <<"signer", i>>
          \/ KeysFiles[k] \in {<<"bank", 0>>, <<"bank.pub", 0>>}
<1> DEFINE a == <<<<"group", 0>>>>
           b == [i \in Members |-> <<"signer", i>>]
           c == <<<<"bank", 0>>, <<"bank.pub", 0>>>>
<1>1. {<<"group", 0>>, <<"bank", 0>>, <<"bank.pub", 0>>} \subseteq Names
  BY DEF Names, Tags
<1>2. a \in Seq(Names) /\ Len(a) = 1 /\ a[1] = <<"group", 0>>
  BY <1>1, OneName
<1>3. b \in Seq(Names) /\ Len(b) = N
  BY NamesOfMembers DEF Tags
<1>4. \A i \in Members : b[i] = <<"signer", i>>
  OBVIOUS
<1>5. c \in Seq(Names) /\ Len(c) = 2 /\ c[1] = <<"bank", 0>> /\ c[2] = <<"bank.pub", 0>>
  BY <1>1, OneName
<1>6. KeysFiles = a \o b \o c
  BY DEF KeysFiles
<1> HIDE DEF a, b, c
<1>7. /\ KeysFiles \in Seq(Names)
      /\ Len(KeysFiles) = Len(a) + Len(b) + Len(c)
      /\ \A k \in 1 .. Len(a) : KeysFiles[k] = a[k]
      /\ \A k \in 1 .. Len(b) : KeysFiles[Len(a) + k] = b[k]
      /\ \A k \in 1 .. Len(c) : KeysFiles[Len(a) + Len(b) + k] = c[k]
  <2>1. a \in Seq(Names) /\ b \in Seq(Names) /\ c \in Seq(Names)
    BY <1>2, <1>3, <1>5
  <2>2. /\ a \o b \o c \in Seq(Names)
        /\ Len(a \o b \o c) = Len(a) + Len(b) + Len(c)
        /\ \A k \in 1 .. Len(a) : (a \o b \o c)[k] = a[k]
        /\ \A k \in 1 .. Len(b) : (a \o b \o c)[Len(a) + k] = b[k]
        /\ \A k \in 1 .. Len(c) : (a \o b \o c)[Len(a) + Len(b) + k] = c[k]
    BY <2>1, ThreeParts, SMT
  <2> QED
    BY <1>6, <2>2, Zenon
<1>8. /\ KeysFiles \in Seq(Names) /\ Len(KeysFiles) = N + 3
      /\ KeysFiles[1] = a[1]
      /\ \A k \in 1 .. N : KeysFiles[1 + k] = b[k]
      /\ \A k \in 1 .. 2 : KeysFiles[1 + N + k] = c[k]
  BY <1>2, <1>3, <1>5, <1>7
<1>9. DOMAIN KeysFiles = 1 .. N + 3
  BY <1>8, LenProperties
<1>10. ASSUME NEW k \in 1 .. N + 3
      PROVE  \/ KeysFiles[k] = <<"group", 0>>
             \/ \E i \in Members : KeysFiles[k] = <<"signer", i>>
             \/ KeysFiles[k] \in {<<"bank", 0>>, <<"bank.pub", 0>>}
  <2>1. CASE k = 1
    BY <1>2, <1>8, <2>1
  <2>2. CASE k \in 2 .. N + 1
    <3>1. PICK i \in Members : k = 1 + i
      <4>1. k - 1 \in Members /\ k = 1 + (k - 1)
        BY <2>2 DEF Members
      <4> QED
        BY <4>1
    <3> QED
      BY <1>4, <1>8, <3>1 DEF Members
  <2>3. CASE k \in {N + 2, N + 3}
    <3>1. PICK i \in 1 .. 2 : k = 1 + N + i
      BY <2>3
    <3> QED
      BY <1>5, <1>8, <3>1
  <2> QED
    BY <2>1, <2>2, <2>3
<1> QED
  BY <1>8, <1>9, <1>10

LEMMA XrplFilesAre ==
    /\ Len(XrplFiles) = N + 2 /\ DOMAIN XrplFiles = 1 .. N + 2
    /\ XrplFiles[1] = <<"enc", 0>> /\ XrplFiles[N + 2] = <<"manifest", 0>>
    /\ \A i \in Members : XrplFiles[i + 1] = <<"member", i>>
<1> DEFINE a == <<<<"enc", 0>>>>
           b == [i \in Members |-> <<"member", i>>]
           c == <<<<"manifest", 0>>>>
<1>1. {<<"enc", 0>>, <<"manifest", 0>>} \subseteq Names
  BY DEF Names, Tags
<1>2. a \in Seq(Names) /\ Len(a) = 1 /\ a[1] = <<"enc", 0>>
  BY <1>1, OneName
<1>3. b \in Seq(Names) /\ Len(b) = N
  BY NamesOfMembers DEF Tags
<1>4. \A i \in Members : b[i] = <<"member", i>>
  OBVIOUS
<1>5. c \in Seq(Names) /\ Len(c) = 1 /\ c[1] = <<"manifest", 0>>
  BY <1>1, OneName
<1>6. XrplFiles = a \o b \o c
  BY DEF XrplFiles
<1> HIDE DEF a, b, c
<1>7. /\ XrplFiles \in Seq(Names)
      /\ Len(XrplFiles) = Len(a) + Len(b) + Len(c)
      /\ \A k \in 1 .. Len(a) : XrplFiles[k] = a[k]
      /\ \A k \in 1 .. Len(b) : XrplFiles[Len(a) + k] = b[k]
      /\ \A k \in 1 .. Len(c) : XrplFiles[Len(a) + Len(b) + k] = c[k]
  <2>1. a \in Seq(Names) /\ b \in Seq(Names) /\ c \in Seq(Names)
    BY <1>2, <1>3, <1>5
  <2>2. /\ a \o b \o c \in Seq(Names)
        /\ Len(a \o b \o c) = Len(a) + Len(b) + Len(c)
        /\ \A k \in 1 .. Len(a) : (a \o b \o c)[k] = a[k]
        /\ \A k \in 1 .. Len(b) : (a \o b \o c)[Len(a) + k] = b[k]
        /\ \A k \in 1 .. Len(c) : (a \o b \o c)[Len(a) + Len(b) + k] = c[k]
    BY <2>1, ThreeParts, SMT
  <2> QED
    BY <1>6, <2>2, Zenon
<1>8. /\ XrplFiles \in Seq(Names) /\ Len(XrplFiles) = N + 2
      /\ XrplFiles[1] = a[1]
      /\ \A k \in 1 .. N : XrplFiles[1 + k] = b[k]
      /\ \A k \in 1 .. 1 : XrplFiles[1 + N + k] = c[k]
  BY <1>2, <1>3, <1>5, <1>7
<1>9. DOMAIN XrplFiles = 1 .. N + 2
  BY <1>8, LenProperties
<1>10. XrplFiles[N + 2] = c[1]
  <2>1. 1 + N + 1 = N + 2 /\ 1 \in 1 .. 1
    OBVIOUS
  <2> QED
    BY <1>8, <2>1
<1>11. ASSUME NEW i \in Members PROVE XrplFiles[i + 1] = <<"member", i>>
  <2>1. i \in 1 .. N /\ i + 1 = 1 + i
    BY DEF Members
  <2> QED
    BY <1>4, <1>8, <2>1
<1> QED
  BY <1>2, <1>5, <1>8, <1>9, <1>10, <1>11

LEMMA XrplPlaces ==
    ASSUME NEW k \in 1 .. N + 2
    PROVE  k = 1 \/ k = N + 2 \/ \E i \in Members : k = i + 1
<1>1. CASE k \in 2 .. N + 1
  <2>1. k - 1 \in Members /\ k = (k - 1) + 1
    BY <1>1 DEF Members
  <2> QED
    BY <2>1
<1> QED
  BY <1>1

\* The scripts write different files, and the manifest is the last of its own.
LEMMA FilesApart ==
    /\ \A k \in 1 .. N + 3, j \in 1 .. N + 2 : KeysFiles[k] # XrplFiles[j]
    /\ \A j \in 1 .. N + 2 : XrplFiles[j] = <<"manifest", 0>> => j = N + 2
<1>1. ASSUME NEW j \in 1 .. N + 2
      PROVE  \/ XrplFiles[j] = <<"enc", 0>>
             \/ XrplFiles[j] = <<"manifest", 0>> /\ j = N + 2
             \/ \E i \in Members : XrplFiles[j] = <<"member", i>>
  BY XrplFilesAre, XrplPlaces
<1>2. ASSUME NEW k \in 1 .. N + 3, NEW j \in 1 .. N + 2
      PROVE  KeysFiles[k] # XrplFiles[j]
  BY <1>1, KeysFilesAre
<1>3. ASSUME NEW j \in 1 .. N + 2, XrplFiles[j] = <<"manifest", 0>> PROVE j = N + 2
  BY <1>1, <1>3
<1> QED
  BY <1>2, <1>3

LEMMA FilesAre ==
    /\ \A s \in Scripts : /\ Len(FilesOf(s)) \in Nat \ {0, 1}
                          /\ DOMAIN FilesOf(s) = 1 .. Len(FilesOf(s))
                          /\ \A k \in DOMAIN FilesOf(s) : FilesOf(s)[k] \in Files
    /\ \A s, q \in Scripts : \A k \in DOMAIN FilesOf(s), j \in DOMAIN FilesOf(q) :
          s # q => FilesOf(s)[k] # FilesOf(q)[j]
<1>1. Len(FilesOf("keys")) = N + 3 /\ DOMAIN FilesOf("keys") = 1 .. N + 3
  BY KeysFilesAre DEF FilesOf
<1>2. Len(FilesOf("xrpl")) = N + 2 /\ DOMAIN FilesOf("xrpl") = 1 .. N + 2
  BY XrplFilesAre DEF FilesOf
<1>3. \A s \in Scripts : \A k \in DOMAIN FilesOf(s) : FilesOf(s)[k] \in Files
  BY DEF FilesOf, Files, ToSet, Scripts
<1>4. \A k \in 1 .. N + 3, j \in 1 .. N + 2 : FilesOf("keys")[k] # FilesOf("xrpl")[j]
  BY FilesApart DEF FilesOf
<1> QED
  BY <1>1, <1>2, <1>3, <1>4 DEF Scripts
-----------------------------------------------------------------------------
(* The inductive invariant.                                                *)

Fresh == [signerList |-> FALSE, master |-> TRUE, tested |-> FALSE]

StageInv ==
    /\ TypeOK /\ written \in [Scripts -> Nat]
    /\ \A s \in Scripts : stage[s] \in Running => run[s] \in Runs
    /\ stage["xrpl"] = "fund" => attempts < MaxAttempts /\ funded <= N
    /\ stage["xrpl"] = "idle" => run["xrpl"] = 0

\* What the script has done to its authority account by the time it gets to a
\* stage; the accounts of later runs do not exist yet.
AccountInv ==
    /\ \A g \in Runs : g > run["xrpl"] => authority[g] = Fresh
    /\ \A g \in Runs : ~authority[g].master => authority[g].tested
    /\ stage["xrpl"] \in {"fund", "signerList", "selfTest", "disableMaster"} =>
          authority[run["xrpl"]].master
    /\ stage["xrpl"] \in {"selfTest", "disableMaster", "retest"} =>
          authority[run["xrpl"]].signerList
    /\ stage["xrpl"] = "disableMaster" => authority[run["xrpl"]].tested
    /\ stage["xrpl"] \in {"retest", "write"} => ~authority[run["xrpl"]].master

\* The files written so far are the first of the list and of this run.
FileInv ==
    /\ \A s \in Scripts : stage[s] = "write" => written[s] < Len(FilesOf(s))
    /\ \A s \in Scripts : stage[s] = "done" => written[s] = Len(FilesOf(s))
    /\ \A s \in Scripts : \A k \in 1 .. written[s] : disk[FilesOf(s)[k]] = run[s]
    /\ \A s \in Scripts : written[s] \in 1 .. Len(FilesOf(s)) - 1 => s \in torn
    /\ stage["xrpl"] \in {"fund"} \cup LedgerStages => written["xrpl"] = 0
    /\ FilesAgree

ManifestInv == Manifest # 0 => ~authority[Manifest].master

CeremonyInv == StageInv /\ AccountInv /\ FileInv /\ ManifestInv

LEMMA ScriptsAre == Scripts = {"keys", "xrpl"} /\ "xrpl" \in Scripts
BY DEF Scripts

LEMMA ManifestIsFile == <<"manifest", 0>> \in Files
BY XrplFilesAre DEF Files, ToSet

LEMMA InFiles ==
    ASSUME NEW s \in Scripts
    PROVE  ToSet(FilesOf(s)) = {FilesOf(s)[k] : k \in 1 .. Len(FilesOf(s))}
BY FilesAre DEF ToSet

LEMMA CeremonyInit == Init => CeremonyInv
<1> SUFFICES ASSUME Init PROVE CeremonyInv
  OBVIOUS
<1>1. StageInv
  BY FilesAre, ScriptsAre DEF Init, StageInv, TypeOK, Running, LedgerStages
<1>2. AccountInv
  BY ScriptsAre DEF Init, AccountInv, Fresh, Runs
<1>3. FilesAgree
  <2>1. \A s \in Scripts : ToSet(FilesOf(s)) \subseteq Files
    BY FilesAre, InFiles
  <2> QED
    BY <2>1 DEF Init, FilesAgree
<1>4. FileInv
  BY <1>3, ScriptsAre DEF Init, FileInv, LedgerStages
<1>5. ManifestInv
  BY ManifestIsFile DEF Init, ManifestInv, Manifest
<1> QED
  BY <1>1, <1>2, <1>4, <1>5 DEF CeremonyInv

LEMMA StartKeeps == ASSUME CeremonyInv, NEW s \in Scripts, Start(s) PROVE CeremonyInv'
<1>1. /\ run' = [run EXCEPT ![s] = @ + 1] /\ run[s] < MaxRuns
      /\ written' = [written EXCEPT ![s] = 0]
      /\ stage' = [stage EXCEPT ![s] = IF s = "keys" THEN "write" ELSE "fund"]
      /\ UNCHANGED <<authority, disk, torn>>
      /\ s = "xrpl" => attempts' = 0 /\ funded' = 0
      /\ s = "keys" => UNCHANGED <<attempts, funded>>
  BY ScriptsAre DEF Start, Goto
<1>2. StageInv'
  BY <1>1, ScriptsAre, FilesAre DEF CeremonyInv, StageInv, TypeOK, Running, LedgerStages, Runs
<1>3. AccountInv'
  BY <1>1, ScriptsAre DEF CeremonyInv, StageInv, TypeOK, AccountInv, Fresh, Runs
<1>4. FilesAgree' /\ ManifestInv'
  BY <1>1 DEF CeremonyInv, FileInv, FilesAgree, ManifestInv, Manifest
<1>5. FileInv'
  BY <1>1, <1>4, ScriptsAre, FilesAre DEF CeremonyInv, StageInv, TypeOK, FileInv, LedgerStages
<1> QED
  BY <1>2, <1>3, <1>4, <1>5 DEF CeremonyInv

LEMMA StopKeeps ==
    ASSUME CeremonyInv, NEW s \in Scripts, stage[s] \in Running,
           stage' = [stage EXCEPT ![s] = "stopped"],
           UNCHANGED <<run, written, authority, disk, torn>>,
           attempts' \in 0 .. MaxAttempts, funded' \in 0 .. N + 1,
           s = "keys" => UNCHANGED <<attempts, funded>>
    PROVE  CeremonyInv'
<1>1. StageInv'
  BY ScriptsAre DEF CeremonyInv, StageInv, TypeOK, Running, LedgerStages
<1>2. AccountInv'
  BY ScriptsAre DEF CeremonyInv, StageInv, TypeOK, AccountInv
<1>3. FilesAgree' /\ ManifestInv'
  BY DEF CeremonyInv, FileInv, FilesAgree, ManifestInv, Manifest
<1>4. FileInv'
  <2>1. stage'[s] = "stopped" /\ \A q \in Scripts : q # s => stage'[q] = stage[q]
    BY DEF CeremonyInv, StageInv, TypeOK
  <2> QED
    BY <1>3, <2>1, ScriptsAre DEF CeremonyInv, FileInv, LedgerStages
<1> QED
  BY <1>1, <1>2, <1>3, <1>4 DEF CeremonyInv

LEMMA FundKeeps == ASSUME CeremonyInv, FundFails \/ FundNew PROVE CeremonyInv'
<1>1. /\ stage["xrpl"] = "fund" /\ attempts \in Nat /\ funded \in Nat
      /\ attempts < MaxAttempts /\ funded <= N
      /\ UNCHANGED <<run, written, authority, disk, torn>>
  BY DEF FundFails, FundNew, CeremonyInv, StageInv, TypeOK
<1>2. CASE stage' = [stage EXCEPT !["xrpl"] = "stopped"] /\ FundFails
  <2>1. attempts' \in 0 .. MaxAttempts /\ funded' \in 0 .. N + 1 /\ "xrpl" # "keys"
    BY <1>1, <1>2 DEF FundFails
  <2> QED
    BY <1>1, <1>2, <2>1, StopKeeps, ScriptsAre DEF Running
<1>3. CASE /\ UNCHANGED stage /\ attempts' \in 0 .. MaxAttempts - 1 /\ funded' \in 0 .. N
  BY <1>1, <1>3 DEF CeremonyInv, StageInv, TypeOK, AccountInv, FileInv, FilesAgree,
                    ManifestInv, Manifest
<1>4. CASE stage' = [stage EXCEPT !["xrpl"] = "signerList"] /\ FundNew
  <2>1. attempts' = 0 /\ funded' \in 0 .. N + 1
    BY <1>1, <1>4 DEF FundNew
  <2>2. StageInv'
    BY <1>1, <1>4, <2>1, ScriptsAre DEF CeremonyInv, StageInv, TypeOK, Running, LedgerStages
  <2>3. AccountInv'
    BY <1>1, <1>4, ScriptsAre DEF CeremonyInv, StageInv, TypeOK, AccountInv
  <2>4. FileInv' /\ ManifestInv'
    BY <1>1, <1>4 DEF CeremonyInv, StageInv, TypeOK, FileInv, FilesAgree, ManifestInv, Manifest
  <2> QED
    BY <2>2, <2>3, <2>4 DEF CeremonyInv
<1> QED
  BY <1>1, <1>2, <1>3, <1>4 DEF FundFails, FundNew, Goto

LEMMA SubmitKeeps == ASSUME CeremonyInv, Submit PROVE CeremonyInv'
<1> DEFINE g == run["xrpl"]
           old == authority[g]
           new == Effect(stage["xrpl"], old)
<1>1. /\ stage["xrpl"] \in LedgerStages /\ g \in Runs
      /\ authority' = [authority EXCEPT ![g] = new]
      /\ UNCHANGED <<run, written, attempts, funded, disk, torn>>
      /\ \/ stage' = [stage EXCEPT !["xrpl"] = After(stage["xrpl"])]
         \/ stage' = [stage EXCEPT !["xrpl"] = "stopped"]
  BY ScriptsAre DEF Submit, Goto, CeremonyInv, StageInv, Running
<1>2. old \in [signerList : BOOLEAN, master : BOOLEAN, tested : BOOLEAN]
  BY <1>1 DEF CeremonyInv, StageInv, TypeOK
<1>3. /\ stage["xrpl"] \in {"signerList", "selfTest", "disableMaster"} => old.master
      /\ stage["xrpl"] \in {"selfTest", "disableMaster", "retest"} => old.signerList
      /\ stage["xrpl"] = "disableMaster" => old.tested
      /\ stage["xrpl"] = "retest" => ~old.master
      /\ ~old.master => old.tested
  BY <1>1 DEF CeremonyInv, AccountInv
<1>4. /\ stage["xrpl"] = "signerList" => new = [old EXCEPT !.signerList = TRUE]
      /\ stage["xrpl"] \in {"selfTest", "retest"} => new = [old EXCEPT !.tested = TRUE]
      /\ stage["xrpl"] = "disableMaster" => new = [old EXCEPT !.master = FALSE]
  BY <1>1, <1>3 DEF Effect, LedgerStages
<1> HIDE DEF old, new
<1>5. /\ new \in [signerList : BOOLEAN, master : BOOLEAN, tested : BOOLEAN]
      /\ ~new.master => new.tested
      /\ ~old.master => ~new.master
      /\ stage["xrpl"] \in {"signerList", "selfTest"} => new.master /\ new.signerList
      /\ stage["xrpl"] = "selfTest" => new.tested
      /\ stage["xrpl"] = "disableMaster" => ~new.master /\ new.signerList
      /\ stage["xrpl"] = "retest" => ~new.master
  BY <1>1, <1>2, <1>3, <1>4 DEF LedgerStages
<1>6. authority'[g] = new /\ authority' \in [Runs ->
         [signerList : BOOLEAN, master : BOOLEAN, tested : BOOLEAN]]
  BY <1>1, <1>5 DEF CeremonyInv, StageInv, TypeOK
<1>7. stage'["xrpl"] \in {"stopped", After(stage["xrpl"])}
  BY <1>1, ScriptsAre DEF CeremonyInv, StageInv, TypeOK
<1>8. /\ After("signerList") = "selfTest" /\ After("selfTest") = "disableMaster"
      /\ After("disableMaster") = "retest" /\ After("retest") = "write"
  BY DEF After
<1>9. StageInv'
  BY <1>1, <1>6, <1>7, <1>8, ScriptsAre
     DEF CeremonyInv, StageInv, TypeOK, Running, LedgerStages
<1>10. \A k \in Runs : k # g => authority'[k] = authority[k]
  BY <1>1 DEF CeremonyInv, StageInv, TypeOK
<1>11. AccountInv'
  <2>1. \A k \in Runs : k > run'["xrpl"] => authority'[k] = Fresh
    BY <1>1, <1>10 DEF CeremonyInv, AccountInv, Runs
  <2>2. \A k \in Runs : ~authority'[k].master => authority'[k].tested
    BY <1>5, <1>6, <1>10 DEF CeremonyInv, AccountInv
  <2>3. /\ stage'["xrpl"] \in {"fund", "signerList", "selfTest", "disableMaster"} =>
              authority'[g].master
        /\ stage'["xrpl"] \in {"selfTest", "disableMaster", "retest"} =>
              authority'[g].signerList
        /\ stage'["xrpl"] = "disableMaster" => authority'[g].tested
        /\ stage'["xrpl"] \in {"retest", "write"} => ~authority'[g].master
    BY <1>1, <1>5, <1>6, <1>7, <1>8 DEF LedgerStages
  <2> QED
    BY <1>1, <2>1, <2>2, <2>3 DEF AccountInv
<1>12. ManifestInv'
  <2>1. \A k \in Runs : ~authority[k].master => ~authority'[k].master
    BY <1>5, <1>6, <1>10 DEF old
  <2>2. Manifest \in 0 .. MaxRuns /\ Manifest' = Manifest
    BY <1>1, ManifestIsFile DEF Manifest, CeremonyInv, StageInv, TypeOK
  <2> QED
    BY <2>1, <2>2 DEF CeremonyInv, ManifestInv, Runs
<1>13. FileInv'
  <2>1. FilesAgree'
    BY <1>1 DEF CeremonyInv, FileInv, FilesAgree
  <2>2. written["xrpl"] = 0 /\ Len(FilesOf("xrpl")) > 0
    BY <1>1, FilesAre, ScriptsAre DEF CeremonyInv, FileInv
  <2>3. stage'["xrpl"] # "done" /\ stage'["keys"] = stage["keys"]
    BY <1>1, <1>7, <1>8, ScriptsAre DEF LedgerStages, CeremonyInv, StageInv, TypeOK
  <2>4. \A s \in Scripts : /\ stage'[s] = "write" => written[s] < Len(FilesOf(s))
                           /\ stage'[s] = "done" => written[s] = Len(FilesOf(s))
    BY <2>2, <2>3, ScriptsAre DEF CeremonyInv, FileInv
  <2> QED
    BY <1>1, <2>1, <2>2, <2>4 DEF CeremonyInv, FileInv
<1> QED
  BY <1>9, <1>11, <1>12, <1>13 DEF CeremonyInv

LEMMA WriteKeeps == ASSUME CeremonyInv, NEW s \in Scripts, Write(s) PROVE CeremonyInv'
<1> DEFINE next == written[s] + 1
           file == FilesOf(s)[next]
           len == Len(FilesOf(s))
<1>1. /\ stage[s] = "write" /\ run[s] \in Runs /\ written[s] \in Nat
      /\ next \in 1 .. len /\ len \in Nat /\ file \in Files
  <2>1. stage[s] = "write" /\ written[s] < len /\ written[s] \in Nat /\ run[s] \in Runs
    BY DEF Write, CeremonyInv, FileInv, StageInv, Running
  <2>2. len \in Nat /\ DOMAIN FilesOf(s) = 1 .. len
    BY FilesAre
  <2> QED
    BY <2>1, <2>2, FilesAre
<1>2. /\ disk' = [disk EXCEPT ![file] = run[s]]
      /\ written' = [written EXCEPT ![s] = next]
      /\ UNCHANGED <<run, attempts, funded, authority>>
  BY DEF Write, Content
<1>3. /\ disk' \in [Files -> 0 .. MaxRuns] /\ disk'[file] = run[s]
      /\ \A f \in Files : f # file => disk'[f] = disk[f]
  BY <1>1, <1>2 DEF CeremonyInv, StageInv, TypeOK, Runs
<1>4. written' \in [Scripts -> Nat] /\ written'[s] = next
      /\ \A q \in Scripts : q # s => written'[q] = written[q]
  BY <1>1, <1>2 DEF CeremonyInv, StageInv
<1>5. \/ next < len /\ torn' = torn \cup {s} /\ UNCHANGED stage
      \/ next = len /\ torn' = torn \ {s} /\ stage' = [stage EXCEPT ![s] = "done"]
  BY <1>1, <1>4 DEF Write, Goto
<1> HIDE DEF next, file, len
<1>6. StageInv'
  <2>1. \A q \in Scripts : written'[q] \in 0 .. Len(FilesOf(q))
    <3>1. next \in 0 .. len
      BY <1>1
    <3> QED
      BY <1>4, <3>1 DEF CeremonyInv, StageInv, TypeOK, len
  <2>2. /\ stage' \in [Scripts -> Running \cup {"idle", "stopped", "done"}]
        /\ \A q \in Scripts : stage'[q] = stage[q] \/ stage'[q] = "done"
        /\ torn' \subseteq Scripts
    BY <1>5 DEF CeremonyInv, StageInv, TypeOK
  <2>3. "done" \notin Running
    BY DEF Running, LedgerStages
  <2> QED
    BY <1>2, <1>3, <1>4, <2>1, <2>2, <2>3, ScriptsAre DEF CeremonyInv, StageInv, TypeOK
<1>7. stage'["xrpl"] = stage["xrpl"] \/ stage'["xrpl"] = "done"
  BY <1>5, ScriptsAre DEF CeremonyInv, StageInv, TypeOK
<1>8. AccountInv'
  BY <1>2, <1>7 DEF CeremonyInv, AccountInv
<1>9. ManifestInv'
  <2>1. CASE file # <<"manifest", 0>>
    BY <1>2, <1>3, <2>1, ManifestIsFile DEF CeremonyInv, ManifestInv, Manifest
  <2>2. CASE file = <<"manifest", 0>>
    <3>1. s = "xrpl"
      <4>1. CASE s = "keys"
        <5>1. \A k \in 1 .. N + 3 : KeysFiles[k] # <<"manifest", 0>>
          BY FilesApart, XrplFilesAre
        <5>2. len = N + 3 /\ file = KeysFiles[next]
          BY <4>1, KeysFilesAre DEF FilesOf, len, file
        <5> QED
          BY <1>1, <2>2, <5>1, <5>2
      <4> QED
        BY <4>1, ScriptsAre
    <3>2. ~authority[run["xrpl"]].master
      BY <1>1, <3>1 DEF CeremonyInv, AccountInv
    <3>3. Manifest' = run["xrpl"]
      BY <1>3, <2>2, <3>1 DEF Manifest
    <3> QED
      BY <1>2, <3>2, <3>3 DEF ManifestInv
  <2> QED
    BY <2>1, <2>2
<1>10. ASSUME NEW q \in Scripts, NEW k \in 1 .. Len(FilesOf(q)), q # s
       PROVE  disk'[FilesOf(q)[k]] = disk[FilesOf(q)[k]]
  <2>1. FilesOf(q)[k] # file /\ FilesOf(q)[k] \in Files
    BY <1>1, <1>10, FilesAre DEF file, len
  <2> QED
    BY <1>3, <2>1
<1>11. \A k \in 1 .. next : disk'[FilesOf(s)[k]] = run[s]
  <2> SUFFICES ASSUME NEW k \in 1 .. next PROVE disk'[FilesOf(s)[k]] = run[s]
    OBVIOUS
  <2>1. CASE FilesOf(s)[k] = file
    BY <1>3, <2>1
  <2>2. CASE FilesOf(s)[k] # file
    <3>1. k \in 1 .. written[s] /\ k \in 1 .. len
      BY <1>1, <2>2 DEF next, file
    <3>2. FilesOf(s)[k] \in Files
      BY <3>1, FilesAre DEF len
    <3> QED
      BY <1>3, <2>2, <3>1, <3>2 DEF CeremonyInv, FileInv
  <2> QED
    BY <2>1, <2>2
<1>12. FilesAgree'
  <2> SUFFICES ASSUME NEW q \in Scripts, q \notin torn',
                      NEW i \in 1 .. Len(FilesOf(q)), NEW j \in 1 .. Len(FilesOf(q))
               PROVE  disk'[FilesOf(q)[i]] = disk'[FilesOf(q)[j]]
    BY InFiles DEF FilesAgree
  <2>1. CASE q = s
    BY <1>5, <1>11, <2>1 DEF len
  <2>2. CASE q # s
    <3>1. q \notin torn
      BY <1>5, <2>2
    <3>2. disk[FilesOf(q)[i]] = disk[FilesOf(q)[j]]
      BY <3>1, InFiles DEF CeremonyInv, FileInv, FilesAgree
    <3> QED
      BY <1>10, <2>2, <3>2
  <2> QED
    BY <2>1, <2>2
<1>13. FileInv'
  <2>1. \A q \in Scripts : \A k \in 1 .. written'[q] : disk'[FilesOf(q)[k]] = run'[q]
    <3> SUFFICES ASSUME NEW q \in Scripts, NEW k \in 1 .. written'[q]
                 PROVE  disk'[FilesOf(q)[k]] = run[q]
      BY <1>2
    <3>1. CASE q = s
      BY <1>4, <1>11, <3>1
    <3>2. CASE q # s
      <4>1. k \in 1 .. written[q] /\ k \in 1 .. Len(FilesOf(q))
        BY <1>4, <1>6, <3>2, FilesAre DEF StageInv, TypeOK
      <4> QED
        BY <1>10, <3>2, <4>1 DEF CeremonyInv, FileInv
    <3> QED
      BY <3>1, <3>2
  <2>2. \A q \in Scripts :
           /\ stage'[q] = "write" => written'[q] < Len(FilesOf(q))
           /\ stage'[q] = "done" => written'[q] = Len(FilesOf(q))
           /\ written'[q] \in 1 .. Len(FilesOf(q)) - 1 => q \in torn'
    BY <1>1, <1>4, <1>5 DEF CeremonyInv, StageInv, TypeOK, FileInv, len
  <2>3. stage'["xrpl"] \in {"fund"} \cup LedgerStages => written'["xrpl"] = 0
    <3>1. CASE s = "xrpl"
      BY <1>1, <1>7, <3>1 DEF LedgerStages
    <3>2. CASE s # "xrpl"
      BY <1>4, <1>7, <3>2, ScriptsAre DEF CeremonyInv, FileInv, LedgerStages
    <3> QED
      BY <3>1, <3>2
  <2> QED
    BY <1>12, <2>1, <2>2, <2>3 DEF FileInv
<1> QED
  BY <1>6, <1>8, <1>9, <1>13 DEF CeremonyInv

LEMMA CeremonyNext == CeremonyInv /\ [Next]_vars => CeremonyInv'
<1> SUFFICES ASSUME CeremonyInv, [Next]_vars PROVE CeremonyInv'
  OBVIOUS
<1>1. ASSUME NEW s \in Scripts, Stop(s) PROVE CeremonyInv'
  <2>1. /\ stage[s] \in Running /\ stage' = [stage EXCEPT ![s] = "stopped"]
        /\ UNCHANGED <<run, written, attempts, funded, authority, disk, torn>>
    BY <1>1 DEF Stop, Goto
  <2>2. attempts' \in 0 .. MaxAttempts /\ funded' \in 0 .. N + 1
    BY <2>1 DEF CeremonyInv, StageInv, TypeOK
  <2> QED
    BY <2>1, <2>2, StopKeeps
<1>2. CASE UNCHANGED vars
  BY <1>2 DEF vars, CeremonyInv, StageInv, TypeOK, AccountInv, FileInv, FilesAgree,
              ManifestInv, Manifest
<1> QED
  BY <1>1, <1>2, StartKeeps, WriteKeeps, FundKeeps, SubmitKeeps DEF Next
-----------------------------------------------------------------------------
\* No script runs past its stages: an account is given up after MaxAttempts
\* failures to fund it, no account is funded beyond the authority, and no file is
\* written beyond the last (setup-xrpl.ts: fundNew).
THEOREM CeremonyTypeCorrect == Spec => []TypeOK
<1>1. CeremonyInv => TypeOK
  BY DEF CeremonyInv, StageInv
<1> QED
  BY <1>1, CeremonyInit, CeremonyNext, PTL DEF Spec

\* What the two scripts leave on disk belongs together, unless their last run to
\* write was stopped while it wrote (setup-keys.ts, setup-xrpl.ts).
THEOREM FilesBelongTogether == Spec => []FilesAgree
<1>1. CeremonyInv => FilesAgree
  BY DEF CeremonyInv, FileInv
<1> QED
  BY <1>1, CeremonyInit, CeremonyNext, PTL DEF Spec

\* No authority account loses its master key before a multisigned transaction
\* went through, and the manifest only names one that has (setup-xrpl.ts:14).
THEOREM MasterKeyOutlasts == Spec => []MasterOutlastsSelfTest
<1>1. CeremonyInv => MasterOutlastsSelfTest
  <2> SUFFICES ASSUME CeremonyInv PROVE MasterOutlastsSelfTest
    OBVIOUS
  <2>1. \A g \in Runs : ~authority[g].master => authority[g].tested
    BY DEF CeremonyInv, AccountInv
  <2>2. Manifest # 0 => ~authority[Manifest].master
    BY DEF CeremonyInv, ManifestInv
  <2> QED
    BY <2>1, <2>2 DEF MasterOutlastsSelfTest
<1> QED
  BY <1>1, CeremonyInit, CeremonyNext, PTL DEF Spec

LEMMA QuorumOfMembers ==
    ASSUME NEW S \in SUBSET Members, 1 .. Quorum \subseteq S
    PROVE  Cardinality(S) >= Quorum
<1>1. IsFiniteSet(S)
  <2>1. IsFiniteSet(Members)
    BY FS_Interval DEF Members
  <2> QED
    BY <2>1, FS_Subset
<1>2. Cardinality(1 .. Quorum) = Quorum
  BY FS_Interval
<1>3. Cardinality(1 .. Quorum) <= Cardinality(S) /\ Cardinality(S) \in Nat
  BY <1>1, FS_Subset, FS_CardinalityType
<1> QED
  BY <1>2, <1>3

\* An account is out of everybody's reach only if its run was stopped before it had
\* written a quorum's secrets, or another run has begun (setup-xrpl.ts).
THEOREM LockedOutOnlyThen == Spec => []LockedOutOnlyInWindow
<1>1. ASSUME CeremonyInv, NEW g \in Runs, LockedOut(g),
             ~(g = run["xrpl"] /\ stage["xrpl"] = "stopped" /\ written["xrpl"] <= Quorum),
             ~(g < run["xrpl"])
      PROVE  FALSE
  <2>1. g = run["xrpl"]
    <3>1. authority[g] # Fresh
      BY <1>1 DEF LockedOut, Fresh
    <3>2. run["xrpl"] \in Nat /\ g \in Nat /\ ~(g > run["xrpl"])
      BY <1>1, <3>1, ScriptsAre DEF CeremonyInv, StageInv, TypeOK, AccountInv, Runs
    <3> QED
      BY <1>1, <3>2
  <2>2. \/ stage["xrpl"] \in Running
        \/ stage["xrpl"] \in {"stopped", "done"} /\ written["xrpl"] > Quorum
    <3>1. /\ stage["xrpl"] \in Running \cup {"idle", "stopped", "done"}
          /\ written["xrpl"] \in Nat /\ stage["xrpl"] # "idle"
      BY <1>1, <2>1, ScriptsAre DEF CeremonyInv, StageInv, TypeOK, Runs
    <3>2. stage["xrpl"] = "done" => written["xrpl"] = N + 2
      BY <1>1, XrplFilesAre, ScriptsAre DEF CeremonyInv, FileInv, FilesOf
    <3> QED
      BY <1>1, <2>1, <3>1, <3>2
  <2>3. 1 .. Quorum \subseteq Secrets(g) /\ Secrets(g) \subseteq Members
    <3>1. CASE stage["xrpl"] \in Running
      BY <2>1, <3>1 DEF Secrets, Members
    <3>2. CASE stage["xrpl"] \notin Running
      <4>1. ASSUME NEW i \in 1 .. Quorum PROVE i \in Members /\ disk[<<"member", i>>] = g
        <5>1. i \in Members
          BY DEF Members
        <5>2. i + 1 \in 1 .. written["xrpl"]
          BY <1>1, <2>2, <3>2, ScriptsAre DEF CeremonyInv, StageInv
        <5>3. disk[FilesOf("xrpl")[i + 1]] = run["xrpl"]
          BY <1>1, <5>2, ScriptsAre DEF CeremonyInv, FileInv
        <5>4. FilesOf("xrpl")[i + 1] = <<"member", i>>
          BY <5>1, XrplFilesAre DEF FilesOf
        <5> QED
          BY <2>1, <5>1, <5>3, <5>4
      <4> QED
        BY <3>2, <4>1 DEF Secrets
    <3> QED
      BY <3>1, <3>2
  <2>4. Cardinality(Secrets(g)) >= Quorum
    BY <2>3, QuorumOfMembers
  <2>5. Cardinality(Secrets(g)) \in Nat
    <3>1. IsFiniteSet(Members)
      BY FS_Interval DEF Members
    <3> QED
      BY <2>3, <3>1, FS_Subset, FS_CardinalityType
  <2> QED
    BY <1>1, <2>4, <2>5 DEF LockedOut
<1>2. CeremonyInv => LockedOutOnlyInWindow
  BY <1>1 DEF LockedOutOnlyInWindow
<1> QED
  BY <1>2, CeremonyInit, CeremonyNext, PTL DEF Spec
=============================================================================
