------------------------------ MODULE VmProofs ------------------------------
(***************************************************************************)
(* Proofs about the unattended installation of a VM (FedoraInstall) and    *)
(* about what an apply makes of its definition (VmDefinition).             *)
(***************************************************************************)
EXTENDS FedoraInstall, VmDefinition, FunctionTheorems, FiniteSetTheorems,
        NaturalsInduction, WellFoundedInduction, TLAPS


\* Between the definition of its domain and its end or its failure.
Installing == {"launch", "installing", "committing", "manifest", "starting",
               "verifying", "cleanup"}

\* What exists of a run is remembered by it, or noted as what it could not
\* remember; the work directory at least until the run ends.
Remembered(r) ==
  /\ domainAt[VmName[r]] = r => "domain" \in owned[r]
  /\ diskAt[Disk[r]] = r => "disk" \in owned[r] \/ "disk" \in unrecorded[r]
  /\ r \in workDirs /\ pc[r] # "ended" =>
       "workDir" \in owned[r] \/ "workDir" \in unrecorded[r]

\* What a run has made is there for as long as it needs it.
MadeSoFar(r) ==
  /\ pc[r] = "domain" => diskAt[Disk[r]] = r \/ Disk[r] \in deleted
  /\ pc[r] \in Installing => domainAt[VmName[r]] = r
  /\ pc[r] \in {"starting", "verifying", "cleanup"} => manifestAt[Output[r]] = r

\* A committed run keeps its domain, and does not roll back.
CommittedStays(r) ==
  "committed" \in owned[r] =>
    /\ domainAt[VmName[r]] = r
    /\ pc[r] \notin {"rollbackDomain", "rollbackDisk", "rollbackFiles"}

\* What a rollback that has met no error has already taken away.
TakenAway(r) ==
  r \notin cleanupErrors =>
    /\ pc[r] \in {"rollbackDisk", "rollbackFiles"} => "domain" \notin owned[r]
    /\ pc[r] = "rollbackFiles" /\ diskAt[Disk[r]] = r => "disk" \in unrecorded[r]

\* A run answers when it ends.
AnswersLast(r) == outcome[r] # "none" => pc[r] = "ended"

\* The two properties of states, for one run.
KeepsDisk(r) == domainAt[VmName[r]] = r => diskAt[Disk[r]] = r \/ Disk[r] \in deleted

AnswersTruly(r) ==
  /\ outcome[r] = "ok" =>
       domainAt[VmName[r]] = r /\ manifestAt[Output[r]] = r /\ r \notin workDirs
  /\ outcome[r] = "cleaned" =>
       /\ domainAt[VmName[r]] # r
       /\ diskAt[Disk[r]] = r => "disk" \in unrecorded[r]
       /\ r \in workDirs => "workDir" \in unrecorded[r]

RunInv(r) ==
  /\ Remembered(r) /\ MadeSoFar(r) /\ CommittedStays(r) /\ TakenAway(r)
  /\ AnswersLast(r) /\ KeepsDisk(r) /\ AnswersTruly(r)

InstallIInv == InstallTypeOK /\ \A r \in Runs : RunInv(r)

-----------------------------------------------------------------------------
(* Types.                                                                    *)

\* What a run asks for is among the names, the disks and the outputs.
LEMMA Named ==
  \A r \in Runs : VmName[r] \in Names /\ Disk[r] \in Disks /\ Output[r] \in Outputs
BY DEF Names, Disks, Outputs

\* The initial state is typed.
LEMMA TypeInit == InstallInit => InstallTypeOK
BY DEF InstallInit, InstallTypeOK, RunTypeOK, HostTypeOK, Steps, Polling, Outcomes

\* Every step keeps the types, whatever it does to the invariant.
LEMMA TypeStep ==
  ASSUME InstallTypeOK, [InstallNext]_installVars
  PROVE  InstallTypeOK'
<1>. USE Named DEF InstallTypeOK, RunTypeOK, HostTypeOK
<1>1. ASSUME NEW r \in Runs, Plan(r) PROVE InstallTypeOK'
  BY <1>1 DEF Plan, Goto, domains, files, book, Steps, Polling
<1>2. ASSUME NEW r \in Runs, Preflight(r) PROVE InstallTypeOK'
  BY <1>2 DEF Preflight, Goto, Proceed, domains, files, book, Steps, Polling
<1>3. ASSUME NEW r \in Runs, MakeWorkDir(r) PROVE InstallTypeOK'
  BY <1>3 DEF MakeWorkDir, Goto, Own, Proceed, domains, Steps, Polling
<1>4. ASSUME NEW r \in Runs, CreateDiskAtomic(r) PROVE InstallTypeOK'
  BY <1>4 DEF CreateDiskAtomic, Goto, Own, Proceed, domains, Steps, Polling
<1>5. ASSUME NEW r \in Runs, DefineNew(r) PROVE InstallTypeOK'
  BY <1>5 DEF DefineNew, Goto, Own, Proceed, files, book, Steps, Polling
<1>6. ASSUME NEW r \in Runs, LaunchVirtInstall(r) PROVE InstallTypeOK'
  BY <1>6 DEF LaunchVirtInstall, Goto, Proceed, domains, book, Steps, Polling
<1>7. ASSUME NEW r \in Runs, WaitVirtInstall(r) PROVE InstallTypeOK'
  BY <1>7 DEF WaitVirtInstall, Goto, domains, files, book, Steps, Polling
<1>8. ASSUME NEW r \in Runs, Commit(r) PROVE InstallTypeOK'
  BY <1>8 DEF Commit, Goto, Own, Proceed, domains, files, book, Steps, Polling
<1>9. ASSUME NEW r \in Runs, WriteManifest(r) PROVE InstallTypeOK'
  BY <1>9 DEF WriteManifest, Goto, domains, book, Steps, Polling
<1>10. ASSUME NEW r \in Runs, StartVm(r) PROVE InstallTypeOK'
  BY <1>10 DEF StartVm, Goto, Proceed, book, Steps, Polling
<1>11. ASSUME NEW r \in Runs, VerifyGuest(r) PROVE InstallTypeOK'
  BY <1>11 DEF VerifyGuest, Goto, Proceed, domains, files, book, Steps,
     Polling
<1>12. ASSUME NEW r \in Runs, Cleanup(r) PROVE InstallTypeOK'
  BY <1>12 DEF Cleanup, End, Proceed, domains, book, Goto, Steps, Polling,
     Outcomes
<1>13. ASSUME NEW r \in Runs, Fail(r) PROVE InstallTypeOK'
  BY <1>13 DEF Fail, Goto, End, Polling, domains, files, book, Steps, Outcomes
<1>14. ASSUME NEW r \in Runs, HandleError(r) PROVE InstallTypeOK'
  BY <1>14 DEF HandleError, Goto, End, RollsBack, domains, book, Steps,
     Polling, Outcomes
<1>15. ASSUME NEW r \in Runs, RollbackDomain(r) PROVE InstallTypeOK'
  BY <1>15 DEF RollbackDomain, Goto, domains, files, book, Steps, Polling
<1>16. ASSUME NEW r \in Runs, RollbackDisk(r) PROVE InstallTypeOK'
  BY <1>16 DEF RollbackDisk, Goto, Removable, domains, book, Steps, Polling
<1>17. ASSUME NEW r \in Runs, RollbackFiles(r) PROVE InstallTypeOK'
  BY <1>17 DEF RollbackFiles, End, domains, book, Goto, Steps, Polling,
     Outcomes
<1>18. ASSUME NEW r \in Runs, ChildStartsVm(r) PROVE InstallTypeOK'
  BY <1>18 DEF ChildStartsVm, runs, book
<1>19. ASSUME NEW r \in Runs, ChildExits(r) PROVE InstallTypeOK'
  BY <1>19 DEF ChildExits, files, book
<1>20. ASSUME NEW r \in Runs, Cancel(r) PROVE InstallTypeOK'
  BY <1>20 DEF Cancel, runs, domains, files, book
<1>21. ASSUME NEW r \in Runs, Kill(r) PROVE InstallTypeOK'
  BY <1>21 DEF Kill, End, domains, files, book, Goto, Steps, Polling, Outcomes
<1>22. ASSUME NEW d \in Disks, OtherDeletesDisk(d) PROVE InstallTypeOK'
  BY <1>22 DEF OtherDeletesDisk, runs, domains
<1>23. ASSUME UNCHANGED installVars PROVE InstallTypeOK'
  BY <1>23 DEF installVars, runs, domains, files, book
<1>. HIDE Named DEF InstallTypeOK, RunTypeOK, HostTypeOK
<1>. QED
  BY <1>1, <1>2, <1>3, <1>4, <1>5, <1>6, <1>7, <1>8, <1>9, <1>10, <1>11,
     <1>12, <1>13, <1>14, <1>15, <1>16, <1>17, <1>18, <1>19, <1>20, <1>21,
     <1>22, <1>23 DEF InstallNext, Run, ExecuteInstall, Rollback

-----------------------------------------------------------------------------
(* The invariant of a run, over its own steps, those of the others that may  *)
(* share its name, disk or output, and those of the rest of the host.        *)

\* Before the first step nothing exists of any run.
LEMMA RunInit ==
  ASSUME InstallInit, NEW r \in Runs
  PROVE  RunInv(r)
<1>1. diskAt[Disk[r]] = Nobody /\ domainAt[VmName[r]] = Nobody /\ r # Nobody
  BY FedoraInstallAssumption, Named DEF InstallInit
<1>2. pc[r] = "planning" /\ owned[r] = {} /\ outcome[r] = "none" /\ r \notin workDirs
  BY DEF InstallInit
<1>. QED
  BY <1>1, <1>2
     DEF RunInv, Remembered, MadeSoFar, CommittedStays, TakenAway, AnswersLast,
         KeepsDisk, AnswersTruly, Installing

\* Whatever run acts, the invariant of every run q still holds.
LEMMA RunStep ==
  ASSUME InstallIInv, [InstallNext]_installVars, NEW q \in Runs
  PROVE  RunInv(q)'
<1>. USE Named, FedoraInstallAssumption
     DEF InstallIInv, InstallTypeOK, RunTypeOK, HostTypeOK, RunInv, Remembered, MadeSoFar,
         CommittedStays, TakenAway, AnswersLast, KeepsDisk, AnswersTruly, Installing
<1>1. ASSUME NEW r \in Runs, Plan(r) PROVE RunInv(q)'
  BY <1>1 DEF Plan, Goto, domains, files, book
<1>2. ASSUME NEW r \in Runs, Preflight(r) PROVE RunInv(q)'
  BY <1>2 DEF Preflight, Goto, Proceed, domains, files, book
<1>3. ASSUME NEW r \in Runs, MakeWorkDir(r) PROVE RunInv(q)'
  BY <1>3 DEF MakeWorkDir, Goto, Own, Proceed, domains
<1>4. ASSUME NEW r \in Runs, CreateDiskAtomic(r) PROVE RunInv(q)'
  BY <1>4 DEF CreateDiskAtomic, Goto, Own, Proceed, domains
<1>5. ASSUME NEW r \in Runs, DefineNew(r) PROVE RunInv(q)'
  BY <1>5 DEF DefineNew, Goto, Own, Proceed, files, book
<1>6. ASSUME NEW r \in Runs, LaunchVirtInstall(r) PROVE RunInv(q)'
  BY <1>6 DEF LaunchVirtInstall, Goto, Proceed, domains, book
<1>7. ASSUME NEW r \in Runs, WaitVirtInstall(r) PROVE RunInv(q)'
  BY <1>7 DEF WaitVirtInstall, Goto, domains, files, book
<1>8. ASSUME NEW r \in Runs, Commit(r) PROVE RunInv(q)'
  BY <1>8 DEF Commit, Goto, Own, Proceed, domains, files, book
<1>9. ASSUME NEW r \in Runs, WriteManifest(r) PROVE RunInv(q)'
  BY <1>9 DEF WriteManifest, Goto, domains, book
<1>10. ASSUME NEW r \in Runs, StartVm(r) PROVE RunInv(q)'
  BY <1>10 DEF StartVm, Goto, Proceed, book
<1>11. ASSUME NEW r \in Runs, VerifyGuest(r) PROVE RunInv(q)'
  BY <1>11 DEF VerifyGuest, Goto, Proceed, domains, files, book
<1>12. ASSUME NEW r \in Runs, Cleanup(r) PROVE RunInv(q)'
  BY <1>12 DEF Cleanup, End, Proceed, domains, book, Goto
<1>13. ASSUME NEW r \in Runs, Fail(r) PROVE RunInv(q)'
  BY <1>13 DEF Fail, Goto, End, Polling, domains, files, book
<1>14. ASSUME NEW r \in Runs, HandleError(r) PROVE RunInv(q)'
  BY <1>14 DEF HandleError, Goto, End, RollsBack, domains, book
<1>15. ASSUME NEW r \in Runs, RollbackDomain(r) PROVE RunInv(q)'
  BY <1>15 DEF RollbackDomain, Goto, domains, files, book
<1>16. ASSUME NEW r \in Runs, RollbackDisk(r) PROVE RunInv(q)'
  BY <1>16 DEF RollbackDisk, Goto, Removable, domains, book
<1>17. ASSUME NEW r \in Runs, RollbackFiles(r) PROVE RunInv(q)'
  BY <1>17 DEF RollbackFiles, End, domains, book, Goto
<1>18. ASSUME NEW r \in Runs, ChildStartsVm(r) PROVE RunInv(q)'
  BY <1>18 DEF ChildStartsVm, runs, book
<1>19. ASSUME NEW r \in Runs, ChildExits(r) PROVE RunInv(q)'
  BY <1>19 DEF ChildExits, files, book
<1>20. ASSUME NEW r \in Runs, Cancel(r) PROVE RunInv(q)'
  BY <1>20 DEF Cancel, runs, domains, files, book
<1>21. ASSUME NEW r \in Runs, Kill(r) PROVE RunInv(q)'
  BY <1>21 DEF Kill, End, domains, files, book, Goto
<1>22. ASSUME NEW d \in Disks, OtherDeletesDisk(d) PROVE RunInv(q)'
  BY <1>22 DEF OtherDeletesDisk, runs, domains
<1>23. ASSUME UNCHANGED installVars PROVE RunInv(q)'
  BY <1>23 DEF installVars, runs, domains, files, book
<1>. HIDE Named, FedoraInstallAssumption
     DEF InstallIInv, InstallTypeOK, RunTypeOK, HostTypeOK, RunInv, Remembered, MadeSoFar,
         CommittedStays, TakenAway, AnswersLast, KeepsDisk, AnswersTruly, Installing
<1>. QED
  BY <1>1, <1>2, <1>3, <1>4, <1>5, <1>6, <1>7, <1>8, <1>9, <1>10, <1>11,
     <1>12, <1>13, <1>14, <1>15, <1>16, <1>17, <1>18, <1>19, <1>20, <1>21,
     <1>22, <1>23 DEF InstallNext, Run, ExecuteInstall, Rollback

-----------------------------------------------------------------------------
(* The theorems.                                                             *)

\* Every reachable state satisfies the inductive invariant, types included, for
\* any runs, names and paths.
THEOREM InstallInvariance == InstallSpec => []InstallIInv
<1>1. InstallInit => InstallIInv
  BY TypeInit, RunInit DEF InstallIInv
<1>2. InstallIInv /\ [InstallNext]_installVars => InstallIInv'
  BY TypeStep, RunStep DEF InstallIInv
<1>. QED
  BY <1>1, <1>2, PTL DEF InstallSpec

\* No failure, cancellation, kill or race of any number of runs leaves a domain
\* without the disk it was defined with, unless somebody else deleted the file.
THEOREM DiskStays == InstallSpec => []DomainKeepsItsDisk
<1>1. InstallIInv => DomainKeepsItsDisk
  BY DEF InstallIInv, RunInv, KeepsDisk, DomainKeepsItsDisk
<1>. QED
  BY <1>1, InstallInvariance, PTL

\* What a run answers about itself is true, however many runs it raced.
THEOREM AnswersAreTrue == InstallSpec => []OutcomeIsTrue
<1>1. InstallIInv => OutcomeIsTrue
  BY DEF InstallIInv, RunInv, AnswersTruly, OutcomeIsTrue
<1>. QED
  BY <1>1, InstallInvariance, PTL

\* Whichever step is taken, run q loses only what its own rollback takes.
LEMMA TakesStep ==
  ASSUME InstallIInv, [InstallNext]_installVars, NEW q \in Runs
  PROVE  TakesOnlyBack(q) \/ UNCHANGED installVars
<1>. USE Named, FedoraInstallAssumption
     DEF InstallIInv, InstallTypeOK, RunTypeOK, HostTypeOK, RunInv, CommittedStays, TakesOnlyBack
<1>1. ASSUME NEW r \in Runs, Plan(r) PROVE TakesOnlyBack(q)
  BY <1>1 DEF Plan, Goto, domains, files, book
<1>2. ASSUME NEW r \in Runs, Preflight(r) PROVE TakesOnlyBack(q)
  BY <1>2 DEF Preflight, Goto, Proceed, domains, files, book
<1>3. ASSUME NEW r \in Runs, MakeWorkDir(r) PROVE TakesOnlyBack(q)
  BY <1>3 DEF MakeWorkDir, Goto, Own, Proceed, domains
<1>4. ASSUME NEW r \in Runs, CreateDiskAtomic(r) PROVE TakesOnlyBack(q)
  BY <1>4 DEF CreateDiskAtomic, Goto, Own, Proceed, domains
<1>5. ASSUME NEW r \in Runs, DefineNew(r) PROVE TakesOnlyBack(q)
  BY <1>5 DEF DefineNew, Goto, Own, Proceed, files, book
<1>6. ASSUME NEW r \in Runs, LaunchVirtInstall(r) PROVE TakesOnlyBack(q)
  BY <1>6 DEF LaunchVirtInstall, Goto, Proceed, domains, book
<1>7. ASSUME NEW r \in Runs, WaitVirtInstall(r) PROVE TakesOnlyBack(q)
  BY <1>7 DEF WaitVirtInstall, Goto, domains, files, book
<1>8. ASSUME NEW r \in Runs, Commit(r) PROVE TakesOnlyBack(q)
  BY <1>8 DEF Commit, Goto, Own, Proceed, domains, files, book
<1>9. ASSUME NEW r \in Runs, WriteManifest(r) PROVE TakesOnlyBack(q)
  BY <1>9 DEF WriteManifest, Goto, domains, book
<1>10. ASSUME NEW r \in Runs, StartVm(r) PROVE TakesOnlyBack(q)
  BY <1>10 DEF StartVm, Goto, Proceed, book
<1>11. ASSUME NEW r \in Runs, VerifyGuest(r) PROVE TakesOnlyBack(q)
  BY <1>11 DEF VerifyGuest, Goto, Proceed, domains, files, book
<1>12. ASSUME NEW r \in Runs, Cleanup(r) PROVE TakesOnlyBack(q)
  BY <1>12 DEF Cleanup, End, Proceed, domains, book, Goto
<1>13. ASSUME NEW r \in Runs, Fail(r) PROVE TakesOnlyBack(q)
  BY <1>13 DEF Fail, Goto, End, Polling, domains, files, book
<1>14. ASSUME NEW r \in Runs, HandleError(r) PROVE TakesOnlyBack(q)
  BY <1>14 DEF HandleError, Goto, End, RollsBack, domains, book
<1>15. ASSUME NEW r \in Runs, RollbackDomain(r) PROVE TakesOnlyBack(q)
  BY <1>15 DEF RollbackDomain, Goto, domains, files, book
<1>16. ASSUME NEW r \in Runs, RollbackDisk(r) PROVE TakesOnlyBack(q)
  BY <1>16 DEF RollbackDisk, Goto, Removable, domains, book
<1>17. ASSUME NEW r \in Runs, RollbackFiles(r) PROVE TakesOnlyBack(q)
  BY <1>17 DEF RollbackFiles, End, domains, book, Goto
<1>18. ASSUME NEW r \in Runs, ChildStartsVm(r) PROVE TakesOnlyBack(q)
  BY <1>18 DEF ChildStartsVm, runs, book
<1>19. ASSUME NEW r \in Runs, ChildExits(r) PROVE TakesOnlyBack(q)
  BY <1>19 DEF ChildExits, files, book
<1>20. ASSUME NEW r \in Runs, Cancel(r) PROVE TakesOnlyBack(q)
  BY <1>20 DEF Cancel, runs, domains, files, book
<1>21. ASSUME NEW r \in Runs, Kill(r) PROVE TakesOnlyBack(q)
  BY <1>21 DEF Kill, End, domains, files, book, Goto
<1>22. ASSUME NEW d \in Disks, OtherDeletesDisk(d) PROVE TakesOnlyBack(q)
  BY <1>22 DEF OtherDeletesDisk, runs, domains
<1>. HIDE Named, FedoraInstallAssumption
     DEF InstallIInv, InstallTypeOK, RunTypeOK, HostTypeOK, RunInv, CommittedStays, TakesOnlyBack
<1>. QED
  BY <1>1, <1>2, <1>3, <1>4, <1>5, <1>6, <1>7, <1>8, <1>9, <1>10, <1>11,
     <1>12, <1>13, <1>14, <1>15, <1>16, <1>17, <1>18, <1>19, <1>20, <1>21,
     <1>22 DEF InstallNext, Run, ExecuteInstall, Rollback

\* A run removes only the disk it made and the domain it defined, neither after
\* its commit, however many runs race for the same name or path.
THEOREM Ownership == InstallSpec => OnlyOwnRemoved
<1>1. InstallIInv /\ [InstallNext]_installVars => [\A r \in Runs : TakesOnlyBack(r)]_installVars
  BY TakesStep
<1>. QED
  BY <1>1, InstallInvariance, PTL DEF InstallSpec, OnlyOwnRemoved


-----------------------------------------------------------------------------
(* VmDefinition.                                                             *)

\* Every set of numbers that has one has a least one.
LEMMA Least ==
  ASSUME NEW T, T \subseteq Nat, T # {}
  PROVE  \E x \in T : \A y \in T : x <= y
<1>. DEFINE R == OpToRel(<, Nat)
<1>1. IsWellFoundedOn(R, Nat)
  BY NatLessThanWellFounded
<1>2. \A x, y \in Nat : <<x, y>> \in R <=> x < y
  BY DEF OpToRel
<1>3. PICK x \in T : \A y \in T : ~(<<y, x>> \in R)
  <2>. HIDE DEF R
  <2>. QED
    BY <1>1, WFMin
<1>. HIDE DEF R
<1>4. ASSUME NEW y \in T PROVE x <= y
  <2>1. x \in Nat /\ y \in Nat
    OBVIOUS
  <2>2. ~(<<y, x>> \in R)
    BY <1>3
  <2>3. ~(y < x)
    BY <1>2, <2>1, <2>2
  <2>. QED
    BY <2>1, <2>3
<1>. QED
  BY <1>4

\* Induction, for a set of numbers.
LEMMA Counting ==
  ASSUME NEW T, 0 \in T, \A n \in Nat : n \in T => n + 1 \in T
  PROVE  Nat \subseteq T
<1>1. SUFFICES ASSUME Nat \ T # {} PROVE FALSE
  OBVIOUS
<1>2. PICK x \in Nat \ T : \A y \in Nat \ T : x <= y
  BY <1>1, Least
<1>3. x # 0 /\ x - 1 \in Nat /\ x = (x - 1) + 1
  BY <1>2
<1>4. x - 1 \in T
  BY <1>2, <1>3
<1>. QED
  BY <1>2, <1>3, <1>4

\* What is finite: intervals, images, and unions of two.
LEMMA FiniteParts ==
  /\ \A n \in Nat : IsFiniteSet(1 .. n) /\ Cardinality(1 .. n) = n
  /\ \A n \in Nat : IsFiniteSet(0 .. n) /\ Cardinality(0 .. n) = n + 1
<1>1. ASSUME NEW n \in Nat PROVE IsFiniteSet(1 .. n) /\ Cardinality(1 .. n) = n
  <2>1. IsFiniteSet(1 .. n) /\ Cardinality(1 .. n) = IF 1 > n THEN 0 ELSE n - 1 + 1
    BY FS_Interval
  <2>. QED
    BY <2>1
<1>2. ASSUME NEW n \in Nat PROVE IsFiniteSet(0 .. n) /\ Cardinality(0 .. n) = n + 1
  <2>1. IsFiniteSet(0 .. n) /\ Cardinality(0 .. n) = IF 0 > n THEN 0 ELSE n - 0 + 1
    BY FS_Interval
  <2>. QED
    BY <2>1
<1>. QED
  BY <1>1, <1>2

\* The values of a finite function are finitely many.
LEMMA FiniteValues ==
  ASSUME NEW f, IsFiniteSet(DOMAIN f)
  PROVE  IsFiniteSet(Values(f)) /\ Cardinality(Values(f)) <= Cardinality(DOMAIN f)
<1>. DEFINE g == [i \in DOMAIN f |-> f[i]]
<1>1. g \in [DOMAIN f -> Values(f)] /\ \A v \in Values(f) : \E i \in DOMAIN f : g[i] = v
  BY DEF Values
<1>. HIDE DEF g
<1>2. g \in Surjection(DOMAIN f, Values(f))
  BY <1>1, Fun_IsSurj
<1>. QED
  BY <1>2, FS_Surjection

\* Every member of a finite set of numbers has its place, from 1 on.
LEMMA NthIsThere ==
  ASSUME NEW S \in SUBSET Nat, IsFiniteSet(S)
  PROVE  /\ \A k \in 1 .. Cardinality(S) :
              Nth(S, k) \in S /\ Cardinality({y \in S : y <= Nth(S, k)}) = k
         /\ \A x \in S : \E k \in 1 .. Cardinality(S) : Nth(S, k) = x
         /\ \A k, l \in 1 .. Cardinality(S) : Nth(S, k) = Nth(S, l) => k = l
<1>. DEFINE Place(x) == Cardinality({y \in S : y <= x})
            places == 1 .. Cardinality(S)
            place == [x \in S |-> Place(x)]
<1>1. ASSUME NEW x \in S
      PROVE  IsFiniteSet({y \in S : y <= x}) /\ Place(x) \in places
  <2>1. {y \in S : y <= x} \in SUBSET S /\ {y \in S : y <= x} # {}
    OBVIOUS
  <2>2. IsFiniteSet({y \in S : y <= x}) /\ Place(x) <= Cardinality(S)
    BY <2>1, FS_Subset
  <2>3. Place(x) \in Nat /\ Cardinality(S) \in Nat /\ Place(x) # 0
    BY <2>1, <2>2, FS_CardinalityType, FS_EmptySet
  <2>. QED
    BY <2>2, <2>3
<1>2. ASSUME NEW x \in S, NEW y \in S, x < y
      PROVE  Place(x) # Place(y)
  <2>. DEFINE low == {z \in S : z <= x}
              high == {z \in S : z <= y}
  <2>1. low \in SUBSET high /\ y \in high /\ y \notin low
    <3>1. x \in Nat /\ y \in Nat /\ \A z \in S : z \in Nat
      OBVIOUS
    <3>2. \A z \in S : z <= x => z <= y
      BY <1>2, <3>1
    <3>3. y <= y /\ ~(y <= x)
      BY <1>2, <3>1
    <3>. QED
      BY <3>2, <3>3
  <2>2. IsFiniteSet(high)
    BY <1>1
  <2>. HIDE DEF low, high
  <2>3. Cardinality(high) # Cardinality(low)
    BY <2>1, <2>2, FS_Subset
  <2>. QED
    BY <2>3 DEF low, high
<1>3. \A x, y \in S : place[x] = place[y] => x = y
  BY <1>2
<1>4. place \in [S -> places]
  BY <1>1
<1>5. IsFiniteSet(places) /\ Cardinality(places) = Cardinality(S)
  BY FS_CardinalityType, FiniteParts
<1>. HIDE DEF place, places
<1>6. \A k \in places : \E x \in S : place[x] = k
  <2>1. place \in Injection(S, places)
    BY <1>3, <1>4, Fun_IsInj
  <2>2. place \in Surjection(S, places)
    BY <1>5, <2>1, FS_Injection
  <2>. QED
    BY <2>2, Fun_SurjectionProperties
<1>7. ASSUME NEW k \in places PROVE Nth(S, k) \in S /\ Place(Nth(S, k)) = k
  <2>1. \E x \in S : Place(x) = k
    BY <1>6 DEF place
  <2>. QED
    BY <2>1 DEF Nth
<1>8. ASSUME NEW x \in S PROVE \E k \in places : Nth(S, k) = x
  <2>1. place[x] \in places
    BY <1>4
  <2>2. Nth(S, place[x]) \in S /\ place[Nth(S, place[x])] = place[x]
    BY <1>7, <2>1 DEF place
  <2>. QED
    BY <1>3, <2>1, <2>2
<1>. QED
  BY <1>7, <1>8 DEF places

\* The members of a list at certain places.
LEMMA PickedMembers ==
  ASSUME NEW list, NEW places \in SUBSET Nat, IsFiniteSet(places)
  PROVE  /\ DOMAIN Picked(list, places) = 1 .. Cardinality(places)
         /\ Cardinality(places) \in Nat
         /\ \A k \in DOMAIN Picked(list, places) :
              Nth(places, k) \in places /\ Picked(list, places)[k] = list[Nth(places, k)]
         /\ \A i \in places : \E k \in DOMAIN Picked(list, places) :
              Nth(places, k) = i /\ Picked(list, places)[k] = list[i]
         /\ \A k, l \in DOMAIN Picked(list, places) :
              Nth(places, k) = Nth(places, l) => k = l
<1>1. Cardinality(places) \in Nat
  BY FS_CardinalityType
<1>2. /\ DOMAIN Picked(list, places) = 1 .. Cardinality(places)
      /\ \A k \in 1 .. Cardinality(places) : Picked(list, places)[k] = list[Nth(places, k)]
  BY DEF Picked
<1>. HIDE DEF Picked
<1>3. \A i \in places : \E k \in 1 .. Cardinality(places) : Nth(places, k) = i
  BY NthIsThere
<1>4. \A k \in 1 .. Cardinality(places) : Nth(places, k) \in places
  BY NthIsThere
<1>5. \A k, l \in 1 .. Cardinality(places) : Nth(places, k) = Nth(places, l) => k = l
  BY NthIsThere
<1>6. \A i \in places : \E k \in DOMAIN Picked(list, places) :
        Nth(places, k) = i /\ Picked(list, places)[k] = list[i]
  BY <1>2, <1>3
<1>. QED
  BY <1>1, <1>2, <1>4, <1>5, <1>6

\* There are free numbers, and two of them are different.
LEMMA FreeIsFree ==
  ASSUME NEW taken, IsFiniteSet(taken)
  PROVE  /\ \A k \in Nat \ {0} : Free(taken, k) \in Nat \ taken
         /\ \A k, l \in Nat \ {0} : Free(taken, k) = Free(taken, l) => k = l
<1>. DEFINE Below(k) == (0 .. Cardinality(taken) + k) \ taken
            Rank(k, x) == Cardinality({y \in Below(k) : y <= x})
<1>1. Cardinality(taken) \in Nat
  BY FS_CardinalityType
<1>2. ASSUME NEW k \in Nat \ {0}
      PROVE  Below(k) \in SUBSET Nat /\ IsFiniteSet(Below(k)) /\ k \in 1 .. Cardinality(Below(k))
  <2>. DEFINE all == 0 .. Cardinality(taken) + k
  <2>1. IsFiniteSet(all) /\ Cardinality(all) = Cardinality(taken) + k + 1 /\ all \subseteq Nat
    BY <1>1, FiniteParts
  <2>. HIDE DEF all
  <2>2. IsFiniteSet(all \ taken) /\ IsFiniteSet(all \intersect taken)
    BY <2>1, FS_Subset
  <2>3. Cardinality(all) = Cardinality(all \ taken) + Cardinality(all \intersect taken)
    <3>1. /\ Cardinality((all \ taken) \union (all \intersect taken)) =
               Cardinality(all \ taken) + Cardinality(all \intersect taken)
                 - Cardinality((all \ taken) \intersect (all \intersect taken))
      BY <2>2, FS_Union
    <3>2. (all \ taken) \union (all \intersect taken) = all
          /\ (all \ taken) \intersect (all \intersect taken) = {}
      OBVIOUS
    <3>3. Cardinality(all \ taken) \in Nat /\ Cardinality(all \intersect taken) \in Nat
      BY <2>2, FS_CardinalityType
    <3>. QED
      BY <3>1, <3>2, <3>3, FS_EmptySet
  <2>4. Cardinality(all \intersect taken) <= Cardinality(taken)
        /\ Cardinality(all \intersect taken) \in Nat /\ Cardinality(all \ taken) \in Nat
    BY <2>2, FS_Subset, FS_CardinalityType
  <2>5. k <= Cardinality(all \ taken) /\ k >= 1
    BY <1>1, <2>1, <2>3, <2>4
  <2>. QED
    BY <2>1, <2>2, <2>4, <2>5 DEF all
<1>3. ASSUME NEW k \in Nat \ {0}
      PROVE  Free(taken, k) \in Below(k) /\ Rank(k, Free(taken, k)) = k
  BY <1>2, NthIsThere DEF Free
<1>4. ASSUME NEW k \in Nat \ {0}, NEW l \in Nat \ {0}, Free(taken, k) = Free(taken, l)
      PROVE  k = l
  <2>1. PICK x : x = Free(taken, k)
    OBVIOUS
  <2>2. x \in Below(k) /\ x \in Below(l)
    BY <1>3, <1>4, <2>1
  <2>3. {y \in Below(k) : y <= x} = {y \in Below(l) : y <= x}
    <3>1. x \in Nat /\ x <= Cardinality(taken) + k /\ x <= Cardinality(taken) + l
      BY <1>1, <2>2
    <3>. QED
      BY <1>1, <3>1
  <2>4. Rank(k, x) = k /\ Rank(l, x) = l
    BY <1>3, <1>4, <2>1
  <2>. HIDE DEF Below
  <2>. QED
    BY <2>3, <2>4
<1>. QED
  BY <1>2, <1>3, <1>4

\* What those before i have got.
Earlier(f, i) == {f[k] : k \in 1 .. i - 1}

\* f[i] is what get[i] makes of what those before i have got.
GotInTurn(f, n, get) == \A i \in 1 .. n : f[i] = get[i][Earlier(f, i)]

\* What each of several gets in its turn, knowing what those before it got, is well
\* defined.
LEMMA InTurn ==
  ASSUME NEW n \in Nat, NEW V, NEW get \in [1 .. n -> [SUBSET V -> V]]
  PROVE  \E f : f \in [1 .. n -> V] /\ GotInTurn(f, n, get)
<1>. DEFINE Good(f, m) == /\ f \in [1 .. m -> V]
                          /\ \A i \in 1 .. m : f[i] = get[i][Earlier(f, i)]
            Some(m) == \E f : Good(f, m)
            T == {m \in Nat : m <= n => Some(m)}
<1>1. 0 \in T
  <2>1. Good([i \in 1 .. 0 |-> 0], 0)
    OBVIOUS
  <2>. QED
    BY <2>1
<1>2. ASSUME NEW m \in Nat, m \in T PROVE m + 1 \in T
  <2>. SUFFICES ASSUME m + 1 <= n PROVE Some(m + 1)
    <3>. HIDE DEF Some
    <3>. QED
      OBVIOUS
  <2>1. Some(m)
    <3>. HIDE DEF Some
    <3>. QED
      BY <1>2
  <2>2. PICK f : Good(f, m)
    BY <2>1
  <2>. DEFINE next == get[m + 1][Earlier(f, m + 1)]
              g == [i \in 1 .. m + 1 |-> IF i = m + 1 THEN next ELSE f[i]]
  <2>. USE DEF Earlier
  <2>3. ASSUME NEW i \in 1 .. m + 1 PROVE Earlier(g, i) = Earlier(f, i)
    <3>1. \A k \in 1 .. i - 1 : g[k] = f[k]
      OBVIOUS
    <3>. HIDE DEF g
    <3>. QED
      BY <3>1
  <2>4. ASSUME NEW i \in 1 .. m + 1 PROVE Earlier(f, i) \in SUBSET V
    BY <2>2
  <2>5. next \in V
    <3>1. m + 1 \in 1 .. n /\ m + 1 \in 1 .. m + 1
      OBVIOUS
    <3>. HIDE DEF Earlier
    <3>. QED
      BY <2>4, <3>1
  <2>6. ASSUME NEW i \in 1 .. m + 1 PROVE g[i] \in V /\ g[i] = get[i][Earlier(g, i)]
    <3>1. CASE i = m + 1
      <4>1. g[i] = next
        BY <3>1
      <4>. HIDE DEF Earlier, g
      <4>. QED
        BY <2>3, <2>5, <3>1, <4>1
    <3>2. CASE i # m + 1
      <4>1. i \in 1 .. m
        BY <3>2
      <4>2. g[i] = f[i] /\ f[i] \in V /\ f[i] = get[i][Earlier(f, i)]
        BY <2>2, <3>2, <4>1
      <4>. HIDE DEF Earlier, g
      <4>. QED
        BY <2>3, <4>2
    <3>. QED
      BY <3>1, <3>2
  <2>7. g = [i \in 1 .. m + 1 |-> g[i]]
    OBVIOUS
  <2>. HIDE DEF g, Earlier
  <2>8. g \in [1 .. m + 1 -> V]
    BY <2>6, <2>7
  <2>. QED
    BY <2>6, <2>8
<1>. HIDE DEF T
<1>3. n \in T
  BY <1>1, <1>2, Counting
<1>4. Some(n)
  <2>. HIDE DEF Some
  <2>. QED
    BY <1>3 DEF T
<1>5. PICK f : Good(f, n)
  BY <1>4
<1>. QED
  BY <1>5 DEF GotInTurn

-----------------------------------------------------------------------------
(* The lists of a manifest.                                                  *)

\* A sequence p lists present entries of a list, each at a place of its own.
ListsPresent(S, list, p) ==
  /\ p \in Seq(S)
  /\ Len(p) <= Len(list)
  /\ \E at \in [DOMAIN p -> DOMAIN list] :
       /\ \A k \in DOMAIN at :
            p[k] = list[at[k]] /\ list[at[k]].present
       /\ \A k, l \in DOMAIN at : at[k] = at[l] => k = l
       /\ \A i \in DOMAIN list : list[i].present => \E k \in DOMAIN at : at[k] = i

\* The present entries of a list with an absent one, each at a place of its own.
LEMMA SomePresent ==
  ASSUME NEW S, NEW list \in Seq(S), \E i \in DOMAIN list : ~list[i].present
  PROVE  ListsPresent(S, list, PresentEntries(list))
<1>. DEFINE places == {i \in DOMAIN list : list[i].present}
            n == Cardinality(places)
            p == PresentEntries(list)
            at == [k \in 1 .. n |-> Nth(places, k)]
<1>1. Len(list) \in Nat /\ DOMAIN list = 1 .. Len(list)
  OBVIOUS
<1>2. places \in SUBSET Nat /\ places \subseteq DOMAIN list /\ IsFiniteSet(places) /\ n <= Len(list)
  <2>1. places \in SUBSET (1 .. Len(list)) /\ IsFiniteSet(1 .. Len(list))
        /\ Cardinality(1 .. Len(list)) = Len(list)
    BY <1>1, FiniteParts
  <2>. HIDE DEF places
  <2>2. IsFiniteSet(places) /\ n <= Len(list)
    BY <2>1, FS_Subset
  <2>. QED
    BY <1>1, <2>1, <2>2
<1>3. p = Picked(list, places)
  BY DEF PresentEntries
<1>. HIDE DEF p
<1>4. /\ DOMAIN p = 1 .. n /\ n \in Nat
      /\ \A k \in 1 .. n : at[k] \in places /\ p[k] = list[at[k]]
      /\ \A i \in places : \E k \in 1 .. n : at[k] = i
      /\ \A k, l \in 1 .. n : at[k] = at[l] => k = l
  <2>. HIDE DEF places
  <2>. QED
    BY <1>2, <1>3, PickedMembers
<1>5. at \in [1 .. n -> DOMAIN list]
  BY <1>2, <1>4
<1>. HIDE DEF at
<1>6. \A k \in 1 .. n : p[k] \in S /\ list[at[k]].present
  BY <1>4
<1>7. p \in Seq(S) /\ Len(p) = n
  <2>1. p = [k \in 1 .. n |-> p[k]]
    BY <1>3, <1>4 DEF Picked
  <2>2. p \in [1 .. n -> S]
    BY <1>6, <2>1
  <2>. QED
    BY <1>4, <2>2
<1>8. \A i \in DOMAIN list : list[i].present => \E k \in 1 .. n : at[k] = i
  BY <1>4
<1>. HIDE DEF places
<1>9. DOMAIN at = 1 .. n
  BY <1>5
<1>. QED
  BY <1>2, <1>4, <1>5, <1>6, <1>7, <1>8, <1>9 DEF p, ListsPresent

\* The present entries of any list, each at a place of its own.
LEMMA PresentOnes ==
  ASSUME NEW S, NEW list \in Seq(S)
  PROVE  /\ PresentEntries(list) \in Seq(S)
         /\ Len(PresentEntries(list)) <= Len(list)
         /\ \E at \in [DOMAIN PresentEntries(list) -> DOMAIN list] :
              /\ \A k \in DOMAIN at :
                   PresentEntries(list)[k] = list[at[k]] /\ list[at[k]].present
              /\ \A k, l \in DOMAIN at : at[k] = at[l] => k = l
              /\ \A i \in DOMAIN list : list[i].present => \E k \in DOMAIN at : at[k] = i
<1>1. CASE \E i \in DOMAIN list : ~list[i].present
  <2>1. ListsPresent(S, list, PresentEntries(list))
    BY <1>1, SomePresent
  <2>. QED
    BY <2>1 DEF ListsPresent
<1>2. CASE \A i \in DOMAIN list : list[i].present
  <2>. DEFINE at == [k \in DOMAIN list |-> k]
  <2>1. PresentEntries(list) = list /\ Len(list) \in Nat
    BY <1>2 DEF PresentEntries
  <2>2. at \in [DOMAIN list -> DOMAIN list] /\ \A k \in DOMAIN list : at[k] = k
    OBVIOUS
  <2>. HIDE DEF at
  <2>. QED
    BY <1>2, <2>1, <2>2
<1>. QED
  BY <1>1, <1>2

\* The targets that Fill gives.
LEMMA Filled ==
  ASSUME NEW n \in Nat, NEW wanted \in [1 .. n -> Nat \union {NoTarget}],
         NEW taken, IsFiniteSet(taken)
  PROVE  /\ Fill(wanted, taken) \in [1 .. n -> Nat]
         /\ \A i \in 1 .. n :
              /\ wanted[i] # NoTarget => Fill(wanted, taken)[i] = wanted[i]
              /\ wanted[i] = NoTarget => Fill(wanted, taken)[i] \notin taken
         /\ ~Clash(wanted, taken) =>
              /\ \A i, k \in 1 .. n : Fill(wanted, taken)[i] = Fill(wanted, taken)[k] => i = k
              /\ \A i \in 1 .. n : Fill(wanted, taken)[i] \notin taken
<1>. DEFINE asked == Values(wanted) \ {NoTarget}
            all == taken \union asked
            open(i) == {k \in 1 .. i : wanted[k] = NoTarget}
            turn(i) == Cardinality(open(i))
            f == Fill(wanted, taken)
<1>1. IsFiniteSet(all) /\ asked \subseteq Nat
  <2>1. DOMAIN wanted = 1 .. n /\ IsFiniteSet(1 .. n)
    BY FiniteParts
  <2>2. IsFiniteSet(Values(wanted))
    BY <2>1, FiniteValues
  <2>3. asked \in SUBSET Values(wanted)
    OBVIOUS
  <2>4. IsFiniteSet(asked)
    BY <2>2, <2>3, FS_Subset
  <2>. QED
    BY <2>4, FS_Union DEF Values
<1>2. f = [i \in 1 .. n |-> IF wanted[i] # NoTarget THEN wanted[i] ELSE Free(all, turn(i))]
  BY DEF Fill, Values
<1>. HIDE DEF f, all
<1>3. ASSUME NEW i \in 1 .. n
      PROVE  IsFiniteSet(open(i)) /\ turn(i) \in Nat /\ (wanted[i] = NoTarget => turn(i) # 0)
  <2>1. open(i) \in SUBSET (1 .. i) /\ IsFiniteSet(1 .. i) /\ i \in Nat
    BY FiniteParts
  <2>2. IsFiniteSet(open(i))
    BY <2>1, FS_Subset
  <2>3. wanted[i] = NoTarget => i \in open(i)
    OBVIOUS
  <2>. HIDE DEF open
  <2>. QED
    BY <2>2, <2>3, FS_CardinalityType, FS_EmptySet
<1>4. ASSUME NEW i \in 1 .. n, NEW k \in 1 .. n, i < k, wanted[k] = NoTarget
      PROVE  turn(i) # turn(k)
  <2>1. open(i) \subseteq open(k) /\ k \in open(k) /\ k \notin open(i)
    BY <1>4
  <2>2. IsFiniteSet(open(k))
    BY <1>3
  <2>. HIDE DEF open
  <2>. QED
    BY <2>1, <2>2, FS_Subset
<1>5. \A i, k \in 1 .. n :
        wanted[i] = NoTarget /\ wanted[k] = NoTarget /\ turn(i) = turn(k) => i = k
  <2>. SUFFICES ASSUME NEW i \in 1 .. n, NEW k \in 1 .. n, wanted[i] = NoTarget,
                       wanted[k] = NoTarget, turn(i) = turn(k), i # k
                PROVE  FALSE
    OBVIOUS
  <2>1. i < k \/ k < i
    OBVIOUS
  <2>. HIDE DEF turn
  <2>. QED
    BY <1>4, <2>1
<1>. HIDE DEF turn
<1>6. ASSUME NEW i \in 1 .. n
      PROVE  /\ wanted[i] # NoTarget => f[i] = wanted[i] /\ f[i] \in asked
             /\ wanted[i] = NoTarget => f[i] = Free(all, turn(i)) /\ f[i] \in Nat \ all
             /\ f[i] \in Nat
  <2>1. CASE wanted[i] # NoTarget
    BY <1>2, <2>1 DEF Values
  <2>2. CASE wanted[i] = NoTarget
    <3>1. f[i] = Free(all, turn(i)) /\ turn(i) \in Nat \ {0}
      BY <1>2, <1>3, <2>2
    <3>. QED
      BY <1>1, <2>2, <3>1, FreeIsFree
  <2>. QED
    BY <2>1, <2>2
<1>7. f \in [1 .. n -> Nat]
  BY <1>2, <1>6
<1>8. ASSUME ~Clash(wanted, taken), NEW i \in 1 .. n PROVE f[i] \notin taken
  BY <1>6, <1>8 DEF Clash, all
<1>9. ASSUME ~Clash(wanted, taken), NEW i \in 1 .. n, NEW k \in 1 .. n, f[i] = f[k], i # k
      PROVE  FALSE
  <2>1. CASE wanted[i] = NoTarget /\ wanted[k] = NoTarget
    <3>1. turn(i) \in Nat \ {0} /\ turn(k) \in Nat \ {0}
      BY <1>3, <2>1
    <3>2. Free(all, turn(i)) = Free(all, turn(k))
      BY <1>6, <1>9, <2>1
    <3>3. turn(i) = turn(k)
      BY <1>1, <3>1, <3>2, FreeIsFree
    <3>. QED
      BY <1>5, <1>9, <2>1, <3>3
  <2>2. CASE wanted[i] # NoTarget /\ wanted[k] # NoTarget
    <3>1. wanted[i] = wanted[k]
      BY <1>6, <1>9, <2>2
    <3>2. i \in 1 .. k - 1 \/ k \in 1 .. i - 1
      BY <1>9
    <3>. QED
      BY <1>9, <2>2, <3>1, <3>2 DEF Clash
  <2>3. CASE (wanted[i] = NoTarget) # (wanted[k] = NoTarget)
    BY <1>6, <1>9, <2>3 DEF all
  <2>. QED
    BY <2>1, <2>2, <2>3
<1>10. \A i \in 1 .. n : wanted[i] = NoTarget => f[i] \notin taken
  BY <1>6 DEF all
<1>. QED
  BY <1>6, <1>7, <1>8, <1>9, <1>10 DEF f

-----------------------------------------------------------------------------
(* Matching.                                                                 *)

\* f[i] is what get[i] makes of what those before i have left of D.
TookInTurn(f, n, D, get) == \A i \in 1 .. n : f[i] = get[i][D \ UNION Earlier(f, i)]

\* What each of several takes in its turn of what the others have left.
LEMMA Taking ==
  ASSUME NEW n \in Nat, NEW D, NEW get \in [1 .. n -> [SUBSET D -> SUBSET D]]
  PROVE  \E f : f \in [1 .. n -> SUBSET D] /\ TookInTurn(f, n, D, get)
<1>. DEFINE g == [i \in 1 .. n |-> [X \in SUBSET (SUBSET D) |-> get[i][D \ UNION X]]]
<1>1. g \in [1 .. n -> [SUBSET (SUBSET D) -> SUBSET D]]
  <2>1. ASSUME NEW i \in 1 .. n, NEW X \in SUBSET (SUBSET D)
        PROVE  get[i][D \ UNION X] \in SUBSET D
    <3>1. D \ UNION X \in SUBSET D /\ get[i] \in [SUBSET D -> SUBSET D]
      OBVIOUS
    <3>. HIDE DEF g
    <3>. QED
      BY <3>1
  <2>. QED
    BY <2>1
<1>2. \A i \in 1 .. n, X \in SUBSET (SUBSET D) : g[i][X] = get[i][D \ UNION X]
  OBVIOUS
<1>. HIDE DEF g
<1>3. PICK f : f \in [1 .. n -> SUBSET D] /\ GotInTurn(f, n, g)
  <2>0. PICK V : V = SUBSET D
    OBVIOUS
  <2>1. PICK h : h = g /\ h \in [1 .. n -> [SUBSET V -> V]]
    BY <1>1, <2>0
  <2>2. \E f : f \in [1 .. n -> V] /\ GotInTurn(f, n, h)
    BY <2>1, InTurn
  <2>. QED
    BY <2>0, <2>1, <2>2
<1>4. ASSUME NEW i \in 1 .. n
      PROVE  f[i] = get[i][D \ UNION Earlier(f, i)]
  <2>0. \A k \in 1 .. i - 1 : f[k] \in SUBSET D
    BY <1>3
  <2>1. Earlier(f, i) \in SUBSET (SUBSET D)
    BY <2>0 DEF Earlier
  <2>. QED
    BY <1>2, <1>3, <2>1 DEF GotInTurn
<1>. QED
  BY <1>3, <1>4 DEF TookInTurn

\* What has been taken so is apart, and unambiguous if it is one thing at most.
Apart(match, D) ==
  /\ \A i \in DOMAIN match : match[i] \subseteq D
  /\ \A i, k \in DOMAIN match : match[i] \intersect match[k] # {} => i = k

\* What each has taken of what was left is apart.
LEMMA TakenApart ==
  ASSUME NEW n \in Nat, NEW D, NEW f \in [1 .. n -> SUBSET D],
         \A i \in 1 .. n : f[i] \subseteq D \ UNION Earlier(f, i)
  PROVE  Apart(f, D)
<1>1. ASSUME NEW i \in 1 .. n, NEW k \in 1 .. n, k < i
      PROVE  f[i] \intersect f[k] = {}
  <2>1. k \in 1 .. i - 1
    BY <1>1
  <2>. QED
    BY <2>1 DEF Earlier
<1>2. ASSUME NEW i \in 1 .. n, NEW k \in 1 .. n, f[i] \intersect f[k] # {} PROVE i = k
  <2>1. i < k \/ k < i \/ i = k
    OBVIOUS
  <2>. QED
    BY <1>1, <1>2, <2>1
<1>. QED
  BY <1>2 DEF Apart

\* An unambiguous match that is not empty is one thing.
LEMMA TheOne ==
  ASSUME NEW match, NEW D, Apart(match, D), IsFiniteSet(D), Unambiguous(match),
         NEW i \in DOMAIN match, match[i] # {}
  PROVE  match[i] = {The(match[i])} /\ The(match[i]) \in D
<1>1. match[i] \in SUBSET D
  BY DEF Apart
<1>2. IsFiniteSet(match[i]) /\ Cardinality(match[i]) <= 1
  BY <1>1, FS_Subset DEF Unambiguous
<1>3. Cardinality(match[i]) \in Nat /\ Cardinality(match[i]) # 0
  BY <1>2, FS_CardinalityType, FS_EmptySet
<1>4. Cardinality(match[i]) = 1
  BY <1>2, <1>3
<1>5. PICK x : match[i] = {x}
  BY <1>2, <1>4, FS_Singleton
<1>6. The(match[i]) = x
  BY <1>5 DEF The
<1>. QED
  BY <1>1, <1>5, <1>6

\* The disks that match the entries of a manifest.
LEMMA DisksMatched ==
  ASSUME NEW m, NEW n \in Nat, DOMAIN PresentEntries(m.disks) = 1 .. n
  PROVE  LET list == PresentEntries(m.disks)
             match == DiskMatches(m)
             kept == Kept(m.disks, disks)
         IN  /\ match \in [1 .. n -> SUBSET kept]
             /\ \A i \in 1 .. n :
                  match[i] = MatchDisk(list[i], kept \ UNION Earlier(match, i))
             /\ Apart(match, kept)
<1>. DEFINE list == PresentEntries(m.disks)
            kept == Kept(m.disks, disks)
            Turn(f, i) == MatchDisk(list[i], kept \ UNION Earlier(f, i))
            get == [i \in 1 .. n |-> [U \in SUBSET kept |-> MatchDisk(list[i], U)]]
            match == DiskMatches(m)
<1>1. \A e, unused : MatchDisk(e, unused) \subseteq unused
  BY DEF MatchDisk
<1>2. get \in [1 .. n -> [SUBSET kept -> SUBSET kept]]
  <2>. HIDE DEF list, kept
  <2>1. \A i \in 1 .. n, U \in SUBSET kept : MatchDisk(list[i], U) \in SUBSET kept
    BY <1>1
  <2>. QED
    BY <2>1
<1>3. \A i \in 1 .. n, U \in SUBSET kept : get[i][U] = MatchDisk(list[i], U)
  OBVIOUS
<1>. HIDE DEF get, kept
<1>4. PICK f : f \in [1 .. n -> SUBSET kept] /\ TookInTurn(f, n, kept, get)
  <2>1. PICK D, h : D = kept /\ h = get /\ h \in [1 .. n -> [SUBSET D -> SUBSET D]]
    BY <1>2
  <2>2. \E f : f \in [1 .. n -> SUBSET D] /\ TookInTurn(f, n, D, h)
    BY <2>1, Taking
  <2>. QED
    BY <2>1, <2>2
<1>5. ASSUME NEW i \in 1 .. n PROVE f[i] = Turn(f, i)
  <2>1. kept \ UNION Earlier(f, i) \in SUBSET kept
    OBVIOUS
  <2>. QED
    BY <1>3, <1>4, <2>1 DEF TookInTurn
<1>6. match = CHOOSE g : g = [i \in DOMAIN list |-> Turn(g, i)]
  BY DEF DiskMatches, kept, Earlier
<1>. HIDE DEF Turn, match
<1>7. f = [i \in DOMAIN list |-> Turn(f, i)]
  BY <1>4, <1>5
<1>8. match = [i \in DOMAIN list |-> Turn(match, i)]
  BY <1>6, <1>7
<1>9. DOMAIN match = 1 .. n /\ \A i \in 1 .. n : match[i] = Turn(match, i)
  BY <1>8
<1>10. ASSUME NEW i \in 1 .. n PROVE match[i] \subseteq kept \ UNION Earlier(match, i)
  <2>1. PICK e, U : e = list[i] /\ U = kept \ UNION Earlier(match, i)
    OBVIOUS
  <2>2. match[i] = MatchDisk(e, U)
    BY <1>9, <2>1 DEF Turn
  <2>. QED
    BY <1>1, <2>1, <2>2
<1>11. match \in [1 .. n -> SUBSET kept]
  BY <1>8, <1>9, <1>10
<1>12. Apart(match, kept)
  BY <1>10, <1>11, TakenApart
<1>. QED
  BY <1>9, <1>11, <1>12 DEF Turn, match, kept

\* The trays that match the entries of a manifest.
LEMMA TraysMatched ==
  ASSUME NEW m, NEW n \in Nat, DOMAIN PresentEntries(TrayList(m)) = 1 .. n
  PROVE  LET list == PresentEntries(TrayList(m))
             match == TrayMatches(m)
             kept == Kept(TrayList(m), trays)
         IN  /\ match \in [1 .. n -> SUBSET kept]
             /\ \A i \in 1 .. n :
                  match[i] = MatchTray(list[i], kept \ UNION Earlier(match, i))
             /\ Apart(match, kept)
<1>. DEFINE list == PresentEntries(TrayList(m))
            kept == Kept(TrayList(m), trays)
            Turn(f, i) == MatchTray(list[i], kept \ UNION Earlier(f, i))
            get == [i \in 1 .. n |-> [U \in SUBSET kept |-> MatchTray(list[i], U)]]
            match == TrayMatches(m)
<1>1. \A e, unused : MatchTray(e, unused) \subseteq unused
  BY DEF MatchTray
<1>2. get \in [1 .. n -> [SUBSET kept -> SUBSET kept]]
  <2>. HIDE DEF list, kept
  <2>1. \A i \in 1 .. n, U \in SUBSET kept : MatchTray(list[i], U) \in SUBSET kept
    BY <1>1
  <2>. QED
    BY <2>1
<1>3. \A i \in 1 .. n, U \in SUBSET kept : get[i][U] = MatchTray(list[i], U)
  OBVIOUS
<1>. HIDE DEF get, kept
<1>4. PICK f : f \in [1 .. n -> SUBSET kept] /\ TookInTurn(f, n, kept, get)
  <2>1. PICK D, h : D = kept /\ h = get /\ h \in [1 .. n -> [SUBSET D -> SUBSET D]]
    BY <1>2
  <2>2. \E f : f \in [1 .. n -> SUBSET D] /\ TookInTurn(f, n, D, h)
    BY <2>1, Taking
  <2>. QED
    BY <2>1, <2>2
<1>5. ASSUME NEW i \in 1 .. n PROVE f[i] = Turn(f, i)
  <2>1. kept \ UNION Earlier(f, i) \in SUBSET kept
    OBVIOUS
  <2>. QED
    BY <1>3, <1>4, <2>1 DEF TookInTurn
<1>6. match = CHOOSE g : g = [i \in DOMAIN list |-> Turn(g, i)]
  BY DEF TrayMatches, kept, Earlier
<1>. HIDE DEF Turn, match
<1>7. f = [i \in DOMAIN list |-> Turn(f, i)]
  BY <1>4, <1>5
<1>8. match = [i \in DOMAIN list |-> Turn(match, i)]
  BY <1>6, <1>7
<1>9. DOMAIN match = 1 .. n /\ \A i \in 1 .. n : match[i] = Turn(match, i)
  BY <1>8
<1>10. ASSUME NEW i \in 1 .. n PROVE match[i] \subseteq kept \ UNION Earlier(match, i)
  <2>1. PICK e, U : e = list[i] /\ U = kept \ UNION Earlier(match, i)
    OBVIOUS
  <2>2. match[i] = MatchTray(e, U)
    BY <1>9, <2>1 DEF Turn
  <2>. QED
    BY <1>1, <2>1, <2>2
<1>11. match \in [1 .. n -> SUBSET kept]
  BY <1>8, <1>9, <1>10
<1>12. Apart(match, kept)
  BY <1>10, <1>11, TakenApart
<1>. QED
  BY <1>9, <1>11, <1>12 DEF Turn, match, kept

\* The interfaces that match the entries of a list.
LEMMA NicsMatched ==
  ASSUME NEW nicList, NEW old, NEW n \in Nat, DOMAIN Entries(nicList) = 1 .. n
  PROVE  LET list == Entries(nicList)
             match == NicMatches(nicList, old)
             kept == Values(old) \ AbsentNics(nicList, old)
         IN  /\ match \in [1 .. n -> SUBSET kept]
             /\ \A i \in 1 .. n :
                  match[i] = MatchNic(list[i], kept \ UNION Earlier(match, i))
             /\ Apart(match, kept)
<1>. DEFINE list == Entries(nicList)
            kept == Values(old) \ AbsentNics(nicList, old)
            Turn(f, i) == MatchNic(list[i], kept \ UNION Earlier(f, i))
            get == [i \in 1 .. n |-> [U \in SUBSET kept |-> MatchNic(list[i], U)]]
            match == NicMatches(nicList, old)
<1>1. \A e, unused : MatchNic(e, unused) \subseteq unused
  BY DEF MatchNic
<1>2. get \in [1 .. n -> [SUBSET kept -> SUBSET kept]]
  <2>. HIDE DEF list, kept
  <2>1. \A i \in 1 .. n, U \in SUBSET kept : MatchNic(list[i], U) \in SUBSET kept
    BY <1>1
  <2>. QED
    BY <2>1
<1>3. \A i \in 1 .. n, U \in SUBSET kept : get[i][U] = MatchNic(list[i], U)
  OBVIOUS
<1>. HIDE DEF get, kept
<1>4. PICK f : f \in [1 .. n -> SUBSET kept] /\ TookInTurn(f, n, kept, get)
  <2>1. PICK D, h : D = kept /\ h = get /\ h \in [1 .. n -> [SUBSET D -> SUBSET D]]
    BY <1>2
  <2>2. \E f : f \in [1 .. n -> SUBSET D] /\ TookInTurn(f, n, D, h)
    BY <2>1, Taking
  <2>. QED
    BY <2>1, <2>2
<1>5. ASSUME NEW i \in 1 .. n PROVE f[i] = Turn(f, i)
  <2>1. kept \ UNION Earlier(f, i) \in SUBSET kept
    OBVIOUS
  <2>. QED
    BY <1>3, <1>4, <2>1 DEF TookInTurn
<1>6. match = CHOOSE g : g = [i \in DOMAIN list |-> Turn(g, i)]
  BY DEF NicMatches, kept, Earlier
<1>. HIDE DEF Turn, match
<1>7. f = [i \in DOMAIN list |-> Turn(f, i)]
  BY <1>4, <1>5
<1>8. match = [i \in DOMAIN list |-> Turn(match, i)]
  BY <1>6, <1>7
<1>9. DOMAIN match = 1 .. n /\ \A i \in 1 .. n : match[i] = Turn(match, i)
  BY <1>8
<1>10. ASSUME NEW i \in 1 .. n PROVE match[i] \subseteq kept \ UNION Earlier(match, i)
  <2>1. PICK e, U : e = list[i] /\ U = kept \ UNION Earlier(match, i)
    OBVIOUS
  <2>2. match[i] = MatchNic(e, U)
    BY <1>9, <2>1 DEF Turn
  <2>. QED
    BY <1>1, <2>1, <2>2
<1>11. match \in [1 .. n -> SUBSET kept]
  BY <1>8, <1>9, <1>10
<1>12. Apart(match, kept)
  BY <1>10, <1>11, TakenApart
<1>. QED
  BY <1>9, <1>11, <1>12 DEF Turn, match, kept

\* The targets that assign_manifest_disk_targets gives: numbers, those that the
\* manifest asks for, and the others each different from those before and from the
\* trays'.
LEMMA DiskTargetsAssigned ==
  ASSUME NEW m, NEW n \in Nat, NEW list, list = PresentEntries(m.disks), DOMAIN list = 1 .. n,
         \A i \in 1 .. n : list[i].target \in Nat \union {NoTarget},
         IsFiniteSet(Values(AssignedTrayTargets(m)))
  PROVE  LET assigned == AssignedDiskTargets(m)
         IN  /\ assigned \in [1 .. n -> Nat]
             /\ \A i \in 1 .. n :
                  /\ list[i].target # NoTarget => assigned[i] = list[i].target
                  /\ list[i].target = NoTarget =>
                       assigned[i] \notin Values(AssignedTrayTargets(m)) \union Earlier(assigned, i)
<1>. DEFINE onTrays == Values(AssignedTrayTargets(m))
            Least1(i, S) == Nth((i - 1 .. i + Cardinality(onTrays \union S)) \ (onTrays \union S), 1)
            Turn(i, S) == IF list[i].target # NoTarget THEN list[i].target ELSE Least1(i, S)
            get == [i \in 1 .. n |-> [S \in SUBSET Nat |-> IF Turn(i, S) \in Nat THEN Turn(i, S) ELSE 0]]
            assigned == AssignedDiskTargets(m)
<1>1. ASSUME NEW i \in 1 .. n, NEW S, IsFiniteSet(S)
      PROVE  Least1(i, S) \in Nat \ (onTrays \union S)
  <2>. DEFINE taken == onTrays \union S
              all == i - 1 .. i + Cardinality(taken)
  <2>1. IsFiniteSet(taken)
    BY <1>1, FS_Union
  <2>2. Cardinality(taken) \in Nat
    BY <2>1, FS_CardinalityType
  <2>. HIDE DEF taken
  <2>3. IsFiniteSet(all) /\ Cardinality(all) = Cardinality(taken) + 2 /\ all \subseteq Nat
    <3>1. i - 1 \in Int /\ i + Cardinality(taken) \in Int /\ ~(i - 1 > i + Cardinality(taken))
      BY <2>2
    <3>2. IsFiniteSet(all) /\ Cardinality(all) = (i + Cardinality(taken)) - (i - 1) + 1
      BY <3>1, FS_Interval
    <3>. QED
      BY <2>2, <3>2
  <2>. HIDE DEF all
  <2>4. IsFiniteSet(all \ taken) /\ Cardinality(all \ taken) = Cardinality(all) - Cardinality(all \intersect taken)
    BY <2>3, FS_Difference
  <2>5. Cardinality(all \intersect taken) <= Cardinality(taken) /\ Cardinality(all \intersect taken) \in Nat
    <3>1. all \intersect taken \in SUBSET taken
      OBVIOUS
    <3>. QED
      BY <2>1, <3>1, FS_Subset, FS_CardinalityType
  <2>6. 1 \in 1 .. Cardinality(all \ taken)
    BY <2>2, <2>3, <2>4, <2>5
  <2>7. Nth(all \ taken, 1) \in all \ taken
    BY <2>3, <2>4, <2>6, NthIsThere
  <2>. QED
    BY <2>3, <2>7 DEF all, taken
<1>. HIDE DEF Least1
<1>2. get \in [1 .. n -> [SUBSET Nat -> Nat]]
  OBVIOUS
<1>3. \A i \in 1 .. n, S \in SUBSET Nat : Turn(i, S) \in Nat => get[i][S] = Turn(i, S)
  OBVIOUS
<1>. HIDE DEF get
<1>4. PICK f : f \in [1 .. n -> Nat] /\ GotInTurn(f, n, get)
  <2>0. PICK V : V = Nat
    OBVIOUS
  <2>1. PICK h : h = get /\ h \in [1 .. n -> [SUBSET V -> V]]
    BY <1>2, <2>0
  <2>2. \E f : f \in [1 .. n -> V] /\ GotInTurn(f, n, h)
    BY <2>1, InTurn
  <2>. QED
    BY <2>0, <2>1, <2>2
<1>5. ASSUME NEW g, NEW i \in 1 .. n PROVE IsFiniteSet(Earlier(g, i))
  <2>. DEFINE h == [k \in 1 .. i - 1 |-> g[k]]
  <2>1. i - 1 \in Nat /\ DOMAIN h = 1 .. i - 1
    OBVIOUS
  <2>2. Earlier(g, i) = Values(h)
    BY DEF Earlier, Values
  <2>. HIDE DEF h
  <2>. QED
    BY <2>1, <2>2, FiniteParts, FiniteValues
<1>6. ASSUME NEW i \in 1 .. n PROVE f[i] = Turn(i, Earlier(f, i))
  <2>1. Earlier(f, i) \in SUBSET Nat
    <3>1. \A k \in 1 .. i - 1 : f[k] \in Nat
      BY <1>4
    <3>. QED
      BY <3>1 DEF Earlier
  <2>2. Turn(i, Earlier(f, i)) \in Nat
    BY <1>1, <1>5
  <2>. QED
    BY <1>3, <1>4, <2>1, <2>2 DEF GotInTurn
<1>7. assigned = CHOOSE g : g = [i \in DOMAIN list |-> Turn(i, Earlier(g, i))]
  BY DEF AssignedDiskTargets, Earlier, Least1
<1>. HIDE DEF assigned
<1>8. assigned = [i \in DOMAIN list |-> Turn(i, Earlier(assigned, i))]
  <2>. HIDE DEF Turn
  <2>1. f = [i \in DOMAIN list |-> Turn(i, Earlier(f, i))]
    BY <1>4, <1>6
  <2>. QED
    BY <1>7, <2>1
<1>9. ASSUME NEW i \in 1 .. n
      PROVE  /\ assigned[i] = Turn(i, Earlier(assigned, i))
             /\ assigned[i] \in Nat
             /\ list[i].target = NoTarget => assigned[i] \notin onTrays \union Earlier(assigned, i)
  <2>1. assigned[i] = Turn(i, Earlier(assigned, i))
    <3>. HIDE DEF Turn
    <3>. QED
      BY <1>8
  <2>2. Least1(i, Earlier(assigned, i)) \in Nat \ (onTrays \union Earlier(assigned, i))
    BY <1>1, <1>5
  <2>. QED
    BY <2>1, <2>2
<1>10. assigned \in [1 .. n -> Nat]
  <2>. HIDE DEF Turn
  <2>. QED
    BY <1>8, <1>9
<1>. QED
  BY <1>9, <1>10 DEF assigned

-----------------------------------------------------------------------------
(* The inductive invariant.                                                  *)

\* What devices, interfaces and settings are.
DiskRecord == [node : Nat, alias : Aliases(DiskIds), path : Paths, target : Nat]
TrayRecord == [node : Nat, alias : Aliases(TrayIds), target : Nat]

\* Interfaces; a MAC address that libvirt made up is that of a node.
NicMacs == [madeFor : Nat] \union {GivenMac}
NicNames == NicIds \union {Primary} \union [derivedFrom : NicMacs]
Words == {"hd", "cdrom", "other", "log", "auto", "port", "static", "network", "bridge", "default", "br0"}
Sources == [type : Words, name : Words]
NicRecord ==
  [node : Nat, alias : NicNames \union {NoId, Foreign}, mac : NicMacs, source : Sources,
   vlan : Nat \union {None}]

\* Settings.
Machines == Words \union {None, DefaultMachine}
Texts == Words \union {None}
OptionalNat == Nat \union {None}

SettingsRecord ==
  [machine : Machines, boot : Seq(Words), console : Texts, graphics : Texts,
   maxMemory : Nat, currentMemory : Nat, vcpus : Nat,
   cpu : {NoCpu} \union [topology : OptionalNat, features : SUBSET FeatureNames, cells : SUBSET Nat],
   io : BOOLEAN, iothreads : Nat,
   controller : {None} \union [count : Nat, queues : Nat],
   pins : SUBSET Nat, ioPins : SUBSET Nat, other : BOOLEAN,
   policy : Texts, memNodes : SUBSET Nat]

\* The devices of the definition: each is one element of the document, and no two
\* have one target.
DevicesAreSound ==
  /\ disks \in SUBSET DiskRecord
  /\ trays \in SUBSET TrayRecord
  /\ IsFiniteSet(disks)
  /\ IsFiniteSet(trays)
  /\ \A d, e \in disks : d.node = e.node => d = e
  /\ \A d, e \in trays : d.node = e.node => d = e
  /\ \A d \in disks, e \in trays : d.node # e.node
  /\ \A d, e \in disks \union trays : d.target = e.target => d.node = e.node

\* The interfaces: no two have one MAC address, as one that libvirt made up is that
\* of the interface that it was made up for.
NicsAreSound(list) ==
  /\ list \in Seq(NicRecord)
  /\ \A i, k \in DOMAIN list : list[i].node = list[k].node => i = k
  /\ \A i, k \in DOMAIN list : list[i].mac = list[k].mac => i = k
  /\ \A i \in DOMAIN list : list[i].mac \in {GivenMac, [madeFor |-> list[i].node]}

\* The settings: what they refer to exists.
SettingsAreSound(s) == s \in SettingsRecord /\ PlacementExists(s)

\* The inductive invariant.
IInv ==
  /\ defined \in BOOLEAN
  /\ ~defined => disks = {} /\ trays = {} /\ nics = <<>>
  /\ DevicesAreSound
  /\ NicsAreSound(nics)
  /\ SettingsAreSound(settings)

\* What the manifests say of the settings.
SettingsEntry ==
  [machine : Machines, boot : Seq(Words) \union {None}, serialLog : Texts, graphics : Texts,
   memory : [size : Nat, max : OptionalNat] \union {None}, memoryGiB : Nat, vcpus : Nat,
   cpu : [topology : OptionalNat, vcpus : OptionalNat, features : (SUBSET FeatureNames) \union {Keep}]
         \union {NoCpu},
   threads : BOOLEAN,
   ioThreads : [count : Nat, queues : OptionalNat] \union {None},
   vcpuTune : [pins : SUBSET Nat, ioPins : SUBSET Nat] \union {Keep, Remove},
   numaTune : [policy : Texts, memNodes : SUBSET Nat] \union {Keep, Remove}]

-----------------------------------------------------------------------------
(* Settings.                                                                 *)

\* Short sequences.
LEMMA ShortSequences ==
  ASSUME NEW S
  PROVE  /\ <<>> \in Seq(S)
         /\ \A x \in S : <<x>> \in Seq(S)
         /\ \A x, y \in S : <<x, y>> \in Seq(S)
  OBVIOUS

\* A valid manifest says how much memory and how many vCPUs there are, and how the
\* IOThreads are used if there are any.
LEMMA SettingsSaid ==
  ASSUME NEW s \in SettingsEntry, ValidSettings(s)
  PROVE  /\ EffectiveMemory(s).size \in Nat
         /\ MaxMemory(EffectiveMemory(s)) \in Nat
         /\ EffectiveVcpus(s) \in Nat
         /\ EffectiveBoot(s) \in Seq(Words)
         /\ IoThreadCount(s) \in Nat
         /\ s.ioThreads # None => IoMap(s.ioThreads) \in [count : Nat, queues : Nat]
<1>1. EffectiveMemory(s).size \in Nat /\ EffectiveMemory(s).max \in OptionalNat
  BY DEF SettingsEntry, EffectiveMemory, MiBPerGiB, OptionalNat
<1>2. MaxMemory(EffectiveMemory(s)) \in Nat
  <2>. DEFINE memory == EffectiveMemory(s)
  <2>. HIDE DEF memory
  <2>1. memory.size \in Nat /\ memory.max \in OptionalNat
    BY <1>1 DEF memory
  <2>. QED
    BY <2>1 DEF MaxMemory, OptionalNat, memory
<1>3. EffectiveVcpus(s) \in Nat
  <2>1. CASE s.cpu = NoCpu
    BY <2>1 DEF SettingsEntry, EffectiveVcpus
  <2>2. CASE s.cpu # NoCpu
    <3>1. s.cpu.topology \in OptionalNat /\ s.cpu.vcpus \in OptionalNat
      BY <2>2 DEF SettingsEntry
    <3>2. s.cpu.topology # None \/ s.cpu.vcpus # None
      <4>1. ASSUME s.cpu.topology = None, s.cpu.vcpus = None PROVE FALSE
        <5>1. {s.cpu.topology, s.cpu.vcpus} \ {None} = {}
          BY <4>1
        <5>2. Cardinality({s.cpu.topology, s.cpu.vcpus} \ {None}) = 1
          BY <2>2 DEF ValidSettings, ValidCpu
        <5>. QED
          BY <5>1, <5>2, FS_EmptySet
      <4>. QED
        BY <4>1
    <3>. QED
      BY <2>2, <3>1, <3>2 DEF EffectiveVcpus, OptionalNat
  <2>. QED
    BY <2>1, <2>2
<1>4. EffectiveBoot(s) \in Seq(Words)
  <2>1. <<"hd">> \in Seq(Words)
    <3>1. "hd" \in Words
      BY DEF Words
    <3>. QED
      BY <3>1, ShortSequences
  <2>2. s.boot \in Seq(Words) \union {None}
    BY DEF SettingsEntry
  <2>. QED
    BY <2>1, <2>2 DEF EffectiveBoot
<1>5. s.ioThreads # None => s.ioThreads.count \in Nat /\ s.ioThreads.queues \in OptionalNat
  BY DEF SettingsEntry
<1>. QED
  BY <1>1, <1>2, <1>3, <1>4, <1>5 DEF IoThreadCount, IoMap, OptionalNat

\* What the settings of a new definition are.
LEMMA BuiltSound ==
  ASSUME NEW s \in SettingsEntry, ValidSettings(s), InContext(s, NothingYet)
  PROVE  SettingsAreSound(BuiltSettings(s))
<1>. DEFINE tune == VcpuPlacement(s.vcpuTune)
            numa == NumaPlacement(s.numaTune)
            new == BuiltSettings(s)
<1>1. tune \in [pins : SUBSET Nat, ioPins : SUBSET Nat]
  BY DEF SettingsEntry, VcpuPlacement, Given
<1>2. numa \in [policy : Texts, memNodes : SUBSET Nat]
  BY DEF SettingsEntry, NumaPlacement, Given, Texts
<1>3. BuiltCpu(s.cpu) \in {NoCpu} \union [topology : OptionalNat, features : SUBSET FeatureNames, cells : {{}}]
  <2>1. CASE s.cpu = NoCpu
    BY <2>1 DEF BuiltCpu
  <2>2. CASE s.cpu # NoCpu
    <3>1. s.cpu.topology \in OptionalNat /\ s.cpu.features \in (SUBSET FeatureNames) \union {Keep}
      BY <2>2 DEF SettingsEntry
    <3>2. Features(s.cpu) \in SUBSET FeatureNames
      BY <3>1 DEF Features
    <3>. QED
      BY <2>2, <3>1, <3>2 DEF BuiltCpu
  <2>. QED
    BY <2>1, <2>2
<1>4. s.machine \in Machines /\ s.serialLog \in Texts /\ s.graphics \in Texts /\ s.threads \in BOOLEAN
  BY DEF SettingsEntry
<1>5. new \in SettingsRecord
  BY <1>1, <1>2, <1>3, <1>4, SettingsSaid DEF BuiltSettings, SettingsRecord, Machines, Texts
<1>6. /\ new.pins = tune.pins /\ new.ioPins = tune.ioPins /\ new.memNodes = numa.memNodes
      /\ new.vcpus = EffectiveVcpus(s) /\ new.iothreads = IoThreadCount(s)
      /\ new.controller = None
  BY DEF BuiltSettings
<1>. HIDE DEF new
<1>7. \A vcpu \in tune.pins : vcpu < EffectiveVcpus(s)
  BY DEF InContext, PinsExist, VcpuPlacement
<1>8. tune.ioPins \subseteq 1 .. IoThreadCount(s)
  BY DEF InContext, PinsExist, VcpuPlacement, IoThreadCount
<1>9. numa.memNodes = {}
  BY DEF InContext, NumaPlacement, Cells, NothingYet
<1>. QED
  BY <1>5, <1>6, <1>7, <1>8, <1>9 DEF SettingsAreSound, PlacementExists, new

\* What a <cpu> becomes.
LEMMA CpuPatched ==
  ASSUME NEW s \in SettingsEntry, NEW old \in SettingsRecord
  PROVE  LET new == PatchedCpu(s.cpu, old.cpu)
         IN  /\ new \in {NoCpu} \union [topology : OptionalNat, features : SUBSET FeatureNames,
                                        cells : SUBSET Nat]
             /\ s.cpu = NoCpu => new = old.cpu
             /\ s.cpu # NoCpu => new # NoCpu /\ new.topology = s.cpu.topology
                                 /\ s.cpu.features \in {Keep, new.features}
             /\ old.cpu # NoCpu => new # NoCpu /\ new.cells = old.cpu.cells
             /\ old.cpu # NoCpu /\ s.cpu # NoCpu /\ s.cpu.features = Keep =>
                  new.features = old.cpu.features
             /\ old.cpu = NoCpu /\ new # NoCpu => new.cells = {}
<1>. DEFINE CpuSet == [topology : OptionalNat, features : SUBSET FeatureNames, cells : SUBSET Nat]
            new == PatchedCpu(s.cpu, old.cpu)
<1>1. s.cpu # NoCpu => s.cpu.topology \in OptionalNat
                       /\ s.cpu.features \in (SUBSET FeatureNames) \union {Keep}
  BY DEF SettingsEntry
<1>2. old.cpu \in {NoCpu} \union CpuSet
  BY DEF SettingsRecord
<1>3. \A x \in CpuSet : x # NoCpu
  BY VmSettingsAssumption DEF OptionalNat
<1>4. CASE s.cpu = NoCpu
  BY <1>2, <1>4 DEF PatchedCpu
<1>5. CASE s.cpu # NoCpu /\ old.cpu = NoCpu
  <2>1. new = [topology |-> s.cpu.topology, features |-> Features(s.cpu), cells |-> {}]
    BY <1>5 DEF PatchedCpu, BuiltCpu
  <2>2. Features(s.cpu) \in SUBSET FeatureNames /\ s.cpu.features \in {Keep, Features(s.cpu)}
    BY <1>1, <1>5 DEF Features
  <2>3. new \in CpuSet
    BY <1>1, <1>5, <2>1, <2>2
  <2>. QED
    BY <1>3, <1>5, <2>1, <2>2, <2>3
<1>6. CASE s.cpu # NoCpu /\ old.cpu # NoCpu
  <2>1. new = [topology |-> s.cpu.topology,
               features |-> IF s.cpu.features = Keep THEN old.cpu.features ELSE s.cpu.features,
               cells |-> old.cpu.cells]
    BY <1>6 DEF PatchedCpu
  <2>2. new \in CpuSet
    BY <1>1, <1>2, <1>6, <2>1
  <2>. QED
    BY <1>3, <1>6, <2>1, <2>2
<1>. QED
  BY <1>4, <1>5, <1>6

\* The fields of patched settings.
LEMMA SettingsPatched ==
  ASSUME NEW s \in SettingsEntry, NEW old \in SettingsRecord
  PROVE  LET tune == VcpuPlacement(s.vcpuTune)
             numa == NumaPlacement(s.numaTune)
             new == PatchedSettings(s, old)
         IN  /\ new.machine = PatchedMachine(s, old)
             /\ new.boot = EffectiveBoot(s)
             /\ new.console = PatchedSerialLog(s, old)
             /\ new.graphics = s.graphics
             /\ new.maxMemory = MaxMemory(EffectiveMemory(s))
             /\ new.currentMemory = EffectiveMemory(s).size
             /\ new.vcpus = EffectiveVcpus(s)
             /\ new.cpu = PatchedCpu(s.cpu, old.cpu)
             /\ new.io = s.threads
             /\ new.iothreads = IoThreadCount(s)
             /\ new.controller = Controller(s)
             /\ new.pins = IF s.vcpuTune = Keep THEN old.pins ELSE tune.pins
             /\ new.ioPins = IF s.vcpuTune = Keep THEN old.ioPins ELSE tune.ioPins
             /\ new.other = old.other
             /\ new.policy = IF s.numaTune = Keep THEN old.policy ELSE numa.policy
             /\ new.memNodes = IF s.numaTune = Keep THEN old.memNodes ELSE numa.memNodes
             /\ new \in SettingsRecord <=>
                  /\ PatchedMachine(s, old) \in Machines
                  /\ EffectiveBoot(s) \in Seq(Words)
                  /\ PatchedSerialLog(s, old) \in Texts
                  /\ s.graphics \in Texts
                  /\ MaxMemory(EffectiveMemory(s)) \in Nat
                  /\ EffectiveMemory(s).size \in Nat
                  /\ EffectiveVcpus(s) \in Nat
                  /\ new.cpu \in {NoCpu} \union [topology : OptionalNat,
                                                 features : SUBSET FeatureNames, cells : SUBSET Nat]
                  /\ s.threads \in BOOLEAN
                  /\ IoThreadCount(s) \in Nat
                  /\ Controller(s) \in {None} \union [count : Nat, queues : Nat]
                  /\ new.pins \in SUBSET Nat
                  /\ new.ioPins \in SUBSET Nat
                  /\ new.policy \in Texts
                  /\ new.memNodes \in SUBSET Nat
<1>. DEFINE tune == VcpuPlacement(s.vcpuTune)
            numa == NumaPlacement(s.numaTune)
            memory == PatchedMemory(s, old)
            tuned == PatchedVcpuTune(s, memory)
            placed == PatchedNumaTune(s, tuned)
            Fields == {"machine", "boot", "console", "graphics", "maxMemory", "currentMemory",
                       "vcpus", "cpu", "io", "iothreads", "controller", "pins", "ioPins", "other",
                       "policy", "memNodes"}
            IsRecord(r) == r = [x \in Fields |-> r[x]]
            new == PatchedSettings(s, old)
<1>1. IsRecord(old)
  BY DEF SettingsRecord
<1>2. IsRecord(memory) /\ \A x \in Fields :
        memory[x] = CASE x = "maxMemory" -> MaxMemory(EffectiveMemory(s))
                      [] x = "currentMemory" -> EffectiveMemory(s).size
                      [] OTHER -> old[x]
  BY <1>1 DEF PatchedMemory
<1>. HIDE DEF memory
<1>3. IsRecord(tuned) /\ \A x \in Fields :
        tuned[x] = CASE x = "pins" /\ s.vcpuTune # Keep -> tune.pins
                     [] x = "ioPins" /\ s.vcpuTune # Keep -> tune.ioPins
                     [] OTHER -> memory[x]
  BY <1>2 DEF PatchedVcpuTune
<1>. HIDE DEF tuned
<1>4. IsRecord(placed) /\ \A x \in Fields :
        placed[x] = CASE x = "policy" /\ s.numaTune # Keep -> numa.policy
                      [] x = "memNodes" /\ s.numaTune # Keep -> numa.memNodes
                      [] OTHER -> tuned[x]
  BY <1>3 DEF PatchedNumaTune
<1>. HIDE DEF placed
<1>5. new =
        [placed EXCEPT
           !.machine = PatchedMachine(s, old),
           !.boot = EffectiveBoot(s),
           !.console = PatchedSerialLog(s, old),
           !.graphics = s.graphics,
           !.vcpus = EffectiveVcpus(s),
           !.cpu = PatchedCpu(s.cpu, @),
           !.io = s.threads,
           !.iothreads = IoThreadCount(s),
           !.controller = Controller(s)]
  BY DEF PatchedSettings, placed, tuned, memory
<1>. HIDE DEF tune, numa, new
<1>6. IsRecord(new)
  BY <1>4, <1>5
<1>7. /\ new.machine = PatchedMachine(s, old)
      /\ new.boot = EffectiveBoot(s)
      /\ new.console = PatchedSerialLog(s, old)
      /\ new.graphics = s.graphics
      /\ new.maxMemory = placed.maxMemory
      /\ new.currentMemory = placed.currentMemory
      /\ new.vcpus = EffectiveVcpus(s)
      /\ new.cpu = PatchedCpu(s.cpu, placed.cpu)
      /\ new.io = s.threads
      /\ new.iothreads = IoThreadCount(s)
      /\ new.controller = Controller(s)
      /\ new.pins = placed.pins
      /\ new.ioPins = placed.ioPins
      /\ new.other = placed.other
      /\ new.policy = placed.policy
      /\ new.memNodes = placed.memNodes
  BY <1>4, <1>5
<1>8. /\ placed.maxMemory = MaxMemory(EffectiveMemory(s))
      /\ placed.currentMemory = EffectiveMemory(s).size
      /\ placed.cpu = old.cpu
      /\ placed.pins = IF s.vcpuTune = Keep THEN old.pins ELSE tune.pins
      /\ placed.ioPins = IF s.vcpuTune = Keep THEN old.ioPins ELSE tune.ioPins
      /\ placed.other = old.other
      /\ placed.policy = IF s.numaTune = Keep THEN old.policy ELSE numa.policy
      /\ placed.memNodes = IF s.numaTune = Keep THEN old.memNodes ELSE numa.memNodes
  BY <1>2, <1>3, <1>4
<1>9. old.other \in BOOLEAN
  BY DEF SettingsRecord
<1>. HIDE DEF IsRecord
<1>10. IsRecord(new) =>
         (new \in SettingsRecord <=>
            /\ new.machine \in Machines /\ new.boot \in Seq(Words) /\ new.console \in Texts
            /\ new.graphics \in Texts /\ new.maxMemory \in Nat /\ new.currentMemory \in Nat
            /\ new.vcpus \in Nat
            /\ new.cpu \in {NoCpu} \union [topology : OptionalNat,
                                           features : SUBSET FeatureNames, cells : SUBSET Nat]
            /\ new.io \in BOOLEAN /\ new.iothreads \in Nat
            /\ new.controller \in {None} \union [count : Nat, queues : Nat]
            /\ new.pins \in SUBSET Nat /\ new.ioPins \in SUBSET Nat /\ new.other \in BOOLEAN
            /\ new.policy \in Texts /\ new.memNodes \in SUBSET Nat)
  BY DEF SettingsRecord, IsRecord
<1>. QED
  BY <1>6, <1>7, <1>8, <1>9, <1>10 DEF tune, numa, new

\* Patching keeps what is pinned or placed within what there is.
LEMMA PatchedSound ==
  ASSUME NEW s \in SettingsEntry, NEW old, SettingsAreSound(old),
         ValidSettings(s), InContext(s, old)
  PROVE  SettingsAreSound(PatchedSettings(s, old))
<1>. DEFINE tune == VcpuPlacement(s.vcpuTune)
            numa == NumaPlacement(s.numaTune)
            new == PatchedSettings(s, old)
<1>1. old \in SettingsRecord /\ PlacementExists(old)
  BY DEF SettingsAreSound
<1>2. tune \in [pins : SUBSET Nat, ioPins : SUBSET Nat]
  BY DEF SettingsEntry, VcpuPlacement, Given
<1>3. numa \in [policy : Texts, memNodes : SUBSET Nat]
  BY DEF SettingsEntry, NumaPlacement, Given, Texts
<1>4. s.machine \in Machines /\ s.serialLog \in Texts /\ s.graphics \in Texts /\ s.threads \in BOOLEAN
  BY DEF SettingsEntry
<1>5. PatchedMachine(s, old) \in Machines /\ PatchedSerialLog(s, old) \in Texts
  BY <1>1, <1>4 DEF PatchedMachine, PatchedSerialLog, SettingsRecord
<1>6. Controller(s) \in {None} \union [count : Nat, queues : Nat]
      /\ (Controller(s) # None => Controller(s).count = IoThreadCount(s))
  <2>1. s.threads => s.ioThreads # None
    BY DEF ValidSettings, ValidIoThreads
  <2>. QED
    BY <2>1, SettingsSaid DEF Controller, IoMap, IoThreadCount
<1>7. old.pins \in SUBSET Nat /\ old.ioPins \in SUBSET Nat /\ old.memNodes \in SUBSET Nat
      /\ old.policy \in Texts /\ old.other \in BOOLEAN
  BY <1>1 DEF SettingsRecord
<1>8. /\ new.pins = (IF s.vcpuTune = Keep THEN old.pins ELSE tune.pins)
      /\ new.ioPins = (IF s.vcpuTune = Keep THEN old.ioPins ELSE tune.ioPins)
      /\ new.memNodes = (IF s.numaTune = Keep THEN old.memNodes ELSE numa.memNodes)
      /\ new.policy = (IF s.numaTune = Keep THEN old.policy ELSE numa.policy)
      /\ new.vcpus = EffectiveVcpus(s) /\ new.iothreads = IoThreadCount(s)
      /\ new.controller = Controller(s) /\ new.cpu = PatchedCpu(s.cpu, old.cpu)
  BY <1>1, SettingsPatched
<1>9. new \in SettingsRecord
  <2>. HIDE DEF tune, numa
  <2>. QED
    BY <1>1, <1>2, <1>3, <1>4, <1>5, <1>6, <1>7, SettingsPatched, SettingsSaid, CpuPatched
       DEF SettingsRecord, tune, numa
<1>. HIDE DEF new
<1>10. \A vcpu \in new.pins : vcpu < EffectiveVcpus(s)
  BY <1>8 DEF InContext, PinsExist, VcpuPlacement
<1>11. new.ioPins \subseteq 1 .. IoThreadCount(s)
  BY <1>8 DEF InContext, PinsExist, VcpuPlacement, IoThreadCount
<1>12. new.memNodes \subseteq Cells(old)
  BY <1>1, <1>8 DEF InContext, NumaPlacement, PlacementExists
<1>13. Cells(old) \subseteq Cells(new)
  BY <1>1, <1>8, CpuPatched DEF Cells
<1>. QED
  BY <1>6, <1>8, <1>9, <1>10, <1>11, <1>12, <1>13 DEF SettingsAreSound, PlacementExists, new

\* What the manifest leaves open is kept.
LEMMA SettingsKept ==
  ASSUME NEW s \in SettingsEntry, NEW old \in SettingsRecord
  PROVE  OpenSettingsKept(s, old, PatchedSettings(s, old))
<1>. DEFINE new == PatchedSettings(s, old)
<1>1. /\ new.machine = PatchedMachine(s, old)
      /\ new.console = PatchedSerialLog(s, old)
      /\ new.cpu = PatchedCpu(s.cpu, old.cpu)
      /\ s.vcpuTune = Keep => new.pins = old.pins /\ new.ioPins = old.ioPins
      /\ s.numaTune = Keep => new.policy = old.policy /\ new.memNodes = old.memNodes
      /\ new.other = old.other
  BY SettingsPatched
<1>. HIDE DEF new
<1>. QED
  BY <1>1, CpuPatched DEF OpenSettingsKept, PatchedMachine, PatchedSerialLog, new

\* What a dump says of the settings is something a manifest can say.
LEMMA DumpedSettings ==
  ASSUME NEW old \in SettingsRecord
  PROVE  DumpSettings(old) \in SettingsEntry
<1>1. DumpCpu(old) \in [topology : OptionalNat, vcpus : OptionalNat,
                        features : (SUBSET FeatureNames) \union {Keep}] \union {NoCpu}
  BY DEF SettingsRecord, DumpCpu, OptionalNat
<1>2. DumpIoThreads(old) \in [count : Nat, queues : OptionalNat] \union {None}
  BY DEF SettingsRecord, DumpIoThreads, OptionalNat
<1>3. DumpVcpuTune(old) \in [pins : SUBSET Nat, ioPins : SUBSET Nat] \union {Keep, Remove}
  BY DEF SettingsRecord, DumpVcpuTune
<1>4. DumpNumaTune(old) \in [policy : Texts, memNodes : SUBSET Nat] \union {Keep, Remove}
  BY DEF SettingsRecord, DumpNumaTune
<1>5. DumpMemory(old) \in [size : Nat, max : OptionalNat] \union {None}
  BY DEF SettingsRecord, DumpMemory, OptionalNat
<1>6. old.currentMemory \div MiBPerGiB \in Nat
  BY DEF SettingsRecord, MiBPerGiB
<1>7. /\ old.machine \in Machines /\ old.boot \in Seq(Words) \union {None} /\ old.console \in Texts
      /\ old.graphics \in Texts /\ old.vcpus \in Nat /\ old.io \in BOOLEAN
  BY DEF SettingsRecord
<1>. QED
  BY <1>1, <1>2, <1>3, <1>4, <1>5, <1>6, <1>7 DEF DumpSettings, SettingsEntry

\* Settings that are what a manifest says are dumped as the manifest says them.
LEMMA SettingsRepeated ==
  ASSUME NEW s \in SettingsEntry, ValidSettings(s),
         NEW new \in SettingsRecord, TopologyFits(new),
         s.machine \in {None, new.machine},
         new.boot = EffectiveBoot(s),
         s.serialLog \in {None, new.console},
         new.graphics = s.graphics,
         new.maxMemory = MaxMemory(EffectiveMemory(s)),
         new.currentMemory = EffectiveMemory(s).size,
         new.vcpus = EffectiveVcpus(s),
         s.cpu # NoCpu => new.cpu # NoCpu /\ new.cpu.topology = s.cpu.topology
                          /\ s.cpu.features \in {Keep, new.cpu.features},
         new.io = s.threads,
         new.iothreads = IoThreadCount(s),
         new.controller \in {None, Controller(s)},
         s.vcpuTune # Keep => new.pins = VcpuPlacement(s.vcpuTune).pins
                              /\ new.ioPins = VcpuPlacement(s.vcpuTune).ioPins,
         s.numaTune # Keep => new.policy = NumaPlacement(s.numaTune).policy
                              /\ new.memNodes = NumaPlacement(s.numaTune).memNodes
  PROVE  Repeats(DumpSettings(new), s, new.controller)
<1>. DEFINE dump == DumpSettings(new)
<1>1. /\ dump.machine = new.machine /\ dump.boot = new.boot /\ dump.serialLog = new.console
      /\ dump.graphics = new.graphics /\ dump.memory = DumpMemory(new) /\ dump.vcpus = new.vcpus
      /\ dump.cpu = DumpCpu(new) /\ dump.threads = new.io /\ dump.ioThreads = DumpIoThreads(new)
      /\ dump.vcpuTune = DumpVcpuTune(new) /\ dump.numaTune = DumpNumaTune(new)
  BY DEF DumpSettings
<1>. HIDE DEF dump
<1>2. dump.memory.size = EffectiveMemory(s).size /\ MaxMemory(dump.memory) = MaxMemory(EffectiveMemory(s))
  <2>1. new.maxMemory \in Nat /\ new.currentMemory \in Nat
    BY DEF SettingsRecord
  <2>2. dump.memory.size = new.currentMemory /\ MaxMemory(dump.memory) = new.maxMemory
    BY <1>1, <2>1, VmSettingsAssumption DEF DumpMemory, MaxMemory
  <2>. QED
    BY <2>2
<1>3. EffectiveVcpus(dump) = EffectiveVcpus(s)
  <2>1. new.cpu = NoCpu => dump.cpu = NoCpu
    BY <1>1 DEF DumpCpu
  <2>2. new.cpu # NoCpu => new.cpu.topology \in {None, new.vcpus}
    BY DEF TopologyFits
  <2>3. new.cpu # NoCpu => dump.cpu.topology = new.cpu.topology
                           /\ (new.cpu.topology = None => dump.cpu.vcpus = new.vcpus)
    BY <1>1 DEF DumpCpu
  <2>4. dump.vcpus = EffectiveVcpus(s) /\ new.vcpus = EffectiveVcpus(s)
    BY <1>1
  <2>. QED
    BY <2>1, <2>2, <2>3, <2>4 DEF EffectiveVcpus
<1>4. s.cpu # NoCpu => dump.cpu.topology = s.cpu.topology /\ s.cpu.features \in {Keep, dump.cpu.features}
  BY <1>1 DEF DumpCpu
<1>5. /\ dump.ioThreads = None <=> s.ioThreads = None
      /\ new.controller # None => IoMap(dump.ioThreads) = IoMap(s.ioThreads)
  <2>1. new.iothreads \in Nat /\ new.controller \in {None} \union [count : Nat, queues : Nat]
    BY DEF SettingsRecord
  <2>2. s.ioThreads = None => new.iothreads = 0 /\ dump.ioThreads = None
    BY <1>1 DEF IoThreadCount, DumpIoThreads
  <2>3. ASSUME s.ioThreads # None
        PROVE  /\ new.iothreads = s.ioThreads.count /\ new.iothreads > 0
               /\ dump.ioThreads \in [count : Nat, queues : OptionalNat]
               /\ dump.ioThreads # None
    <3>1. new.iothreads = s.ioThreads.count /\ new.iothreads > 0
      BY <2>3 DEF IoThreadCount, ValidSettings, ValidIoThreads
    <3>2. dump.ioThreads \in [count : Nat, queues : OptionalNat]
      BY <1>1, <2>1, <3>1 DEF DumpIoThreads, OptionalNat
    <3>. QED
      BY <3>1, <3>2, VmSettingsAssumption DEF OptionalNat
  <2>4. ASSUME new.controller # None PROVE IoMap(dump.ioThreads) = IoMap(s.ioThreads)
    <3>1. s.threads /\ new.controller = IoMap(s.ioThreads) /\ s.ioThreads # None
      BY <2>4 DEF Controller, ValidSettings, ValidIoThreads
    <3>2. dump.ioThreads = [count |-> new.iothreads,
                            queues |-> IF new.controller.queues = new.iothreads
                                       THEN None ELSE new.controller.queues]
      BY <1>1, <2>3, <2>4, <3>1 DEF DumpIoThreads
    <3>3. new.controller.queues \in Nat /\ new.controller.count = new.iothreads
      BY <2>1, <2>3, <2>4, <3>1 DEF IoMap
    <3>4. IoMap(dump.ioThreads) = [count |-> new.iothreads, queues |-> new.controller.queues]
      BY <3>2, <3>3, VmSettingsAssumption DEF IoMap
    <3>. QED
      BY <3>1, <3>3, <3>4 DEF IoMap
  <2>. QED
    BY <2>2, <2>3, <2>4
<1>6. /\ s.vcpuTune = Remove => dump.vcpuTune = Keep
      /\ Given(s.vcpuTune) =>
           dump.vcpuTune = IF s.vcpuTune.pins \union s.vcpuTune.ioPins = {} THEN Keep ELSE s.vcpuTune
  <2>1. Given(s.vcpuTune) => s.vcpuTune \in [pins : SUBSET Nat, ioPins : SUBSET Nat]
    BY DEF SettingsEntry, Given
  <2>. QED
    BY <1>1, <2>1, VmSettingsAssumption DEF DumpVcpuTune, VcpuPlacement, Given
<1>7. /\ s.numaTune = Remove => dump.numaTune = Keep
      /\ Given(s.numaTune) =>
           dump.numaTune = IF s.numaTune.policy = None /\ s.numaTune.memNodes = {} THEN Keep
                           ELSE s.numaTune
  <2>1. Given(s.numaTune) => s.numaTune \in [policy : Texts, memNodes : SUBSET Nat]
    BY DEF SettingsEntry, Given
  <2>. QED
    BY <1>1, <2>1, VmSettingsAssumption DEF DumpNumaTune, NumaPlacement, Given
<1>. QED
  BY <1>1, <1>2, <1>3, <1>4, <1>5, <1>6, <1>7 DEF Repeats, dump

\* So a dump repeats what the manifest said, after the first apply ...
LEMMA BuiltRepeated ==
  ASSUME NEW s \in SettingsEntry, ValidSettings(s), InContext(s, NothingYet),
         TopologyFits(BuiltSettings(s))
  PROVE  Repeats(DumpSettings(BuiltSettings(s)), s, BuiltSettings(s).controller)
<1>. DEFINE new == BuiltSettings(s)
<1>1. new \in SettingsRecord
  BY BuiltSound DEF SettingsAreSound
<1>2. /\ s.machine \in {None, new.machine}
      /\ new.boot = EffectiveBoot(s)
      /\ new.console = s.serialLog
      /\ new.graphics = s.graphics
      /\ new.maxMemory = MaxMemory(EffectiveMemory(s))
      /\ new.currentMemory = EffectiveMemory(s).size
      /\ new.vcpus = EffectiveVcpus(s)
      /\ new.cpu = BuiltCpu(s.cpu)
      /\ new.io = s.threads
      /\ new.iothreads = IoThreadCount(s)
      /\ new.controller = None
      /\ new.pins = VcpuPlacement(s.vcpuTune).pins
      /\ new.ioPins = VcpuPlacement(s.vcpuTune).ioPins
      /\ new.policy = NumaPlacement(s.numaTune).policy
      /\ new.memNodes = NumaPlacement(s.numaTune).memNodes
  BY DEF BuiltSettings
<1>. HIDE DEF new
<1>3. ASSUME s.cpu # NoCpu
      PROVE  new.cpu # NoCpu /\ new.cpu.topology = s.cpu.topology
             /\ s.cpu.features \in {Keep, new.cpu.features}
  <2>1. s.cpu.topology \in OptionalNat /\ s.cpu.features \in (SUBSET FeatureNames) \union {Keep}
    BY <1>3 DEF SettingsEntry
  <2>2. Features(s.cpu) \in SUBSET FeatureNames /\ s.cpu.features \in {Keep, Features(s.cpu)}
    BY <2>1 DEF Features
  <2>3. new.cpu = [topology |-> s.cpu.topology, features |-> Features(s.cpu), cells |-> {}]
    BY <1>2, <1>3 DEF BuiltCpu
  <2>. QED
    BY <2>1, <2>2, <2>3, VmSettingsAssumption DEF OptionalNat
<1>. QED
  BY <1>1, <1>2, <1>3, SettingsRepeated DEF new

\* ... and after every later one.
LEMMA PatchedRepeated ==
  ASSUME NEW s \in SettingsEntry, NEW old, SettingsAreSound(old),
         ValidSettings(s), InContext(s, old), TopologyFits(PatchedSettings(s, old))
  PROVE  Repeats(DumpSettings(PatchedSettings(s, old)), s, PatchedSettings(s, old).controller)
<1>. DEFINE new == PatchedSettings(s, old)
<1>1. new \in SettingsRecord /\ old \in SettingsRecord
  BY PatchedSound DEF SettingsAreSound
<1>2. /\ new.machine = PatchedMachine(s, old)
      /\ new.boot = EffectiveBoot(s)
      /\ new.console = PatchedSerialLog(s, old)
      /\ new.graphics = s.graphics
      /\ new.maxMemory = MaxMemory(EffectiveMemory(s))
      /\ new.currentMemory = EffectiveMemory(s).size
      /\ new.vcpus = EffectiveVcpus(s)
      /\ new.cpu = PatchedCpu(s.cpu, old.cpu)
      /\ new.io = s.threads
      /\ new.iothreads = IoThreadCount(s)
      /\ new.controller = Controller(s)
      /\ s.vcpuTune # Keep => new.pins = VcpuPlacement(s.vcpuTune).pins
      /\ s.vcpuTune # Keep => new.ioPins = VcpuPlacement(s.vcpuTune).ioPins
      /\ s.numaTune # Keep => new.policy = NumaPlacement(s.numaTune).policy
      /\ s.numaTune # Keep => new.memNodes = NumaPlacement(s.numaTune).memNodes
  BY <1>1, SettingsPatched
<1>. HIDE DEF new
<1>3. s.machine \in {None, new.machine} /\ s.serialLog \in {None, new.console}
  BY <1>2 DEF PatchedMachine, PatchedSerialLog
<1>4. s.cpu # NoCpu => new.cpu # NoCpu /\ new.cpu.topology = s.cpu.topology
                       /\ s.cpu.features \in {Keep, new.cpu.features}
  BY <1>1, <1>2, CpuPatched
<1>. QED
  BY <1>1, <1>2, <1>3, <1>4, SettingsRepeated DEF new

-----------------------------------------------------------------------------
(* Interfaces.                                                               *)

\* What the lists of interfaces say.
NicGiven ==
  [present : {TRUE}, id : NicNames, mac : NicMacs \union {None}, source : Sources,
   vlan : Nat \union {Keep, Remove}]
NicEntry == NicGiven \union [present : {FALSE}, id : NicNames]

\* A MAC address that libvirt made up is that of the interface that the entry is
\* about, or at least of one that stays.
MadeMacsKnown(list) ==
  \A i \in DOMAIN Listed(list) :
    LET e == Listed(list)[i]
    IN e.present /\ e.mac \notin {None, GivenMac} =>
         \E nic \in Values(nics) :
           nic.mac = e.mac /\ (e.id = IdOf(nic) \/ AbsentIds(Listed(list)) = {})

\* A list of interfaces as a file has it: no MAC address of it is taken from another
\* interface.
NicsEntered(list) ==
  /\ Listed(list) \in Seq(NicEntry)
  /\ MacsAreFree(list)
  /\ MadeMacsKnown(list)

\* The entries of a list that are not about an absent interface.
LEMMA NicEntriesGiven ==
  ASSUME NEW list, Listed(list) \in Seq(NicEntry)
  PROVE  /\ Entries(list) \in Seq(NicGiven)
         /\ DOMAIN Entries(list) = 1 .. Len(Entries(list))
         /\ Len(Entries(list)) \in Nat
         /\ \A i \in DOMAIN Entries(list) : Entries(list)[i] \in NicGiven
<1>. DEFINE l == Listed(list)
            p == Entries(list)
<1>1. PICK S : S = NicEntry
  OBVIOUS
<1>2. l \in Seq(S)
  BY <1>1
<1>3. p \in Seq(S) /\ \E at \in [DOMAIN p -> DOMAIN l] :
        \A k \in DOMAIN at : p[k] = l[at[k]] /\ l[at[k]].present
  <2>. HIDE DEF l
  <2>1. p = PresentEntries(l)
    BY DEF Entries, l
  <2>. HIDE DEF p
  <2>. QED
    BY <1>2, <2>1, PresentOnes
<1>. HIDE DEF p, l
<1>4. Len(p) \in Nat /\ DOMAIN p = 1 .. Len(p)
  BY <1>3
<1>5. ASSUME NEW i \in DOMAIN p PROVE p[i] \in NicGiven
  <2>1. p[i] \in NicEntry /\ p[i].present
    BY <1>1, <1>3
  <2>. QED
    BY <2>1 DEF NicEntry
<1>6. p \in Seq(NicGiven)
  BY <1>3, <1>4, <1>5
<1>. QED
  BY <1>4, <1>5, <1>6 DEF p

\* Two lists, one after the other.
LEMMA Joined ==
  ASSUME NEW f, NEW g, NEW S \in Nat, NEW A \in Nat,
         f = [k \in 1 .. S |-> f[k]], g = [k \in 1 .. A |-> g[k]]
  PROVE  /\ DOMAIN (f \o g) = 1 .. S + A
         /\ \A k \in 1 .. S : (f \o g)[k] = f[k]
         /\ \A k \in 1 .. A : (f \o g)[S + k] = g[k]
         /\ f \o g = [k \in 1 .. S + A |-> (f \o g)[k]]
<1>. DEFINE V == Values(f) \union Values(g)
<1>1. f \in [1 .. S -> V] /\ g \in [1 .. A -> V]
  BY DEF Values
<1>. HIDE DEF V
<1>2. f \in Seq(V) /\ g \in Seq(V) /\ Len(f) = S /\ Len(g) = A
  BY <1>1
<1>3. f \o g \in Seq(V) /\ Len(f \o g) = S + A
  BY <1>2
<1>. QED
  BY <1>2, <1>3

\* The interfaces of a definition are finitely many, each at one place.
LEMMA NicsFinite ==
  ASSUME NicsAreSound(nics)
  PROVE  /\ Len(nics) \in Nat /\ DOMAIN nics = 1 .. Len(nics)
         /\ IsFiniteSet(DOMAIN nics)
         /\ IsFiniteSet(Values(nics))
         /\ IsFiniteSet(Nodes(Values(nics)))
         /\ \A nic \in Values(nics) : nic \in NicRecord /\ \E k \in DOMAIN nics : nics[k] = nic
         /\ \A k \in DOMAIN nics : nics[k] \in NicRecord /\ nics[k] \in Values(nics)
         /\ \A nic, other \in Values(nics) : nic.node = other.node => nic = other
         /\ \A nic, other \in Values(nics) : nic.mac = other.mac => nic = other
         /\ \A nic \in Values(nics) : nic.mac \in {GivenMac, [madeFor |-> nic.node]}
<1>1. Len(nics) \in Nat /\ DOMAIN nics = 1 .. Len(nics)
  BY DEF NicsAreSound
<1>2. IsFiniteSet(DOMAIN nics) /\ IsFiniteSet(Values(nics))
  BY <1>1, FiniteParts, FiniteValues
<1>3. IsFiniteSet(Nodes(Values(nics)))
  <2>. DEFINE f == [nic \in Values(nics) |-> nic.node]
  <2>1. Values(f) = Nodes(Values(nics)) /\ DOMAIN f = Values(nics)
    <3>1. \A x : x \in Values(f) <=> \E nic \in Values(nics) : x = nic.node
      BY DEF Values
    <3>. QED
      BY <3>1 DEF Nodes
  <2>. HIDE DEF f
  <2>. QED
    BY <1>2, <2>1, FiniteValues
<1>4. \A k \in DOMAIN nics : nics[k] \in NicRecord /\ nics[k] \in Values(nics)
  BY <1>1 DEF NicsAreSound, Values
<1>5. \A nic \in Values(nics) : \E k \in DOMAIN nics : nics[k] = nic
  BY DEF Values
<1>6. \A nic, other \in Values(nics) : nic.node = other.node => nic = other
  BY <1>5 DEF NicsAreSound
<1>7. \A nic, other \in Values(nics) : nic.mac = other.mac => nic = other
  BY <1>5 DEF NicsAreSound
<1>8. \A nic \in Values(nics) : nic.mac \in {GivenMac, [madeFor |-> nic.node]}
  BY <1>5 DEF NicsAreSound
<1>. QED
  BY <1>1, <1>2, <1>3, <1>4, <1>5, <1>6, <1>7, <1>8

\* What becomes of the interfaces: those that are not absent come first, each as it
\* was or with what the one entry says that is about it, then those of the
\* entries that are about none.
IsAfter(list, match, nic, new) ==
  \/ new = nic /\ \A i \in DOMAIN match : nic \notin match[i]
  \/ \E i \in DOMAIN match : match[i] = {nic} /\ new = MergedNic(nic, Entries(list)[i])

\* new is the patched list: S interfaces that stay, the k-th of them from[k], and A
\* that are added, the k-th of them for the entry of[k].
Shaped(list, match, new, S, A, from, of) ==
  /\ new = [k \in 1 .. S + A |-> new[k]]
  /\ \A k \in 1 .. S : nics[from[k]] \notin AbsentNics(list, nics)
                       /\ IsAfter(list, match, nics[from[k]], new[k])
  /\ \A k, l \in 1 .. S : from[k] = from[l] => k = l
  /\ \A j \in DOMAIN nics : nics[j] \notin AbsentNics(list, nics) => \E k \in 1 .. S : from[k] = j
  /\ \A k \in 1 .. A : match[of[k]] = {}
                       /\ new[S + k] = NewNic(Free(Nodes(Values(nics)), k), Entries(list)[of[k]])
  /\ \A k, l \in 1 .. A : of[k] = of[l] => k = l
  /\ \A i \in DOMAIN match : match[i] = {} => \E k \in 1 .. A : of[k] = i

\* The patched list is so.
LEMMA NicsShaped ==
  ASSUME NEW list, list # NoInterfaces, Listed(list) \in Seq(NicEntry), NicsAreSound(nics),
         NicsPatchable(list, nics)
  PROVE  LET match == NicMatches(list, nics)
         IN  \E S, A \in Nat : \E from \in [1 .. S -> DOMAIN nics], of \in [1 .. A -> DOMAIN match] :
               Shaped(list, match, PatchedNics(list, nics), S, A, from, of)
<1>. DEFINE match == NicMatches(list, nics)
            kept == Values(nics) \ AbsentNics(list, nics)
            EntryOf(nic) == {i \in DOMAIN match : nic \in match[i]}
            there == {k \in DOMAIN nics : nics[k] \notin AbsentNics(list, nics)}
            open == {i \in DOMAIN match : match[i] = {}}
            stay == Picked(nics, there)
            added == Picked(Entries(list), open)
            After(nic) == IF EntryOf(nic) = {} THEN nic
                          ELSE MergedNic(nic, Entries(list)[The(EntryOf(nic))])
            S == Cardinality(there)
            A == Cardinality(open)
            from == [k \in 1 .. S |-> Nth(there, k)]
            of == [k \in 1 .. A |-> Nth(open, k)]
            first == [k \in DOMAIN stay |-> After(stay[k])]
            then == [k \in DOMAIN added |-> NewNic(Free(Nodes(Values(nics)), k), added[k])]
            new == PatchedNics(list, nics)
<1>1. PICK n \in Nat : DOMAIN Entries(list) = 1 .. n
  BY NicEntriesGiven
<1>2. DOMAIN match = 1 .. n /\ Apart(match, kept)
  BY <1>1, NicsMatched
<1>3. IsFiniteSet(kept) /\ Unambiguous(match)
  BY NicsFinite, FS_Subset DEF NicsPatchable
<1>4. \A i \in DOMAIN match : match[i] # {} => match[i] = {The(match[i])} /\ The(match[i]) \in kept
  <2>. HIDE DEF match, kept
  <2>. QED
    BY <1>2, <1>3, TheOne
<1>5. there \in SUBSET Nat /\ open \in SUBSET Nat /\ IsFiniteSet(there) /\ IsFiniteSet(open)
      /\ there \subseteq DOMAIN nics /\ open \subseteq DOMAIN match
  <2>. HIDE DEF match
  <2>1. there \subseteq DOMAIN nics /\ open \subseteq DOMAIN match
    OBVIOUS
  <2>2. IsFiniteSet(DOMAIN nics) /\ DOMAIN nics \subseteq Nat
    BY NicsFinite
  <2>3. IsFiniteSet(DOMAIN match) /\ DOMAIN match \subseteq Nat
    BY <1>2, FiniteParts
  <2>. QED
    BY <2>1, <2>2, <2>3, FS_Subset
<1>6. new = first \o then
  BY DEF PatchedNics
<1>. HIDE DEF match, kept, new
<1>7. /\ S \in Nat /\ DOMAIN stay = 1 .. S
      /\ \A k \in 1 .. S : from[k] \in there /\ stay[k] = nics[from[k]]
      /\ \A j \in there : \E k \in 1 .. S : from[k] = j
      /\ \A k, l \in 1 .. S : from[k] = from[l] => k = l
  <2>. HIDE DEF there, stay
  <2>1. PICK P : P = there
    OBVIOUS
  <2>. QED
    BY <1>5, PickedMembers DEF stay
<1>8. /\ A \in Nat /\ DOMAIN added = 1 .. A
      /\ \A k \in 1 .. A : of[k] \in open /\ added[k] = Entries(list)[of[k]]
      /\ \A i \in open : \E k \in 1 .. A : of[k] = i
      /\ \A k, l \in 1 .. A : of[k] = of[l] => k = l
  <2>. HIDE DEF open, added
  <2>1. PICK L, P : L = Entries(list) /\ P = open
    OBVIOUS
  <2>2. /\ DOMAIN Picked(L, P) = 1 .. Cardinality(P)
        /\ Cardinality(P) \in Nat
        /\ \A k \in DOMAIN Picked(L, P) : Nth(P, k) \in P /\ Picked(L, P)[k] = L[Nth(P, k)]
        /\ \A i \in P : \E k \in DOMAIN Picked(L, P) : Nth(P, k) = i
        /\ \A k, l \in DOMAIN Picked(L, P) : Nth(P, k) = Nth(P, l) => k = l
    BY <1>5, <2>1, PickedMembers
  <2>. QED
    BY <2>1, <2>2 DEF added
<1>9. from \in [1 .. S -> DOMAIN nics] /\ of \in [1 .. A -> DOMAIN match]
  <2>. HIDE DEF there, open
  <2>1. \A k \in 1 .. S : Nth(there, k) \in DOMAIN nics
    BY <1>5, <1>7
  <2>2. \A k \in 1 .. A : Nth(open, k) \in DOMAIN match
    BY <1>5, <1>8
  <2>. QED
    BY <2>1, <2>2
<1>10. ASSUME NEW nic \in Values(nics) PROVE IsAfter(list, match, nic, After(nic))
  <2>1. CASE EntryOf(nic) = {}
    BY <2>1 DEF IsAfter
  <2>2. CASE EntryOf(nic) # {}
    <3>1. PICK i : i = The(EntryOf(nic)) /\ i \in EntryOf(nic)
      BY <2>2 DEF The
    <3>2. i \in DOMAIN match /\ match[i] = {nic}
      BY <1>4, <3>1
    <3>. QED
      BY <2>2, <3>1, <3>2 DEF IsAfter
  <2>. QED
    BY <2>1, <2>2
<1>. HIDE DEF After
<1>11. first = [k \in 1 .. S |-> first[k]] /\ then = [k \in 1 .. A |-> then[k]]
  BY <1>7, <1>8
<1>12. /\ \A k \in 1 .. S : first[k] = After(nics[from[k]])
       /\ \A k \in 1 .. A : then[k] = NewNic(Free(Nodes(Values(nics)), k), Entries(list)[of[k]])
  BY <1>7, <1>8
<1>. HIDE DEF first, then, from, of, stay, added
<1>13. /\ new = [k \in 1 .. S + A |-> new[k]]
       /\ \A k \in 1 .. S : new[k] = After(nics[from[k]])
       /\ \A k \in 1 .. A : new[S + k] = NewNic(Free(Nodes(Values(nics)), k), Entries(list)[of[k]])
  <2>. HIDE DEF S, A
  <2>. QED
    BY <1>6, <1>7, <1>8, <1>11, <1>12, Joined
<1>14. \A k \in 1 .. S : nics[from[k]] \notin AbsentNics(list, nics)
                         /\ IsAfter(list, match, nics[from[k]], new[k])
  <2>. SUFFICES ASSUME NEW k \in 1 .. S
                PROVE  nics[from[k]] \notin AbsentNics(list, nics)
                       /\ IsAfter(list, match, nics[from[k]], new[k])
    OBVIOUS
  <2>. HIDE DEF S
  <2>1. from[k] \in DOMAIN nics /\ nics[from[k]] \notin AbsentNics(list, nics)
    BY <1>7
  <2>2. PICK nic \in Values(nics) : nic = nics[from[k]]
    BY <2>1, NicsFinite
  <2>3. IsAfter(list, match, nic, After(nic))
    BY <1>10
  <2>. QED
    BY <1>13, <2>1, <2>2, <2>3
<1>15. \A k \in 1 .. A : match[of[k]] = {}
  BY <1>8
<1>. HIDE DEF S, A
<1>16. Shaped(list, match, new, S, A, from, of)
  BY <1>7, <1>8, <1>13, <1>14, <1>15 DEF Shaped
<1>. QED
  BY <1>7, <1>8, <1>9, <1>16 DEF match, new

\* An interface with what an entry says, and a new one.
LEMMA NicMerged ==
  ASSUME NEW nic \in NicRecord, NEW e \in NicGiven
  PROVE  LET new == MergedNic(nic, e)
         IN  /\ new \in NicRecord
             /\ new.node = nic.node
             /\ new.alias = IF nic.alias = Foreign THEN Foreign ELSE e.id
             /\ new.mac = IF e.mac = None THEN nic.mac ELSE e.mac
             /\ new.source = e.source
             /\ new.vlan = MergedField(nic.vlan, e.vlan)
<1>1. e.id # NoId
  BY VmDefinitionAssumption DEF NicGiven, NicNames, NicMacs
<1>2. MergedAlias(nic.alias, e.id) = IF nic.alias = Foreign THEN Foreign ELSE e.id
  BY <1>1 DEF MergedAlias
<1>3. MergedField(nic.vlan, e.vlan) \in Nat \union {None}
  BY DEF MergedField, NicRecord, NicGiven
<1>4. e.id \in NicNames /\ e.mac \in NicMacs \union {None} /\ e.source \in Sources
  BY DEF NicGiven
<1>5. nic.alias \in NicNames \union {NoId, Foreign} /\ nic.mac \in NicMacs
  BY DEF NicRecord
<1>6. MergedNic(nic, e) =
        [node |-> nic.node, alias |-> MergedAlias(nic.alias, e.id),
         mac |-> IF e.mac = None THEN nic.mac ELSE e.mac,
         source |-> e.source, vlan |-> MergedField(nic.vlan, e.vlan)]
  <2>1. DOMAIN nic = {"node", "alias", "mac", "source", "vlan"}
    BY DEF NicRecord
  <2>2. PICK alias, mac, vlan :
          /\ alias = MergedAlias(nic.alias, e.id)
          /\ mac = IF e.mac = None THEN nic.mac ELSE e.mac
          /\ vlan = MergedField(nic.vlan, e.vlan)
    OBVIOUS
  <2>3. MergedNic(nic, e) = [nic EXCEPT !.alias = alias, !.mac = mac, !.source = e.source,
                                        !.vlan = vlan]
    BY <2>1, <2>2 DEF MergedNic
  <2>4. MergedNic(nic, e) = [node |-> nic.node, alias |-> alias, mac |-> mac,
                             source |-> e.source, vlan |-> vlan]
    BY <2>3 DEF NicRecord
  <2>. QED
    BY <2>2, <2>4
<1>. QED
  BY <1>2, <1>3, <1>4, <1>5, <1>6 DEF NicRecord

\* What a new interface has of its entry.
LEMMA NicMade ==
  ASSUME NEW node \in Nat, NEW e \in NicGiven
  PROVE  LET new == NewNic(node, e)
         IN  /\ new \in NicRecord
             /\ new.node = node
             /\ new.alias = e.id
             /\ new.mac = IF e.mac = None THEN [madeFor |-> node] ELSE e.mac
             /\ new.source = e.source
             /\ new.vlan = IF Given(e.vlan) THEN e.vlan ELSE None
<1>1. e.id \in NicNames /\ e.mac \in NicMacs \union {None} /\ e.source \in Sources
      /\ e.vlan \in Nat \union {Keep, Remove}
  BY DEF NicGiven
<1>2. [madeFor |-> node] \in NicMacs
  BY DEF NicMacs
<1>3. NewNic(node, e) =
        [node |-> node, alias |-> e.id, mac |-> IF e.mac = None THEN [madeFor |-> node] ELSE e.mac,
         source |-> e.source, vlan |-> IF Given(e.vlan) THEN e.vlan ELSE None]
  BY DEF NewNic, Mac
<1>. QED
  BY <1>1, <1>2, <1>3 DEF NicRecord, Given

\* An entry is about the interface that has its id or its MAC address.
About(e, nic) == IdOf(nic) = e.id \/ (e.mac # None /\ nic.mac = e.mac)

\* The entries of a valid list that has been entered are about different interfaces:
\* one with the MAC address of an interface is about no other.
LEMMA NicMatching ==
  ASSUME NEW list, Listed(list) \in Seq(NicEntry), NicsAreSound(nics),
         ValidInterfaces(list), Unambiguous(NicMatches(list, nics))
  PROVE  LET match == NicMatches(list, nics)
             list1 == Entries(list)
             kept == Values(nics) \ AbsentNics(list, nics)
         IN  /\ DOMAIN match = DOMAIN list1
             /\ \A i \in DOMAIN match : \A nic \in match[i] :
                  nic \in kept /\ About(list1[i], nic) /\ match[i] = {nic}
             /\ \A i, k \in DOMAIN match : \A nic \in match[i] : nic \in match[k] => i = k
             /\ \A i \in DOMAIN match, nic \in kept :
                  About(list1[i], nic) => \E k \in DOMAIN match : nic \in match[k]
             /\ MacsAreFree(list) =>
                  \A i \in DOMAIN match, nic \in kept : list1[i].mac = nic.mac => match[i] = {nic}
<1>. DEFINE match == NicMatches(list, nics)
            list1 == Entries(list)
            kept == Values(nics) \ AbsentNics(list, nics)
<1>1. PICK n \in Nat : DOMAIN list1 = 1 .. n
  BY NicEntriesGiven
<1>2. /\ DOMAIN match = 1 .. n
      /\ \A i \in 1 .. n : match[i] = MatchNic(list1[i], kept \ UNION Earlier(match, i))
      /\ Apart(match, kept)
  BY <1>1, NicsMatched
<1>3. IsFiniteSet(kept)
  BY NicsFinite, FS_Subset
<1>4. \A i \in DOMAIN match : match[i] # {} => match[i] = {The(match[i])} /\ The(match[i]) \in kept
  <2>. HIDE DEF match, kept
  <2>. QED
    BY <1>2, <1>3, TheOne DEF match
<1>5. \A nic \in kept : nic \in Values(nics)
  OBVIOUS
<1>. HIDE DEF match, list1, kept
<1>6. ASSUME NEW i \in DOMAIN match, NEW nic
      PROVE  nic \in match[i] <=> nic \in kept \ UNION Earlier(match, i) /\ About(list1[i], nic)
  BY <1>2 DEF MatchNic, About
<1>7. ASSUME NEW i \in DOMAIN match, NEW nic \in match[i]
      PROVE  nic \in kept /\ About(list1[i], nic) /\ match[i] = {nic}
  BY <1>4, <1>6
<1>8. ASSUME NEW i \in DOMAIN match, NEW nic \in kept, About(list1[i], nic)
      PROVE  \E k \in DOMAIN match : k <= i /\ nic \in match[k]
  <2>1. CASE nic \in UNION Earlier(match, i)
    <3>1. PICK k \in 1 .. i - 1 : nic \in match[k]
      BY <2>1 DEF Earlier
    <3>. QED
      BY <1>2, <3>1
  <2>2. CASE nic \notin UNION Earlier(match, i)
    <3>1. nic \in match[i] /\ i <= i
      BY <1>2, <1>6, <1>8, <2>2
    <3>. QED
      BY <3>1
  <2>. QED
    BY <2>1, <2>2
<1>9. ASSUME MacsAreFree(list), NEW i \in DOMAIN match, NEW nic \in kept, list1[i].mac = nic.mac
      PROVE  match[i] = {nic}
  <2>1. nic.mac # None /\ About(list1[i], nic)
    <3>1. nic.mac \in NicMacs
      BY <1>5, NicsFinite DEF NicRecord
    <3>. QED
      BY <1>9, <3>1, VmDefinitionAssumption DEF NicMacs, About
  <2>2. PICK k \in DOMAIN match : nic \in match[k]
    BY <1>8, <2>1
  <2>3. About(list1[k], nic)
    BY <1>7, <2>2
  <2>4. k = i
    <3>1. CASE IdOf(nic) = list1[k].id
      BY <1>1, <1>2, <1>5, <1>9, <3>1 DEF MacsAreFree, list1
    <3>2. CASE list1[k].mac = nic.mac
      BY <1>1, <1>2, <1>9, <2>1, <3>2 DEF ValidInterfaces, MacsDiffer, list1
    <3>. QED
      BY <2>3, <3>1, <3>2 DEF About
  <2>. QED
    BY <1>7, <2>2, <2>4
<1>10. \A i, k \in DOMAIN match : \A nic \in match[i] : nic \in match[k] => i = k
  BY <1>2 DEF Apart
<1>11. \A i \in DOMAIN match, nic \in kept :
         About(list1[i], nic) => \E k \in DOMAIN match : nic \in match[k]
  BY <1>8
<1>. QED
  BY <1>1, <1>2, <1>7, <1>9, <1>10, <1>11 DEF match, list1, kept

\* An entry with an address that libvirt made up is about the interface it was made
\* up for.
LEMMA MadeMacs ==
  ASSUME NEW list, list # NoInterfaces, NicsEntered(list), NicsAreSound(nics),
         ValidInterfaces(list),
         Unambiguous(NicMatches(list, nics)),
         NEW i \in DOMAIN Entries(list), Entries(list)[i].mac \notin {None, GivenMac}
  PROVE  \E nic \in Values(nics) :
           /\ NicMatches(list, nics)[i] = {nic}
           /\ nic.mac = Entries(list)[i].mac
           /\ Entries(list)[i].mac = [madeFor |-> nic.node]
<1>. DEFINE l == Listed(list)
            e == Entries(list)[i]
<1>0. l = list /\ l \in Seq(NicEntry) /\ MacsAreFree(list) /\ MadeMacsKnown(list)
  BY DEF NicsEntered, Listed
<1>1. PICK j \in DOMAIN l : e = l[j] /\ l[j].present
  <2>1. PICK S, p : S = NicEntry /\ p = l /\ p \in Seq(S)
    BY <1>0
  <2>2. \E at \in [DOMAIN PresentEntries(p) -> DOMAIN p] :
           \A k \in DOMAIN at : PresentEntries(p)[k] = p[at[k]] /\ p[at[k]].present
    BY <2>1, PresentOnes
  <2>3. DOMAIN Entries(list) = DOMAIN PresentEntries(p) /\ e = PresentEntries(p)[i]
    BY <2>1 DEF Entries
  <2>. QED
    BY <2>1, <2>2, <2>3
<1>2. PICK nic \in Values(nics) : nic.mac = e.mac /\ (e.id = IdOf(nic) \/ AbsentIds(l) = {})
  BY <1>0, <1>1 DEF MadeMacsKnown
<1>3. e \in NicGiven
  BY <1>0, NicEntriesGiven
<1>4. nic \notin AbsentNics(list, nics)
  <2>1. CASE e.id = IdOf(nic)
    <3>1. ASSUME IdOf(nic) \in AbsentIds(l) PROVE FALSE
      <4>1. PICK k \in DOMAIN l : ~l[k].present /\ l[k].id = IdOf(nic)
        BY <3>1 DEF AbsentIds
      <4>2. e.id # NoId
        BY <1>3, VmDefinitionAssumption DEF NicGiven, NicNames, NicMacs
      <4>3. IdsDiffer(l)
        BY DEF ValidInterfaces
      <4>4. k = j
        BY <1>1, <2>1, <4>1, <4>2, <4>3 DEF IdsDiffer
      <4>. QED
        BY <1>1, <4>1, <4>4
    <3>. QED
      BY <1>0, <3>1 DEF AbsentNics
  <2>2. CASE AbsentIds(l) = {}
    BY <1>0, <2>2 DEF AbsentNics
  <2>. QED
    BY <1>2, <2>1, <2>2
<1>5. DOMAIN NicMatches(list, nics) = DOMAIN Entries(list) /\ NicMatches(list, nics)[i] = {nic}
  BY <1>0, <1>2, <1>4, NicMatching
<1>6. e.mac = [madeFor |-> nic.node]
  BY <1>2, NicsFinite
<1>. QED
  BY <1>2, <1>5, <1>6

\* The interfaces of a patched definition have addresses of their own, none leaves
\* that is not absent, each entry has one, and what a list leaves open is kept.
LEMMA NicsReplanned ==
  ASSUME NEW list, list # NoInterfaces, NicsEntered(list), NicsAreSound(nics),
         ValidInterfaces(list), NicsPatchable(list, nics)
  PROVE  LET new == PatchedNics(list, nics)
         IN  /\ NicsAreSound(new)
             /\ \A nic \in Values(nics) :
                  nic.node \in Nodes(Values(new)) \/ IdOf(nic) \in AbsentIds(Listed(list))
             /\ NicsRealised(list, new)
             /\ OpenNicsKept(list, nics, new)
<1>. DEFINE new == PatchedNics(list, nics)
            match == NicMatches(list, nics)
            list1 == Entries(list)
            kept == Values(nics) \ AbsentNics(list, nics)
            free(k) == Free(Nodes(Values(nics)), k)
<1>0. Listed(list) \in Seq(NicEntry) /\ Unambiguous(match) /\ MacsAreFree(list) /\ Listed(list) = list
  BY DEF NicsEntered, NicsPatchable, Listed
<1>1. PICK S \in Nat, A \in Nat :
        \E from \in [1 .. S -> DOMAIN nics], of \in [1 .. A -> DOMAIN match] :
          Shaped(list, match, new, S, A, from, of)
  BY <1>0, NicsShaped
<1>1a. PICK from \in [1 .. S -> DOMAIN nics], of \in [1 .. A -> DOMAIN match] :
         Shaped(list, match, new, S, A, from, of)
  BY <1>1
<1>2. /\ DOMAIN match = DOMAIN list1
      /\ \A i \in DOMAIN match : \A nic \in match[i] :
           nic \in kept /\ About(list1[i], nic) /\ match[i] = {nic}
      /\ \A i, k \in DOMAIN match : \A nic \in match[i] : nic \in match[k] => i = k
      /\ \A i \in DOMAIN match, nic \in kept :
           About(list1[i], nic) => \E k \in DOMAIN match : nic \in match[k]
      /\ \A i \in DOMAIN match, nic \in kept : list1[i].mac = nic.mac => match[i] = {nic}
  BY <1>0, NicMatching
<1>3. \A i \in DOMAIN match : list1[i] \in NicGiven
  BY <1>0, <1>2, NicEntriesGiven
<1>3a. \A k \in 1 .. A : k \in Nat \ {0}
  BY <1>1
<1>4. \A k \in 1 .. A : free(k) \in Nat /\ free(k) \notin Nodes(Values(nics))
  BY <1>3a, NicsFinite, FreeIsFree
<1>5. \A k, l \in 1 .. A : free(k) = free(l) => k = l
  BY <1>3a, NicsFinite, FreeIsFree
<1>6. ASSUME NEW i \in DOMAIN match, list1[i].mac \notin {None, GivenMac}
      PROVE  \E nic \in Values(nics) : match[i] = {nic} /\ nic.mac = list1[i].mac
                                       /\ list1[i].mac = [madeFor |-> nic.node]
  <2>1. i \in DOMAIN Entries(list)
    BY <1>2
  <2>. QED
    BY <1>0, <1>6, <2>1, MadeMacs
<1>7. \A i, k \in DOMAIN match : list1[i].mac = list1[k].mac /\ list1[i].mac # None => i = k
  BY <1>2 DEF ValidInterfaces, MacsDiffer
<1>8. /\ new = [k \in 1 .. S + A |-> new[k]]
      /\ \A k \in 1 .. S : nics[from[k]] \in kept /\ IsAfter(list, match, nics[from[k]], new[k])
      /\ \A k, l \in 1 .. S : from[k] = from[l] => k = l
      /\ \A j \in DOMAIN nics : nics[j] \in kept => \E k \in 1 .. S : from[k] = j
      /\ \A k \in 1 .. A : match[of[k]] = {} /\ new[S + k] = NewNic(free(k), list1[of[k]])
      /\ \A k, l \in 1 .. A : of[k] = of[l] => k = l
      /\ \A i \in DOMAIN match : match[i] = {} => \E k \in 1 .. A : of[k] = i
  BY <1>1a, NicsFinite DEF Shaped
<1>9. \A j \in DOMAIN nics : nics[j] \in NicRecord /\ nics[j] \in Values(nics)
  BY NicsFinite
<1>10. kept \subseteq Values(nics)
  OBVIOUS
<1>11. \A nic \in Values(nics) :
         /\ nic \in NicRecord /\ nic.node \in Nodes(Values(nics))
         /\ nic.mac \in {GivenMac, [madeFor |-> nic.node]}
         /\ \E j \in DOMAIN nics : nics[j] = nic
  BY NicsFinite DEF Nodes
<1>12. \A nic, other \in Values(nics) : nic.node = other.node \/ nic.mac = other.mac => nic = other
  BY NicsFinite
<1>. HIDE DEF match, list1, new, free
\* The interfaces that stay, each with the entry that is about it, if one is, ...
<1>13. ASSUME NEW k \in 1 .. S
       PROVE  LET nic == nics[from[k]]
              IN  /\ nic \in kept /\ new[k] \in NicRecord /\ new[k].node = nic.node
                  /\ new[k].mac \in {GivenMac, [madeFor |-> new[k].node]}
                  /\ \/ new[k] = nic /\ \A i \in DOMAIN match : nic \notin match[i]
                     \/ \E i \in DOMAIN match : match[i] = {nic} /\ new[k] = MergedNic(nic, list1[i])
  <2>. DEFINE nic == nics[from[k]]
  <2>1. nic \in kept /\ nic \in NicRecord /\ nic.mac \in {GivenMac, [madeFor |-> nic.node]}
    BY <1>8, <1>10, <1>11
  <2>2. IsAfter(list, match, nic, new[k])
    BY <1>8
  <2>3. ASSUME NEW i \in DOMAIN match, match[i] = {nic}, new[k] = MergedNic(nic, list1[i])
        PROVE  /\ new[k] \in NicRecord /\ new[k].node = nic.node
               /\ new[k].mac \in {GivenMac, [madeFor |-> new[k].node]}
    <3>. HIDE DEF nic
    <3>1. list1[i] \in NicGiven
      BY <1>3
    <3>2. /\ new[k] \in NicRecord /\ new[k].node = nic.node
          /\ new[k].mac = IF list1[i].mac = None THEN nic.mac ELSE list1[i].mac
      BY <2>1, <2>3, <3>1, NicMerged
    <3>3. list1[i].mac \in {None, GivenMac, [madeFor |-> nic.node]}
      BY <1>6, <2>3
    <3>. QED
      BY <2>1, <3>2, <3>3
  <2>. HIDE DEF kept
  <2>. QED
    BY <2>1, <2>2, <2>3 DEF IsAfter, list1
\* ... and the new ones.
<1>14. ASSUME NEW k \in 1 .. A
       PROVE  LET e == list1[of[k]]
              IN  /\ of[k] \in DOMAIN match /\ match[of[k]] = {}
                  /\ e \in NicGiven
                  /\ new[S + k] = NewNic(free(k), e)
                  /\ new[S + k] \in NicRecord /\ new[S + k].node = free(k)
                  /\ new[S + k].mac = IF e.mac = None THEN [madeFor |-> free(k)] ELSE GivenMac
                  /\ e.mac \in {None, GivenMac}
  <2>1. of[k] \in DOMAIN match /\ match[of[k]] = {} /\ new[S + k] = NewNic(free(k), list1[of[k]])
    BY <1>8
  <2>2. list1[of[k]].mac \in {None, GivenMac}
    BY <1>6, <2>1
  <2>3. list1[of[k]] \in NicGiven /\ free(k) \in Nat
    BY <1>3, <1>4, <2>1
  <2>. QED
    BY <2>1, <2>2, <2>3, NicMade
<1>15. ASSUME NEW x \in 1 .. S + A
       PROVE  x \in 1 .. S \/ \E k \in 1 .. A : x = S + k
  <2>1. x <= S \/ (x - S \in 1 .. A /\ x = S + (x - S))
    OBVIOUS
  <2>. QED
    BY <2>1
<1>16. ASSUME NEW x \in 1 .. S + A
       PROVE  new[x] \in NicRecord /\ new[x].mac \in {GivenMac, [madeFor |-> new[x].node]}
  <2>1. CASE x \in 1 .. S
    BY <1>13, <2>1
  <2>2. CASE \E k \in 1 .. A : x = S + k
    BY <1>14, <2>2
  <2>. QED
    BY <1>15, <2>1, <2>2
<1>17. new \in Seq(NicRecord) /\ DOMAIN new = 1 .. S + A
  BY <1>8, <1>16
<1>18. ASSUME NEW x \in 1 .. S + A, NEW y \in 1 .. S + A, new[x].node = new[y].node
       PROVE  x = y
  <2>1. ASSUME NEW k \in 1 .. S
        PROVE  new[k].node \in Nodes(Values(nics)) /\ new[k].node = nics[from[k]].node
               /\ nics[from[k]] \in Values(nics) /\ from[k] \in DOMAIN nics
    <3>1. new[k].node = nics[from[k]].node /\ from[k] \in DOMAIN nics
      BY <1>13
    <3>. QED
      BY <1>9, <1>11, <3>1
  <2>2. \A k \in 1 .. A : new[S + k].node = free(k) /\ free(k) \notin Nodes(Values(nics))
    BY <1>4, <1>14
  <2>3. \A k, l \in 1 .. S : new[k].node = new[l].node => k = l
    <3>1. \A i, j \in DOMAIN nics : nics[i].node = nics[j].node => i = j
      BY DEF NicsAreSound
    <3>2. \A k \in 1 .. S : new[k].node = nics[from[k]].node /\ from[k] \in DOMAIN nics
      BY <2>1
    <3>3. \A k, l \in 1 .. S : from[k] = from[l] => k = l
      BY <1>8
    <3>. QED
      BY <3>1, <3>2, <3>3
  <2>4. \A k, l \in 1 .. A : new[S + k].node = new[S + l].node => k = l
    BY <1>5, <2>2
  <2>. HIDE DEF kept
  <2>. QED
    <3>1. CASE x \in 1 .. S
      <4>1. new[x].node \in Nodes(Values(nics))
        BY <2>1, <3>1
      <4>2. y \in 1 .. S
        <5>1. ASSUME NEW l \in 1 .. A, y = S + l PROVE FALSE
          <6>1. new[S + l].node \notin Nodes(Values(nics))
            BY <2>2
          <6>. QED
            BY <1>18, <4>1, <5>1, <6>1
        <5>. QED
          BY <1>15, <5>1
      <4>. QED
        BY <1>18, <2>3, <3>1, <4>2
    <3>2. ASSUME NEW k \in 1 .. A, x = S + k PROVE x = y
      <4>1. new[x].node \notin Nodes(Values(nics))
        BY <2>2, <3>2
      <4>2. PICK l \in 1 .. A : y = S + l
        BY <1>15, <1>18, <2>1, <4>1
      <4>3. k = l
        BY <1>18, <2>4, <3>2, <4>2
      <4>. QED
        BY <3>2, <4>2, <4>3
    <3>. QED
      BY <1>15, <3>1, <3>2
\* Whose the given address is: an interface's that keeps it, or an entry's.
<1>19. ASSUME NEW x \in 1 .. S + A, new[x].mac = GivenMac
       PROVE  \/ /\ x \in 1 .. S /\ nics[from[x]].mac = GivenMac
                 /\ \A i \in DOMAIN match : nics[from[x]] \in match[i] => list1[i].mac = None
              \/ \E i \in DOMAIN match :
                   /\ list1[i].mac = GivenMac
                   /\ \/ x \in 1 .. S /\ match[i] = {nics[from[x]]}
                      \/ \E k \in 1 .. A : x = S + k /\ of[k] = i
  <2>0. None # GivenMac /\ GivenMac \notin [madeFor : Nat]
    BY VmDefinitionAssumption
  <2>1. CASE x \in 1 .. S
    <3>. DEFINE nic == nics[from[x]]
    <3>1. nic \in kept /\ nic \in NicRecord
      BY <1>11, <1>13, <2>1
    <3>2. CASE new[x] = nic /\ \A i \in DOMAIN match : nic \notin match[i]
      BY <1>19, <2>1, <3>2
    <3>3. ASSUME NEW i \in DOMAIN match, match[i] = {nic}, new[x] = MergedNic(nic, list1[i])
          PROVE  \/ nic.mac = GivenMac /\ \A j \in DOMAIN match : nic \in match[j] => list1[j].mac = None
                 \/ list1[i].mac = GivenMac
      <4>1. list1[i] \in NicGiven
        BY <1>3
      <4>2. new[x].mac = IF list1[i].mac = None THEN nic.mac ELSE list1[i].mac
        BY <3>1, <3>3, <4>1, NicMerged
      <4>3. \A j \in DOMAIN match : nic \in match[j] => j = i
        BY <1>2, <3>3
      <4>. QED
        BY <1>19, <4>2, <4>3
    <3>. HIDE DEF nic
    <3>4. \/ new[x] = nic /\ \A i \in DOMAIN match : nic \notin match[i]
          \/ \E i \in DOMAIN match : match[i] = {nic} /\ new[x] = MergedNic(nic, list1[i])
      BY <1>13, <2>1 DEF nic
    <3>. QED
      BY <2>1, <3>2, <3>3, <3>4 DEF nic
  <2>2. ASSUME NEW k \in 1 .. A, x = S + k
        PROVE  list1[of[k]].mac = GivenMac /\ of[k] \in DOMAIN match
    <3>1. free(k) \in Nat
      BY <1>4
    <3>2. /\ new[S + k].mac = IF list1[of[k]].mac = None THEN [madeFor |-> free(k)] ELSE GivenMac
          /\ list1[of[k]].mac \in {None, GivenMac}
          /\ of[k] \in DOMAIN match
      BY <1>14
    <3>3. [madeFor |-> free(k)] # GivenMac
      BY <2>0, <3>1
    <3>. QED
      BY <1>19, <2>2, <3>2, <3>3
  <2>. HIDE DEF kept
  <2>. QED
    BY <1>15, <2>1, <2>2
<1>20. ASSUME NEW x \in 1 .. S + A, NEW y \in 1 .. S + A, new[x].mac = GivenMac, new[y].mac = GivenMac
       PROVE  x = y
  <2>. DEFINE Keeps(z) == /\ z \in 1 .. S /\ nics[from[z]].mac = GivenMac
                          /\ \A i \in DOMAIN match : nics[from[z]] \in match[i] => list1[i].mac = None
              Says(z, i) == /\ list1[i].mac = GivenMac
                            /\ \/ z \in 1 .. S /\ match[i] = {nics[from[z]]}
                               \/ \E k \in 1 .. A : z = S + k /\ of[k] = i
  <2>1. Keeps(x) \/ \E i \in DOMAIN match : Says(x, i)
    BY <1>19, <1>20
  <2>2. Keeps(y) \/ \E i \in DOMAIN match : Says(y, i)
    BY <1>19, <1>20
  <2>3. None # GivenMac
    BY VmDefinitionAssumption
  <2>4. \A z, w \in 1 .. S : nics[from[z]] = nics[from[w]] => z = w
    <3>1. \A i, j \in DOMAIN nics : nics[i].node = nics[j].node => i = j
      BY DEF NicsAreSound
    <3>. QED
      BY <1>8, <3>1
  <2>5. \A z \in 1 .. S : nics[from[z]] \in kept
    BY <1>8
  <2>6. CASE Keeps(x) /\ Keeps(y)
    BY <1>12, <2>4, <2>5, <2>6, <1>10
  <2>7. ASSUME NEW z, NEW w, Keeps(z), NEW i \in DOMAIN match, Says(w, i) PROVE FALSE
    <3>1. match[i] = {nics[from[z]]}
      BY <1>2, <2>5, <2>7
    <3>. QED
      BY <2>3, <2>7, <3>1
  <2>8. ASSUME NEW i \in DOMAIN match, Says(x, i), NEW j \in DOMAIN match, Says(y, j) PROVE x = y
    <3>1. i = j
      BY <1>7, <2>3, <2>8
    <3>2. CASE x \in 1 .. S /\ match[i] = {nics[from[x]]}
      <4>1. y \in 1 .. S /\ match[i] = {nics[from[y]]}
        BY <1>8, <2>8, <3>1, <3>2
      <4>2. nics[from[x]] = nics[from[y]]
        BY <3>2, <4>1
      <4>. QED
        BY <2>4, <3>2, <4>1, <4>2
    <3>3. CASE \E k \in 1 .. A : x = S + k /\ of[k] = i
      <4>1. PICK k \in 1 .. A : x = S + k /\ of[k] = i
        BY <3>3
      <4>2. match[i] = {}
        BY <1>8, <4>1
      <4>3. PICK l \in 1 .. A : y = S + l /\ of[l] = i
        BY <2>8, <3>1, <4>2
      <4>4. k = l
        BY <1>8, <4>1, <4>3
      <4>. QED
        BY <4>1, <4>3, <4>4
    <3>. QED
      BY <2>8, <3>2, <3>3
  <2>. HIDE DEF Keeps, Says
  <2>. QED
    BY <2>1, <2>2, <2>6, <2>7, <2>8
<1>21. ASSUME NEW x \in 1 .. S + A, NEW y \in 1 .. S + A, new[x].mac = new[y].mac
       PROVE  x = y
  <2>1. new[x].node \in Nat /\ new[y].node \in Nat
    BY <1>16 DEF NicRecord
  <2>2. CASE new[x].mac = GivenMac
    BY <1>20, <1>21, <2>2
  <2>3. CASE new[x].mac # GivenMac
    <3>1. new[x].mac = [madeFor |-> new[x].node] /\ new[y].mac = [madeFor |-> new[y].node]
      BY <1>16, <1>21, <2>3
    <3>2. [madeFor |-> new[x].node].madeFor = [madeFor |-> new[y].node].madeFor
      BY <1>21, <3>1
    <3>3. new[x].node = new[y].node
      BY <3>2
    <3>. QED
      BY <1>18, <3>3
  <2>. QED
    BY <2>2, <2>3
<1>22. NicsAreSound(new)
  BY <1>16, <1>17, <1>18, <1>21 DEF NicsAreSound
<1>23. ASSUME NEW nic \in kept
       PROVE  \E k \in 1 .. S : k \in DOMAIN new /\ nics[from[k]] = nic
  <2>1. PICK j \in DOMAIN nics : nics[j] = nic
    BY <1>10, <1>11
  <2>2. PICK k \in 1 .. S : from[k] = j
    BY <1>8, <2>1
  <2>3. k \in 1 .. S + A
    OBVIOUS
  <2>. QED
    BY <1>17, <2>1, <2>2, <2>3
<1>24. ASSUME NEW nic \in Values(nics)
       PROVE  nic.node \in Nodes(Values(new)) \/ IdOf(nic) \in AbsentIds(Listed(list))
  <2>1. CASE nic \in kept
    <3>1. PICK k \in 1 .. S : k \in DOMAIN new /\ nics[from[k]] = nic
      BY <1>23, <2>1
    <3>2. new[k].node = nic.node /\ new[k] \in Values(new)
      BY <1>13, <3>1 DEF Values
    <3>. QED
      BY <3>2 DEF Nodes
  <2>2. CASE nic \notin kept
    BY <1>0, <2>2 DEF AbsentNics
  <2>. QED
    BY <2>1, <2>2
<1>25. NicsRealised(list, new)
  <2>. SUFFICES ASSUME NEW i \in DOMAIN list1
                PROVE  \E x \in DOMAIN new :
                         /\ new[x].alias \in {list1[i].id, Foreign}
                         /\ new[x].source = list1[i].source
                         /\ list1[i].mac \in {None, new[x].mac}
                         /\ \/ list1[i].vlan \in {Keep, new[x].vlan}
                            \/ list1[i].vlan = Remove /\ new[x].vlan = None
    BY DEF NicsRealised, Values, list1
  <2>1. i \in DOMAIN match /\ list1[i] \in NicGiven /\ list1[i].vlan \in Nat \union {Keep, Remove}
    BY <1>2, <1>3 DEF NicGiven
  <2>2. CASE match[i] = {}
    <3>1. PICK k \in 1 .. A : of[k] = i
      BY <1>8, <2>1, <2>2
    <3>2. S + k \in DOMAIN new /\ free(k) \in Nat /\ new[S + k] = NewNic(free(k), list1[i])
      <4>1. S + k \in 1 .. S + A
        OBVIOUS
      <4>2. new[S + k] = NewNic(free(k), list1[of[k]])
        BY <1>14
      <4>. QED
        BY <1>4, <1>17, <3>1, <4>1, <4>2
    <3>3. /\ new[S + k].alias = list1[i].id
          /\ new[S + k].mac = IF list1[i].mac = None THEN [madeFor |-> free(k)] ELSE list1[i].mac
          /\ new[S + k].source = list1[i].source
          /\ new[S + k].vlan = IF Given(list1[i].vlan) THEN list1[i].vlan ELSE None
      BY <2>1, <3>2, NicMade
    <3>. QED
      BY <3>2, <3>3 DEF Given
  <2>3. CASE match[i] # {}
    <3>1. PICK nic : nic \in match[i] /\ nic \in kept
      BY <1>2, <2>1, <2>3
    <3>2. PICK k \in 1 .. S : k \in DOMAIN new /\ nics[from[k]] = nic
      BY <1>23, <3>1
    <3>3. PICK j \in DOMAIN match : match[j] = {nic} /\ new[k] = MergedNic(nic, list1[j])
      BY <1>13, <2>1, <3>1, <3>2
    <3>4. j = i
      BY <1>2, <2>1, <3>1, <3>3
    <3>5. nic \in NicRecord
      BY <1>10, <1>11, <3>1
    <3>6. /\ new[k].alias = IF nic.alias = Foreign THEN Foreign ELSE list1[i].id
          /\ new[k].mac = IF list1[i].mac = None THEN nic.mac ELSE list1[i].mac
          /\ new[k].source = list1[i].source
          /\ new[k].vlan = MergedField(nic.vlan, list1[i].vlan)
      BY <2>1, <3>3, <3>4, <3>5, NicMerged
    <3>7. \/ list1[i].vlan \in {Keep, new[k].vlan}
          \/ list1[i].vlan = Remove /\ new[k].vlan = None
      BY <2>1, <3>6 DEF MergedField
    <3>. QED
      BY <3>2, <3>6, <3>7
  <2>. QED
    BY <2>2, <2>3
<1>26. OpenNicsKept(list, nics, new)
  <2>. SUFFICES ASSUME NEW nic \in Values(nics), NEW x \in DOMAIN new, nic.node = new[x].node
                PROVE  LET about == {i \in DOMAIN list1 : list1[i].id = IdOf(nic) \/ list1[i].mac = nic.mac}
                       IN  IF about = {} THEN new[x] = nic
                           ELSE \E i \in about :
                                  LET e == list1[i]
                                  IN /\ new[x].alias = IF nic.alias = Foreign THEN Foreign ELSE e.id
                                     /\ e.mac = None => new[x].mac = nic.mac
                                     /\ e.vlan = Keep => new[x].vlan = nic.vlan
    BY DEF OpenNicsKept, Values, list1
  <2>1. x \in 1 .. S /\ nics[from[x]] = nic
    <3>1. nic.node \in Nodes(Values(nics))
      BY <1>11
    <3>2. ASSUME NEW k \in 1 .. A, x = S + k PROVE FALSE
      <4>1. new[S + k].node = free(k) /\ free(k) \notin Nodes(Values(nics))
        BY <1>4, <1>14
      <4>. QED
        BY <3>1, <3>2, <4>1
    <3>3. x \in 1 .. S
      BY <1>15, <1>17, <3>2
    <3>4. new[x].node = nics[from[x]].node /\ nics[from[x]] \in Values(nics)
      BY <1>10, <1>13, <3>3
    <3>. QED
      BY <1>12, <3>3, <3>4
  <2>2. nic \in kept /\ nic \in NicRecord /\ nic.mac \in NicMacs /\ nic.mac # None
    <3>1. nic \in kept /\ nic \in NicRecord
      BY <1>8, <1>11, <2>1
    <3>. QED
      BY <3>1, VmDefinitionAssumption DEF NicRecord, NicMacs
  <2>3. CASE \A i \in DOMAIN match : nic \notin match[i]
    <3>1. new[x] = nic
      BY <1>13, <2>1, <2>3
    <3>2. \A i \in DOMAIN list1 : list1[i].id # IdOf(nic) /\ list1[i].mac # nic.mac
      BY <1>2, <2>2, <2>3 DEF About
    <3>. QED
      BY <3>1, <3>2
  <2>4. CASE \E i \in DOMAIN match : nic \in match[i]
    <3>1. PICK i \in DOMAIN match : match[i] = {nic} /\ new[x] = MergedNic(nic, list1[i])
      BY <1>13, <2>1, <2>4
    <3>2. i \in DOMAIN list1 /\ About(list1[i], nic) /\ list1[i] \in NicGiven
      BY <1>2, <1>3, <3>1
    <3>3. list1[i].id = IdOf(nic) \/ list1[i].mac = nic.mac
      BY <3>2 DEF About
    <3>4. /\ new[x].alias = IF nic.alias = Foreign THEN Foreign ELSE list1[i].id
          /\ new[x].mac = IF list1[i].mac = None THEN nic.mac ELSE list1[i].mac
          /\ new[x].vlan = MergedField(nic.vlan, list1[i].vlan)
      <4>1. PICK e \in NicGiven : e = list1[i]
        BY <3>2
      <4>2. new[x] = MergedNic(nic, e) /\ nic \in NicRecord
        BY <2>2, <3>1, <4>1
      <4>3. /\ new[x].alias = IF nic.alias = Foreign THEN Foreign ELSE e.id
            /\ new[x].mac = IF e.mac = None THEN nic.mac ELSE e.mac
            /\ new[x].vlan = MergedField(nic.vlan, e.vlan)
        BY <4>2, NicMerged
      <4>. QED
        BY <4>1, <4>3
    <3>5. list1[i].vlan = Keep => new[x].vlan = nic.vlan
      BY <3>4, VmSettingsAssumption DEF MergedField
    <3>. QED
      BY <3>2, <3>3, <3>4, <3>5
  <2>. QED
    BY <2>3, <2>4
<1>. QED
  BY <1>22, <1>24, <1>25, <1>26 DEF new

\* A manifest without a list says nothing of the single interfaces.
LEMMA NoEntries == DOMAIN Entries(NoInterfaces) = {}
<1>1. <<>> \in Seq({})
  BY ShortSequences
<1>2. Listed(NoInterfaces) \in Seq({}) /\ Len(Listed(NoInterfaces)) = 0
  BY <1>1 DEF Listed
<1>3. PICK list \in Seq({}) : list = Listed(NoInterfaces) /\ Len(list) = 0
  BY <1>2
<1>4. PresentEntries(list) \in Seq({}) /\ Len(PresentEntries(list)) <= Len(list)
  BY PresentOnes
<1>5. Len(PresentEntries(list)) = 0
  BY <1>3, <1>4
<1>. QED
  BY <1>3, <1>4, <1>5 DEF Entries

\* The first interface that is on a network goes to another one.
LEMMA NicsMoved ==
  ASSUME NicsAreSound(nics), NetworkNics(nics) # {}, NEW network \in Words
  PROVE  LET new == MovedToNetwork(nics, network)
         IN  /\ NicsAreSound(new)
             /\ \A nic \in Values(nics) : nic.node \in Nodes(Values(new))
             /\ NicsRealised(NoInterfaces, new)
             /\ OpenNicsKept(NoInterfaces, nics, new)
<1>. DEFINE first == CHOOSE k \in NetworkNics(nics) : \A other \in NetworkNics(nics) : k <= other
            new == MovedToNetwork(nics, network)
            Moved(nic) == [nic EXCEPT !.source.name = network]
<1>1. NetworkNics(nics) \subseteq DOMAIN nics /\ DOMAIN nics \subseteq Nat
  BY NicsFinite DEF NetworkNics
<1>2. first \in DOMAIN nics
  <2>1. PICK T : T = NetworkNics(nics)
    OBVIOUS
  <2>2. T \subseteq Nat /\ T # {}
    BY <1>1, <2>1
  <2>3. \E x \in T : \A y \in T : x <= y
    BY <2>2, Least
  <2>. QED
    BY <1>1, <2>1, <2>3
<1>3. new = [nics EXCEPT ![first] = Moved(nics[first])]
  BY <1>2 DEF MovedToNetwork
<1>. HIDE DEF new, first
<1>4. ASSUME NEW nic \in NicRecord
      PROVE  /\ Moved(nic) \in NicRecord
             /\ Moved(nic).node = nic.node /\ Moved(nic).mac = nic.mac
             /\ [Moved(nic) EXCEPT !.source.name = nic.source.name] = nic
             /\ [nic EXCEPT !.source.name = nic.source.name] = nic
  BY DEF NicRecord, Sources
<1>. HIDE DEF Moved
<1>5. \A k \in DOMAIN nics : nics[k] \in NicRecord
  BY NicsFinite
<1>6. DOMAIN new = DOMAIN nics /\ new = [k \in DOMAIN nics |-> new[k]]
  BY <1>3
<1>7. ASSUME NEW k \in DOMAIN nics
      PROVE  /\ new[k] \in NicRecord /\ new[k].node = nics[k].node /\ new[k].mac = nics[k].mac
             /\ [new[k] EXCEPT !.source.name = nics[k].source.name] = nics[k]
  <2>1. new[k] = nics[k] \/ new[k] = Moved(nics[k])
    BY <1>3
  <2>2. nics[k] \in NicRecord
    BY <1>5
  <2>. QED
    BY <1>4, <2>1, <2>2
<1>8. NicsAreSound(new)
  <2>1. new \in Seq(NicRecord)
    <3>1. DOMAIN nics = 1 .. Len(nics) /\ Len(nics) \in Nat
      BY NicsFinite
    <3>. QED
      BY <1>6, <1>7, <3>1
  <2>2. \A k \in DOMAIN nics : new[k].node = nics[k].node /\ new[k].mac = nics[k].mac
    BY <1>7
  <2>. QED
    BY <1>6, <2>1, <2>2 DEF NicsAreSound
<1>9. \A nic \in Values(nics) : nic.node \in Nodes(Values(new))
  <2>1. ASSUME NEW k \in DOMAIN nics PROVE nics[k].node \in Nodes(Values(new))
    <3>1. new[k] \in Values(new) /\ new[k].node = nics[k].node
      BY <1>6, <1>7 DEF Values
    <3>. QED
      BY <3>1 DEF Nodes
  <2>. QED
    BY <2>1 DEF Values
<1>10. NicsRealised(NoInterfaces, new)
  BY NoEntries DEF NicsRealised
<1>11. OpenNicsKept(NoInterfaces, nics, new)
  <2>. SUFFICES ASSUME NEW nic \in Values(nics), NEW k \in DOMAIN new, nic.node = new[k].node
                PROVE  [new[k] EXCEPT !.source.name = nic.source.name] = nic
    BY DEF OpenNicsKept, Values
  <2>1. nics[k] = nic
    <3>1. new[k].node = nics[k].node /\ nics[k] \in Values(nics)
      BY <1>6, <1>7, NicsFinite
    <3>. QED
      BY <3>1, NicsFinite
  <2>. QED
    BY <1>6, <1>7, <2>1
<1>. QED
  BY <1>8, <1>9, <1>10, <1>11 DEF new

\* The interfaces after a patch.
LEMMA NicsPatched ==
  ASSUME NEW list, NEW network \in Words, NicsEntered(list), NicsAreSound(nics),
         ValidInterfaces(list), NicsPatchable(list, nics)
  PROVE  LET new == NewNics(list, network, nics)
         IN  /\ NicsAreSound(new)
             /\ \A nic \in Values(nics) :
                  nic.node \in Nodes(Values(new)) \/ IdOf(nic) \in AbsentIds(Listed(list))
             /\ NicsRealised(list, new)
             /\ OpenNicsKept(list, nics, new)
<1>1. CASE list = NoInterfaces
  <2>1. NetworkNics(nics) # {}
    BY <1>1 DEF NicsPatchable
  <2>2. NewNics(list, network, nics) = MovedToNetwork(nics, network)
    BY <1>1 DEF NewNics
  <2>. QED
    BY <1>1, <2>1, <2>2, NicsMoved
<1>2. CASE list # NoInterfaces
  <2>1. NewNics(list, network, nics) = PatchedNics(list, nics)
    BY <1>2 DEF NewNics
  <2>. QED
    BY <1>2, <2>1, NicsReplanned
<1>. QED
  BY <1>1, <1>2

\* The interfaces of a new definition.
LEMMA NicsBuilt ==
  ASSUME NEW list, NEW network \in Words, NicsEntered(list), nics = <<>>, ValidInterfaces(list)
  PROVE  LET new == BuiltNics(list, network)
         IN  NicsAreSound(new) /\ NicsRealised(list, new)
<1>. DEFINE present == IF list = NoInterfaces THEN <<LegacyEntry(network)>> ELSE Entries(list)
            new == BuiltNics(list, network)
<1>1. /\ present \in Seq(NicGiven)
      /\ \A i, k \in DOMAIN present : i # k /\ present[i].mac = present[k].mac => present[i].mac = None
      /\ \A i \in DOMAIN present : present[i].mac \in {None, GivenMac}
  <2>1. CASE list = NoInterfaces
    <3>1. LegacyEntry(network) \in NicGiven /\ LegacyEntry(network).mac = None
      BY DEF LegacyEntry, NicGiven, NicNames, Sources, Words
    <3>2. present = <<LegacyEntry(network)>> /\ DOMAIN present = {1}
      BY <2>1
    <3>3. \A x \in NicGiven : <<x>> \in Seq(NicGiven)
      BY ShortSequences
    <3>4. present \in Seq(NicGiven)
      BY <3>1, <3>2, <3>3
    <3>5. \A i \in DOMAIN present : i = 1 /\ present[i].mac = None
      BY <3>1, <3>2
    <3>. HIDE DEF present
    <3>. QED
      BY <3>4, <3>5
  <2>2. CASE list # NoInterfaces
    <3>0. Listed(list) \in Seq(NicEntry) /\ MadeMacsKnown(list)
      BY DEF NicsEntered
    <3>1. present = Entries(list) /\ present \in Seq(NicGiven)
          /\ \A i \in DOMAIN present : present[i] \in NicGiven
      BY <2>2, <3>0, NicEntriesGiven
    <3>2. \A i, k \in DOMAIN present : i # k /\ present[i].mac = present[k].mac => present[i].mac = None
      BY <3>1 DEF ValidInterfaces, MacsDiffer
    <3>3. ASSUME NEW i \in DOMAIN present PROVE present[i].mac \in {None, GivenMac}
      <4>1. PICK S, p : S = NicEntry /\ p = Listed(list) /\ p \in Seq(S)
        BY <3>0
      <4>2. \E at \in [DOMAIN PresentEntries(p) -> DOMAIN p] :
               \A k \in DOMAIN at : PresentEntries(p)[k] = p[at[k]] /\ p[at[k]].present
        BY <4>1, PresentOnes
      <4>3. present = PresentEntries(p)
        BY <2>2, <4>1 DEF Entries
      <4>4. PICK j \in DOMAIN p : present[i] = p[j] /\ p[j].present
        <5>. HIDE DEF present
        <5>. QED
          BY <4>2, <4>3
      <4>5. Values(nics) = {}
        BY DEF Values
      <4>. QED
        BY <3>0, <4>1, <4>4, <4>5 DEF MadeMacsKnown
    <3>. QED
      BY <3>1, <3>2, <3>3
  <2>. QED
    BY <2>1, <2>2
<1>2. new = [i \in DOMAIN present |-> NewNic(i - 1, present[i])]
  BY DEF BuiltNics
<1>. HIDE DEF present
<1>3. Len(present) \in Nat /\ DOMAIN present = 1 .. Len(present)
  BY <1>1
<1>4. \A i \in DOMAIN present : present[i] \in NicGiven
  BY <1>1
<1>. HIDE DEF new
<1>5. ASSUME NEW i \in DOMAIN present
      PROVE  /\ i \in DOMAIN new /\ new[i] = NewNic(i - 1, present[i]) /\ i - 1 \in Nat
             /\ new[i] \in NicRecord /\ new[i].node = i - 1
             /\ new[i].alias = present[i].id
             /\ new[i].mac = IF present[i].mac = None THEN [madeFor |-> i - 1] ELSE present[i].mac
             /\ new[i].source = present[i].source
             /\ new[i].vlan = IF Given(present[i].vlan) THEN present[i].vlan ELSE None
  <2>1. i - 1 \in Nat
    BY <1>3
  <2>2. new[i] = NewNic(i - 1, present[i]) /\ i \in DOMAIN new
    BY <1>2
  <2>. QED
    BY <1>4, <2>1, <2>2, NicMade
<1>6. NicsAreSound(new)
  <2>1. new \in Seq(NicRecord) /\ DOMAIN new = DOMAIN present
    <3>1. \A i \in DOMAIN present : new[i] \in NicRecord
      BY <1>5
    <3>. QED
      BY <1>2, <1>3, <3>1
  <2>2. ASSUME NEW i \in DOMAIN new, NEW k \in DOMAIN new, new[i].node = new[k].node PROVE i = k
    <3>0. i \in DOMAIN present /\ k \in DOMAIN present
      BY <2>1
    <3>1. i \in Nat /\ k \in Nat
      BY <1>3, <3>0
    <3>2. new[i].node = i - 1 /\ new[k].node = k - 1
      BY <1>5, <3>0
    <3>3. i - 1 = k - 1
      BY <2>2, <3>2
    <3>. QED
      BY <3>1, <3>3
  <2>3. ASSUME NEW i \in DOMAIN new
        PROVE  new[i].mac \in {GivenMac, [madeFor |-> new[i].node]}
    BY <1>1, <1>5, <2>1
  <2>4. ASSUME NEW i \in DOMAIN new, NEW k \in DOMAIN new, new[i].mac = new[k].mac PROVE i = k
    <3>0. /\ present[i].mac \in {None, GivenMac}
          /\ present[k].mac \in {None, GivenMac}
          /\ new[i].mac = IF present[i].mac = None THEN [madeFor |-> i - 1] ELSE present[i].mac
          /\ new[k].mac = IF present[k].mac = None THEN [madeFor |-> k - 1] ELSE present[k].mac
          /\ i - 1 \in Nat /\ k - 1 \in Nat /\ i \in Nat /\ k \in Nat
      BY <1>1, <1>3, <1>5, <2>1
    <3>00. None # GivenMac /\ [madeFor |-> i - 1] # GivenMac /\ [madeFor |-> k - 1] # GivenMac
      BY <3>0, VmDefinitionAssumption
    <3>1. CASE present[i].mac = None
      <4>1. [madeFor |-> i - 1].madeFor = [madeFor |-> k - 1].madeFor
        BY <2>4, <3>0, <3>00, <3>1
      <4>2. i - 1 = k - 1
        BY <4>1
      <4>. QED
        BY <3>0, <4>2
    <3>2. CASE present[i].mac = GivenMac
      <4>1. present[k].mac = GivenMac
        BY <2>4, <3>0, <3>00, <3>2
      <4>. QED
        BY <1>1, <2>1, <3>00, <3>2, <4>1
    <3>. QED
      BY <3>0, <3>1, <3>2
  <2>. QED
    BY <2>1, <2>2, <2>3, <2>4 DEF NicsAreSound
<1>7. NicsRealised(list, new)
  <2>1. CASE list = NoInterfaces
    BY <2>1, NoEntries DEF NicsRealised
  <2>2. CASE list # NoInterfaces
    <3>1. Entries(list) = present
      BY <2>2 DEF present
    <3>2. ASSUME NEW i \in DOMAIN present
          PROVE  \E k \in DOMAIN new :
                   /\ new[k].alias \in {present[i].id, Foreign}
                   /\ new[k].source = present[i].source
                   /\ present[i].mac \in {None, new[k].mac}
                   /\ \/ present[i].vlan \in {Keep, new[k].vlan}
                      \/ present[i].vlan = Remove /\ new[k].vlan = None
      <4>1. \/ present[i].vlan \in {Keep, new[i].vlan}
            \/ present[i].vlan = Remove /\ new[i].vlan = None
        BY <1>5 DEF Given
      <4>. QED
        BY <1>5, <4>1
    <3>. QED
      BY <3>1, <3>2 DEF NicsRealised, Values
  <2>. QED
    BY <2>1, <2>2
<1>. QED
  BY <1>6, <1>7 DEF new

-----------------------------------------------------------------------------
(* Disks and trays.                                                          *)

\* What the lists of disks and trays say.
DiskNames == DiskIds \union {NoId} \union [derivedFrom : Nat]
DiskGiven == [present : {TRUE}, id : DiskNames, path : Paths, target : Nat \union {NoTarget}]
DiskEntry == DiskGiven \union [present : {FALSE}, id : DiskNames]

TrayNames == TrayIds \union {NoId} \union [derivedFrom : Nat]
TrayGiven == [present : {TRUE}, id : TrayNames, target : Nat \union {NoTarget}]
TrayEntry == TrayGiven \union [present : {FALSE}, id : TrayNames]

\* The present entries of a list are those that say that they are.
LEMMA GivenOnes ==
  ASSUME NEW G, NEW H, \A x \in H : ~x.present, NEW list \in Seq(G \union H)
  PROVE  /\ PresentEntries(list) \in Seq(G)
         /\ Len(PresentEntries(list)) \in Nat
         /\ DOMAIN PresentEntries(list) = 1 .. Len(PresentEntries(list))
         /\ Len(PresentEntries(list)) <= Len(list)
         /\ \A i \in DOMAIN PresentEntries(list) : PresentEntries(list)[i] \in G
<1>. DEFINE p == PresentEntries(list)
<1>1. PICK S : S = G \union H
  OBVIOUS
<1>2. /\ p \in Seq(S) /\ Len(p) <= Len(list)
      /\ \E at \in [DOMAIN p -> DOMAIN list] :
           \A k \in DOMAIN at : p[k] = list[at[k]] /\ list[at[k]].present
  BY <1>1, PresentOnes
<1>. HIDE DEF p
<1>3. Len(p) \in Nat /\ DOMAIN p = 1 .. Len(p)
  BY <1>2
<1>4. ASSUME NEW i \in DOMAIN p PROVE p[i] \in G
  <2>1. p[i] \in S /\ p[i].present
    BY <1>2
  <2>. QED
    BY <1>1, <2>1
<1>5. p \in Seq(G)
  BY <1>2, <1>3, <1>4
<1>. QED
  BY <1>2, <1>3, <1>4, <1>5 DEF p

\* A function whose values differ has as many values as arguments.
LEMMA DistinctValues ==
  ASSUME NEW n \in Nat, NEW f, DOMAIN f = 1 .. n, \A i, k \in 1 .. n : f[i] = f[k] => i = k
  PROVE  IsFiniteSet(Values(f)) /\ Cardinality(Values(f)) = n
<1>. DEFINE g == [i \in 1 .. n |-> f[i]]
<1>1. g \in [1 .. n -> Values(f)] /\ \A v \in Values(f) : \E i \in 1 .. n : g[i] = v
  BY DEF Values
<1>2. \A i, k \in 1 .. n : g[i] = g[k] => i = k
  OBVIOUS
<1>. HIDE DEF g
<1>3. g \in Bijection(1 .. n, Values(f))
  BY <1>1, <1>2, Fun_IsBij
<1>4. IsFiniteSet(1 .. n) /\ Cardinality(1 .. n) = n
  BY FiniteParts
<1>. QED
  BY <1>3, <1>4, FS_Bijection DEF ExistsBijection

\* The targets of finitely many devices are finitely many, and so are their nodes.
LEMMA FiniteImages ==
  ASSUME NEW D, IsFiniteSet(D)
  PROVE  IsFiniteSet(Targets(D)) /\ IsFiniteSet(Nodes(D))
<1>. DEFINE f == [d \in D |-> d.target]
            g == [d \in D |-> d.node]
<1>1. Values(f) = Targets(D) /\ Values(g) = Nodes(D)
  <2>1. \A x : x \in Values(f) <=> \E d \in D : x = d.target
    BY DEF Values
  <2>2. \A x : x \in Values(g) <=> \E d \in D : x = d.node
    BY DEF Values
  <2>. QED
    BY <2>1, <2>2 DEF Targets, Nodes
<1>2. DOMAIN f = D /\ DOMAIN g = D
  OBVIOUS
<1>. HIDE DEF f, g
<1>. QED
  BY <1>1, <1>2, FiniteValues

\* The targets that the manifest alone gives to trays.
LEMMA TraysAssigned ==
  ASSUME NEW m, TrayList(m) \in Seq(TrayEntry)
  PROVE  LET list == PresentEntries(TrayList(m))
             n == Len(list)
             assigned == AssignedTrayTargets(m)
         IN  /\ assigned \in [1 .. n -> Nat]
             /\ IsFiniteSet(Values(assigned))
             /\ Wanted(list) \in [1 .. n -> Nat \union {NoTarget}]
             /\ list \in Seq(TrayGiven) /\ n \in Nat /\ DOMAIN list = 1 .. n
             /\ \A i \in 1 .. n : list[i] \in TrayGiven
             /\ n <= Len(TrayList(m))
             /\ ~Clash(Wanted(list), {}) => \A i, k \in 1 .. n : assigned[i] = assigned[k] => i = k
<1>. DEFINE list == PresentEntries(TrayList(m))
            n == Len(list)
<1>1. PICK G, H, l : /\ G = TrayGiven /\ H = [present : {FALSE}, id : TrayNames] /\ l = TrayList(m)
                     /\ \A x \in H : ~x.present
                     /\ l \in Seq(G \union H)
  BY DEF TrayEntry
<1>2. /\ list \in Seq(TrayGiven) /\ n \in Nat /\ DOMAIN list = 1 .. n
      /\ \A i \in 1 .. n : list[i] \in TrayGiven
      /\ n <= Len(TrayList(m))
  BY <1>1, GivenOnes
<1>. HIDE DEF list, n
<1>3. Wanted(list) \in [1 .. n -> Nat \union {NoTarget}]
  BY <1>2 DEF Wanted, TrayGiven
<1>4. PICK w : w = Wanted(list) /\ w \in [1 .. n -> Nat \union {NoTarget}]
  BY <1>3
<1>5. AssignedTrayTargets(m) = Fill(w, {})
  BY <1>4 DEF AssignedTrayTargets, list
<1>6. IsFiniteSet({})
  BY FS_EmptySet
<1>7. /\ Fill(w, {}) \in [1 .. n -> Nat]
      /\ ~Clash(w, {}) => \A i, k \in 1 .. n : Fill(w, {})[i] = Fill(w, {})[k] => i = k
  BY <1>2, <1>4, <1>6, Filled
<1>8. IsFiniteSet(Values(AssignedTrayTargets(m)))
  <2>1. DOMAIN AssignedTrayTargets(m) = 1 .. n /\ IsFiniteSet(1 .. n)
    BY <1>2, <1>5, <1>7, FiniteParts
  <2>. QED
    BY <2>1, FiniteValues
<1>. QED
  BY <1>2, <1>3, <1>4, <1>5, <1>7, <1>8 DEF list, n

\* The nodes of new devices are those of no device, and differ.
LEMMA NodesAreNew ==
  ASSUME DevicesAreSound
  PROVE  /\ \A k \in Nat \ {0} :
              NewNode(k) \in Nat /\ NewNode(k) \notin Nodes(disks) /\ NewNode(k) \notin Nodes(trays)
         /\ \A k, l \in Nat \ {0} : NewNode(k) = NewNode(l) => k = l
<1>1. PICK N : N = Nodes(disks \union trays) /\ IsFiniteSet(N)
  BY FiniteImages, FS_Union DEF DevicesAreSound
<1>2. Nodes(disks) \subseteq N /\ Nodes(trays) \subseteq N
  BY <1>1 DEF Nodes
<1>3. \A k \in Nat \ {0} : NewNode(k) = Free(N, k)
  BY <1>1 DEF NewNode
<1>4. /\ \A k \in Nat \ {0} : Free(N, k) \in Nat \ N
      /\ \A k, l \in Nat \ {0} : Free(N, k) = Free(N, l) => k = l
  BY <1>1, FreeIsFree
<1>. QED
  BY <1>2, <1>3, <1>4

\* How a device of a patched definition comes from those there were: it is new, or
\* it is one of them that the list does not remove, with its target unless the list
\* asks for another, and with an alias that is not qtr's only if it had that.
ComesFrom(e, old, list) ==
  \E d \in old : /\ e.node = d.node
                 /\ e.target = d.target \/ e.target \in Values(Wanted(list))
                 /\ d.alias = Foreign <=> e.alias = Foreign

\* The alias of an element of another program stays, whatever the entry calls it.
LEMMA AliasMerged ==
  ASSUME NEW old, NEW id, id # Foreign
  PROVE  /\ MergedAlias(old, id) \in {old, id}
         /\ id # NoId => MergedAlias(old, id) \in {id, Foreign}
         /\ old = Foreign <=> MergedAlias(old, id) = Foreign
  BY DEF MergedAlias

\* The disks of a patched definition.
LEMMA DisksReplanned ==
  ASSUME NEW m, m.disks \in Seq(DiskEntry), TrayList(m) \in Seq(TrayEntry),
         DevicesAreSound, DisksPatchable(m)
  PROVE  LET list == PresentEntries(m.disks)
             new == PatchedDisks(m)
         IN  /\ new \in SUBSET DiskRecord
             /\ IsFiniteSet(new) /\ Cardinality(new) = Len(list)
             /\ \A d, e \in new : d.node = e.node => d = e
             /\ \A d \in disks : d.node \in Nodes(new) \/ Id(d) \in AbsentIds(m.disks)
             /\ \A i \in DOMAIN list :
                  \E d \in new :
                    /\ d.path = list[i].path
                    /\ list[i].target \in {NoTarget, d.target}
                    /\ list[i].id # NoId => d.alias \in {list[i].id, Foreign}
             /\ \A e \in new : \/ \E k \in 1 .. Len(m.disks) : e.node = NewNode(k)
                               \/ ComesFrom(e, disks, list)
<1>. DEFINE list == PresentEntries(m.disks)
            n == Len(list)
            match == DiskMatches(m)
            kept == Kept(m.disks, disks)
            wanted == Requested(list, match)
            target == Fill(wanted, ReservedForTrays(m))
            f == [i \in 1 .. n |-> IF match[i] = {} THEN NewDisk(NewNode(i), list[i], target[i])
                                   ELSE MergedDisk(The(match[i]), list[i], target[i])]
            new == PatchedDisks(m)
<1>1. /\ n \in Nat /\ DOMAIN list = 1 .. n /\ n <= Len(m.disks) /\ Len(m.disks) \in Nat
      /\ \A i \in 1 .. n : list[i] \in DiskGiven
  <2>1. PICK G, H, l : /\ G = DiskGiven /\ H = [present : {FALSE}, id : DiskNames] /\ l = m.disks
                       /\ \A x \in H : ~x.present
                       /\ l \in Seq(G \union H)
    BY DEF DiskEntry
  <2>2. /\ PresentEntries(l) \in Seq(G) /\ Len(PresentEntries(l)) \in Nat
        /\ DOMAIN PresentEntries(l) = 1 .. Len(PresentEntries(l))
        /\ Len(PresentEntries(l)) <= Len(l)
        /\ \A i \in DOMAIN PresentEntries(l) : PresentEntries(l)[i] \in G
    BY <2>1, GivenOnes
  <2>3. Len(l) \in Nat
    BY <2>1
  <2>. QED
    BY <2>1, <2>2, <2>3
<1>2. match \in [1 .. n -> SUBSET kept] /\ Apart(match, kept)
  BY <1>1, DisksMatched
<1>3. kept \subseteq disks /\ IsFiniteSet(kept) /\ Unambiguous(match)
      /\ kept = UNION Values(match) /\ ~Clash(wanted, ReservedForTrays(m))
  BY FS_Subset DEF DevicesAreSound, Kept, DisksPatchable
<1>4. ASSUME NEW i \in 1 .. n, match[i] # {}
      PROVE  match[i] = {The(match[i])} /\ The(match[i]) \in kept /\ The(match[i]) \in disks
             /\ The(match[i]) \in DiskRecord
  <2>. HIDE DEF match, kept
  <2>1. match[i] = {The(match[i])} /\ The(match[i]) \in kept
    BY <1>2, <1>3, <1>4, TheOne
  <2>. QED
    BY <1>3, <2>1 DEF DevicesAreSound
<1>5. DOMAIN m.disks = 1 .. Len(m.disks)
  OBVIOUS
<1>6. new = Values(f) /\ DOMAIN f = 1 .. n
  <2>1. new = {f[i] : i \in 1 .. n}
    BY <1>1 DEF PatchedDisks
  <2>. QED
    BY <2>1 DEF Values
<1>. HIDE DEF list, n, match, kept, new
<1>7. IsFiniteSet(ReservedForTrays(m))
  BY FiniteImages, TraysAssigned, FS_Union DEF ReservedForTrays, DevicesAreSound
<1>8. /\ wanted \in [1 .. n -> Nat \union {NoTarget}]
      /\ \A i \in 1 .. n :
           wanted[i] = IF list[i].target = NoTarget /\ match[i] # {} THEN The(match[i]).target
                       ELSE list[i].target
  <2>1. wanted = [i \in 1 .. n |->
                    IF list[i].target = NoTarget /\ match[i] # {} THEN The(match[i]).target
                    ELSE list[i].target]
    BY <1>1 DEF Requested
  <2>2. \A i \in 1 .. n : list[i].target \in Nat \union {NoTarget}
    BY <1>1 DEF DiskGiven
  <2>3. \A i \in 1 .. n : match[i] # {} => The(match[i]).target \in Nat
    BY <1>4 DEF DiskRecord
  <2>. HIDE DEF wanted
  <2>. QED
    BY <2>1, <2>2, <2>3
<1>. HIDE DEF wanted
<1>9. /\ target \in [1 .. n -> Nat]
      /\ \A i \in 1 .. n : wanted[i] # NoTarget => target[i] = wanted[i]
  BY <1>1, <1>7, <1>8, Filled
<1>. HIDE DEF target
<1>10. /\ \A k \in 1 .. n : NewNode(k) \in Nat /\ NewNode(k) \notin Nodes(disks)
       /\ \A k, l \in 1 .. n : NewNode(k) = NewNode(l) => k = l
  <2>1. \A k \in 1 .. n : k \in Nat \ {0}
    BY <1>1
  <2>. HIDE DEF f
  <2>. QED
    BY <2>1, NodesAreNew
\* A disk for each entry.
<1>11. ASSUME NEW i \in 1 .. n
       PROVE  /\ f[i] \in DiskRecord
              /\ f[i].path = list[i].path
              /\ list[i].target \in {NoTarget, f[i].target}
              /\ list[i].id # NoId => f[i].alias \in {list[i].id, Foreign}
              /\ match[i] = {} => f[i].node = NewNode(i)
              /\ match[i] # {} => /\ f[i].node = The(match[i]).node
                                  /\ f[i].target = The(match[i]).target \/ f[i].target = list[i].target
                                  /\ The(match[i]).alias = Foreign <=> f[i].alias = Foreign
  <2>1. /\ list[i].id \in DiskNames /\ list[i].path \in Paths /\ list[i].target \in Nat \union {NoTarget}
        /\ target[i] \in Nat /\ list[i].id # Foreign
    <3>1. list[i] \in DiskGiven /\ target[i] \in Nat
      BY <1>1, <1>9
    <3>. QED
      BY <3>1, VmEntriesAssumption, VmDefinitionAssumption DEF DiskGiven, DiskNames
  <2>2. NoTarget \notin Nat
    BY VmDefinitionAssumption
  <2>3. CASE match[i] = {}
    <3>1. f[i] = [node |-> NewNode(i), alias |-> list[i].id, path |-> list[i].path, target |-> target[i]]
      BY <2>3 DEF NewDisk
    <3>2. list[i].target \in {NoTarget, target[i]}
      BY <1>8, <1>9, <2>3
    <3>3. NewNode(i) \in Nat
      BY <1>10
    <3>4. list[i].id \in Aliases(DiskIds)
      BY <2>1 DEF DiskNames, Aliases
    <3>. HIDE DEF f
    <3>. QED
      BY <2>1, <2>3, <3>1, <3>2, <3>3, <3>4 DEF DiskRecord
  <2>4. CASE match[i] # {}
    <3>. DEFINE d == The(match[i])
    <3>1. d \in DiskRecord /\ d.target \in Nat
      BY <1>4, <2>4 DEF DiskRecord
    <3>2. f[i] = MergedDisk(d, list[i], target[i])
      BY <2>4
    <3>3. wanted[i] = IF list[i].target = NoTarget THEN d.target ELSE list[i].target
      BY <1>8, <2>4
    <3>. HIDE DEF d, f
    <3>4. target[i] = IF list[i].target = NoTarget THEN d.target ELSE list[i].target
      BY <1>9, <2>2, <3>1, <3>3
    <3>5. /\ MergedAlias(d.alias, list[i].id) \in Aliases(DiskIds)
          /\ list[i].id # NoId => MergedAlias(d.alias, list[i].id) \in {list[i].id, Foreign}
          /\ d.alias = Foreign <=> MergedAlias(d.alias, list[i].id) = Foreign
      <4>1. d.alias \in Aliases(DiskIds) /\ list[i].id \in Aliases(DiskIds)
        BY <2>1, <3>1 DEF DiskRecord, DiskNames, Aliases
      <4>. QED
        BY <2>1, <4>1, AliasMerged
    <3>6. /\ f[i] \in DiskRecord /\ f[i].node = d.node /\ f[i].path = list[i].path
          /\ f[i].target = target[i] /\ f[i].alias = MergedAlias(d.alias, list[i].id)
      BY <2>1, <3>1, <3>2, <3>5 DEF MergedDisk, DiskRecord
    <3>. QED
      BY <2>4, <3>4, <3>5, <3>6 DEF d
  <2>. QED
    BY <2>3, <2>4
<1>. HIDE DEF f
<1>12. \A i \in 1 .. n : match[i] # {} => The(match[i]).node \in Nodes(disks)
  BY <1>4 DEF Nodes
<1>13. ASSUME NEW i \in 1 .. n, NEW k \in 1 .. n, f[i].node = f[k].node PROVE i = k
  <2>1. CASE match[i] = {}
    <3>1. match[k] = {}
      BY <1>10, <1>11, <1>12, <1>13, <2>1
    <3>. QED
      BY <1>10, <1>11, <1>13, <2>1, <3>1
  <2>2. CASE match[i] # {}
    <3>1. match[k] # {}
      BY <1>10, <1>11, <1>12, <1>13, <2>2
    <3>2. The(match[i]).node = The(match[k]).node
      BY <1>11, <1>13, <2>2, <3>1
    <3>3. The(match[i]) = The(match[k])
      BY <1>4, <2>2, <3>1, <3>2 DEF DevicesAreSound
    <3>4. match[i] \intersect match[k] # {}
      BY <1>4, <2>2, <3>1, <3>3
    <3>. QED
      BY <1>2, <3>4 DEF Apart
  <2>. QED
    BY <2>1, <2>2
<1>14. /\ new \in SUBSET DiskRecord
       /\ \A d, e \in new : d.node = e.node => d = e
       /\ \A e \in new : \E i \in 1 .. n : e = f[i]
       /\ \A i \in 1 .. n : f[i] \in new
  BY <1>6, <1>11, <1>13 DEF Values
<1>15. IsFiniteSet(new) /\ Cardinality(new) = n
  BY <1>1, <1>6, <1>13, DistinctValues
<1>16. ASSUME NEW d \in disks PROVE d.node \in Nodes(new) \/ Id(d) \in AbsentIds(m.disks)
  <2>1. CASE d \in kept
    <3>1. PICK i \in 1 .. n : d \in match[i]
      BY <1>2, <1>3, <2>1 DEF Values
    <3>2. f[i].node = d.node
      BY <1>4, <1>11, <3>1
    <3>. QED
      BY <1>14, <3>2 DEF Nodes
  <2>2. CASE d \notin kept
    BY <2>2 DEF Kept, kept
  <2>. QED
    BY <2>1, <2>2
<1>17. ASSUME NEW e \in new
       PROVE  \/ \E k \in 1 .. Len(m.disks) : e.node = NewNode(k)
              \/ ComesFrom(e, disks, list)
  <2>1. PICK i \in 1 .. n : e = f[i]
    BY <1>14
  <2>2. CASE match[i] = {}
    <3>1. i \in 1 .. Len(m.disks)
      BY <1>1
    <3>. QED
      BY <1>11, <2>1, <2>2, <3>1
  <2>3. CASE match[i] # {}
    <3>1. list[i].target \in Values(Wanted(list))
      BY <1>1 DEF Values, Wanted
    <3>2. /\ e.node = The(match[i]).node
          /\ e.target = The(match[i]).target \/ e.target \in Values(Wanted(list))
          /\ The(match[i]).alias = Foreign <=> e.alias = Foreign
      BY <1>11, <2>1, <2>3, <3>1
    <3>3. The(match[i]) \in disks
      BY <1>4, <2>3
    <3>. QED
      BY <3>2, <3>3 DEF ComesFrom
  <2>. QED
    BY <2>2, <2>3
<1>18. \A i \in 1 .. n : \E d \in new :
          /\ d.path = list[i].path
          /\ list[i].target \in {NoTarget, d.target}
          /\ list[i].id # NoId => d.alias \in {list[i].id, Foreign}
  BY <1>11, <1>14
<1>. QED
  BY <1>1, <1>14, <1>15, <1>16, <1>17, <1>18 DEF list, n, new

\* The trays of a patched definition: those of the entries, and those that no entry
\* is about.
LEMMA TraysReplanned ==
  ASSUME NEW m, m.disks \in Seq(DiskEntry), TrayList(m) \in Seq(TrayEntry),
         DevicesAreSound, TraysPatchable(m)
  PROVE  LET list == PresentEntries(TrayList(m))
             new == PatchedTrays(m)
         IN  /\ new \in SUBSET TrayRecord
             /\ IsFiniteSet(new)
             /\ \A d, e \in new : d.node = e.node => d = e
             /\ \A d \in trays : d.node \in Nodes(new) \/ Id(d) \in AbsentIds(TrayList(m))
             /\ \A e \in new :
                  \/ \E k \in Nat \ {0} : k > Len(m.disks) /\ e.node = NewNode(k)
                  \/ ComesFrom(e, trays, list)
<1>. DEFINE list == PresentEntries(TrayList(m))
            n == Len(list)
            match == TrayMatches(m)
            kept == Kept(TrayList(m), trays)
            wanted == Requested(list, match)
            others == OtherTrays(m, match)
            target == Fill(wanted, TakenFromTrays(m, match))
            f == [i \in 1 .. n |-> IF match[i] = {} THEN NewTray(NewNode(Len(m.disks) + i), list[i], target[i])
                                   ELSE MergedTray(The(match[i]), list[i], target[i])]
            new == PatchedTrays(m)
<1>1. /\ n \in Nat /\ DOMAIN list = 1 .. n /\ Len(m.disks) \in Nat
      /\ \A i \in 1 .. n : list[i] \in TrayGiven
  <2>1. Len(m.disks) \in Nat
    OBVIOUS
  <2>. QED
    BY <2>1, TraysAssigned
<1>2. match \in [1 .. n -> SUBSET kept] /\ Apart(match, kept)
  BY <1>1, TraysMatched
<1>3. /\ kept \subseteq trays /\ IsFiniteSet(kept) /\ Unambiguous(match)
      /\ ~Clash(wanted, TakenFromTrays(m, match))
      /\ others = kept \ UNION Values(match) /\ others \subseteq trays /\ IsFiniteSet(others)
  <2>1. /\ kept \subseteq trays /\ Unambiguous(match)
        /\ ~Clash(wanted, TakenFromTrays(m, match))
    BY DEF Kept, TraysPatchable
  <2>2. others = kept \ UNION Values(match)
    BY DEF OtherTrays
  <2>3. IsFiniteSet(trays)
    BY DEF DevicesAreSound
  <2>. HIDE DEF kept, others, match, wanted
  <2>. QED
    BY <2>1, <2>2, <2>3, FS_Subset
<1>4. ASSUME NEW i \in 1 .. n, match[i] # {}
      PROVE  match[i] = {The(match[i])} /\ The(match[i]) \in kept /\ The(match[i]) \in trays
             /\ The(match[i]) \in TrayRecord
  <2>. HIDE DEF match, kept
  <2>1. match[i] = {The(match[i])} /\ The(match[i]) \in kept
    BY <1>2, <1>3, <1>4, TheOne
  <2>. QED
    BY <1>3, <2>1 DEF DevicesAreSound
<1>6. new = Values(f) \union others /\ DOMAIN f = 1 .. n
  <2>1. new = {f[i] : i \in 1 .. n} \union others
    BY <1>1 DEF PatchedTrays
  <2>. QED
    BY <2>1 DEF Values
<1>. HIDE DEF list, n, match, kept, new, others
<1>7. IsFiniteSet(TakenFromTrays(m, match))
  BY <1>3, FiniteImages, FS_Union DEF TakenFromTrays, DevicesAreSound, others
<1>8. /\ wanted \in [1 .. n -> Nat \union {NoTarget}]
      /\ \A i \in 1 .. n :
           wanted[i] = IF list[i].target = NoTarget /\ match[i] # {} THEN The(match[i]).target
                       ELSE list[i].target
  <2>1. wanted = [i \in 1 .. n |->
                    IF list[i].target = NoTarget /\ match[i] # {} THEN The(match[i]).target
                    ELSE list[i].target]
    BY <1>1 DEF Requested
  <2>2. \A i \in 1 .. n : list[i].target \in Nat \union {NoTarget}
    BY <1>1 DEF TrayGiven
  <2>3. \A i \in 1 .. n : match[i] # {} => The(match[i]).target \in Nat
    BY <1>4 DEF TrayRecord
  <2>. HIDE DEF wanted
  <2>. QED
    BY <2>1, <2>2, <2>3
<1>. HIDE DEF wanted
<1>9. /\ target \in [1 .. n -> Nat]
      /\ \A i \in 1 .. n : wanted[i] # NoTarget => target[i] = wanted[i]
  BY <1>1, <1>7, <1>8, Filled
<1>. HIDE DEF target
<1>10. /\ \A k \in 1 .. n : /\ NewNode(Len(m.disks) + k) \in Nat
                            /\ NewNode(Len(m.disks) + k) \notin Nodes(trays)
       /\ \A k, l \in 1 .. n : NewNode(Len(m.disks) + k) = NewNode(Len(m.disks) + l) => k = l
       /\ \A k \in 1 .. n : Len(m.disks) + k \in Nat \ {0} /\ Len(m.disks) + k > Len(m.disks)
  <2>. HIDE DEF f
  <2>1. \A k \in 1 .. n : Len(m.disks) + k \in Nat \ {0} /\ Len(m.disks) + k > Len(m.disks)
    BY <1>1
  <2>2. /\ \A k \in 1 .. n : /\ NewNode(Len(m.disks) + k) \in Nat
                             /\ NewNode(Len(m.disks) + k) \notin Nodes(trays)
    BY <2>1, NodesAreNew
  <2>3. ASSUME NEW k \in 1 .. n, NEW l \in 1 .. n, NewNode(Len(m.disks) + k) = NewNode(Len(m.disks) + l)
        PROVE  k = l
    <3>1. Len(m.disks) + k = Len(m.disks) + l
      BY <2>1, <2>3, NodesAreNew
    <3>. QED
      BY <1>1, <3>1
  <2>. QED
    BY <2>1, <2>2, <2>3
\* A tray for each entry.
<1>11. ASSUME NEW i \in 1 .. n
       PROVE  /\ f[i] \in TrayRecord
              /\ match[i] = {} => f[i].node = NewNode(Len(m.disks) + i)
              /\ match[i] # {} => /\ f[i].node = The(match[i]).node
                                  /\ f[i].target = The(match[i]).target \/ f[i].target = list[i].target
                                  /\ The(match[i]).alias = Foreign <=> f[i].alias = Foreign
  <2>1. /\ list[i].id \in TrayNames /\ list[i].target \in Nat \union {NoTarget}
        /\ target[i] \in Nat /\ list[i].id # Foreign
    <3>1. list[i] \in TrayGiven /\ target[i] \in Nat
      BY <1>1, <1>9
    <3>. QED
      BY <3>1, VmEntriesAssumption, VmDefinitionAssumption DEF TrayGiven, TrayNames
  <2>2. NoTarget \notin Nat
    BY VmDefinitionAssumption
  <2>3. CASE match[i] = {}
    <3>1. f[i] = [node |-> NewNode(Len(m.disks) + i), alias |-> list[i].id, target |-> target[i]]
      BY <2>3 DEF NewTray
    <3>3. NewNode(Len(m.disks) + i) \in Nat
      BY <1>10
    <3>4. list[i].id \in Aliases(TrayIds)
      BY <2>1 DEF TrayNames, Aliases
    <3>. HIDE DEF f
    <3>. QED
      BY <2>1, <2>3, <3>1, <3>3, <3>4 DEF TrayRecord
  <2>4. CASE match[i] # {}
    <3>. DEFINE d == The(match[i])
    <3>1. d \in TrayRecord /\ d.target \in Nat
      BY <1>4, <2>4 DEF TrayRecord
    <3>2. f[i] = MergedTray(d, list[i], target[i])
      BY <2>4
    <3>3. wanted[i] = IF list[i].target = NoTarget THEN d.target ELSE list[i].target
      BY <1>8, <2>4
    <3>. HIDE DEF d, f
    <3>4. target[i] = IF list[i].target = NoTarget THEN d.target ELSE list[i].target
      BY <1>9, <2>2, <3>1, <3>3
    <3>5. /\ MergedAlias(d.alias, list[i].id) \in Aliases(TrayIds)
          /\ d.alias = Foreign <=> MergedAlias(d.alias, list[i].id) = Foreign
      <4>1. d.alias \in Aliases(TrayIds) /\ list[i].id \in Aliases(TrayIds)
        BY <2>1, <3>1 DEF TrayRecord, TrayNames, Aliases
      <4>. QED
        BY <2>1, <4>1, AliasMerged
    <3>6. /\ f[i] \in TrayRecord /\ f[i].node = d.node
          /\ f[i].target = target[i] /\ f[i].alias = MergedAlias(d.alias, list[i].id)
      BY <2>1, <3>1, <3>2, <3>5 DEF MergedTray, TrayRecord
    <3>. QED
      BY <2>4, <3>4, <3>5, <3>6 DEF d
  <2>. QED
    BY <2>3, <2>4
<1>. HIDE DEF f
<1>12. \A i \in 1 .. n : match[i] # {} => The(match[i]).node \in Nodes(trays)
  BY <1>4 DEF Nodes
<1>13. ASSUME NEW i \in 1 .. n, NEW k \in 1 .. n, f[i].node = f[k].node PROVE i = k
  <2>1. CASE match[i] = {}
    <3>1. match[k] = {}
      BY <1>10, <1>11, <1>12, <1>13, <2>1
    <3>. QED
      BY <1>10, <1>11, <1>13, <2>1, <3>1
  <2>2. CASE match[i] # {}
    <3>1. match[k] # {}
      BY <1>10, <1>11, <1>12, <1>13, <2>2
    <3>2. The(match[i]).node = The(match[k]).node
      BY <1>11, <1>13, <2>2, <3>1
    <3>3. The(match[i]) = The(match[k])
      BY <1>4, <2>2, <3>1, <3>2 DEF DevicesAreSound
    <3>4. match[i] \intersect match[k] # {}
      BY <1>4, <2>2, <3>1, <3>3
    <3>. QED
      BY <1>2, <3>4 DEF Apart
  <2>. QED
    BY <2>1, <2>2
\* An entry's tray is not one of the others.
<1>14. ASSUME NEW i \in 1 .. n, NEW d \in others, f[i].node = d.node PROVE FALSE
  <2>1. d \in trays /\ d.node \in Nodes(trays) /\ d \notin UNION Values(match)
    BY <1>3 DEF Nodes
  <2>2. match[i] # {}
    BY <1>10, <1>11, <1>14, <2>1
  <2>3. The(match[i]) = d
    BY <1>4, <1>11, <1>14, <2>1, <2>2 DEF DevicesAreSound
  <2>4. d \in match[i] /\ match[i] \in Values(match)
    BY <1>2, <1>4, <2>2, <2>3 DEF Values
  <2>. QED
    BY <2>1, <2>4
<1>15. \A e \in new : e \in others \/ \E i \in 1 .. n : e = f[i]
  BY <1>6 DEF Values
<1>16. \A i \in 1 .. n : f[i] \in new
  BY <1>6 DEF Values
<1>17. new \in SUBSET TrayRecord
  <2>1. others \subseteq TrayRecord
    BY <1>3 DEF DevicesAreSound
  <2>. QED
    BY <1>11, <1>15, <2>1
<1>18. ASSUME NEW d \in new, NEW e \in new, d.node = e.node PROVE d = e
  <2>1. CASE d \in others /\ e \in others
    BY <1>3, <1>18, <2>1 DEF DevicesAreSound
  <2>2. CASE d \notin others /\ e \notin others
    BY <1>13, <1>15, <1>18, <2>2
  <2>3. CASE d \in others /\ e \notin others
    BY <1>14, <1>15, <1>18, <2>3
  <2>4. CASE d \notin others /\ e \in others
    BY <1>14, <1>15, <1>18, <2>4
  <2>. QED
    BY <2>1, <2>2, <2>3, <2>4
<1>19. IsFiniteSet(new)
  <2>1. IsFiniteSet(Values(f))
    BY <1>1, <1>6, FiniteParts, FiniteValues
  <2>. QED
    BY <1>3, <1>6, <2>1, FS_Union
<1>20. ASSUME NEW d \in trays PROVE d.node \in Nodes(new) \/ Id(d) \in AbsentIds(TrayList(m))
  <2>1. CASE d \in others
    BY <1>6, <2>1 DEF Nodes
  <2>2. CASE d \in kept /\ d \notin others
    <3>1. PICK i \in 1 .. n : d \in match[i]
      BY <1>2, <1>3, <2>2 DEF Values
    <3>2. f[i].node = d.node
      BY <1>4, <1>11, <3>1
    <3>. QED
      BY <1>16, <3>2 DEF Nodes
  <2>3. CASE d \notin kept
    BY <2>3 DEF Kept, kept
  <2>. QED
    BY <2>1, <2>2, <2>3
<1>21. ASSUME NEW e \in new
       PROVE  \/ \E k \in Nat \ {0} : k > Len(m.disks) /\ e.node = NewNode(k)
              \/ ComesFrom(e, trays, list)
  <2>1. CASE e \in others
    BY <1>3, <2>1 DEF ComesFrom
  <2>2. CASE e \notin others
    <3>1. PICK i \in 1 .. n : e = f[i]
      BY <1>15, <2>2
    <3>2. CASE match[i] = {}
      BY <1>10, <1>11, <3>1, <3>2
    <3>3. CASE match[i] # {}
      <4>1. list[i].target \in Values(Wanted(list))
        BY <1>1 DEF Values, Wanted
      <4>2. /\ e.node = The(match[i]).node
            /\ e.target = The(match[i]).target \/ e.target \in Values(Wanted(list))
            /\ The(match[i]).alias = Foreign <=> e.alias = Foreign
        BY <1>11, <3>1, <3>3, <4>1
      <4>3. The(match[i]) \in trays
        BY <1>4, <3>3
      <4>. QED
        BY <4>2, <4>3 DEF ComesFrom
    <3>. QED
      BY <3>2, <3>3
  <2>. QED
    BY <2>1, <2>2
<1>. QED
  BY <1>17, <1>18, <1>19, <1>20, <1>21 DEF list, new

-----------------------------------------------------------------------------
(* The steps.                                                                *)

\* What a manifest says is of the kinds there are.
Written(m) ==
  /\ m.disks \in Seq(DiskEntry)
  /\ TrayList(m) \in Seq(TrayEntry)
  /\ NicsEntered(m.nics)
  /\ m.network \in Words
  /\ m.settings \in SettingsEntry

\* The bodies of LeavesOnlyWhenNamed, OpenIsKept and ManifestRealised.
Leaving ==
  /\ \A d \in disks : d.node \in Nodes(disks') \/ Id(d) \in AbsentIds(applied'.disks)
  /\ \A d \in trays : d.node \in Nodes(trays') \/ Id(d) \in AbsentIds(TrayList(applied'))
  /\ \A nic \in Values(nics) :
       nic.node \in Nodes(Values(nics')) \/ IdOf(nic) \in AbsentIds(Listed(applied'.nics))

Open ==
  defined =>
    /\ \A d \in disks \union trays, e \in (disks \union trays)' :
         d.node = e.node =>
           /\ d.target = e.target
                \/ e.target \in Values(Wanted(PresentEntries(applied'.disks)
                                              \o PresentEntries(TrayList(applied'))))
           /\ d.alias = Foreign <=> e.alias = Foreign
    /\ OpenNicsKept(applied'.nics, nics, nics')
    /\ OpenSettingsKept(applied'.settings, settings, settings')

Realised ==
  LET list == PresentEntries(applied'.disks)
  IN /\ Cardinality(disks') = Len(list)
     /\ \A i \in DOMAIN list :
          \E d \in disks' :
            /\ d.path = list[i].path
            /\ list[i].target \in {NoTarget, d.target}
            /\ list[i].id # NoId => d.alias \in {list[i].id, Foreign}
     /\ NicsRealised(applied'.nics, nics')
     /\ Repeats(DumpSettings(settings'), applied'.settings, settings'.controller)

\* The targets that two lists ask for are those that they ask for together.
LEMMA WantedTogether ==
  ASSUME NEW A, NEW B, NEW first \in Seq(A), NEW second \in Seq(B)
  PROVE  /\ Values(Wanted(first)) \subseteq Values(Wanted(first \o second))
         /\ Values(Wanted(second)) \subseteq Values(Wanted(first \o second))
<1>. DEFINE S == Len(first)
            T == Len(second)
            both == first \o second
<1>1. S \in Nat /\ T \in Nat /\ DOMAIN first = 1 .. S /\ DOMAIN second = 1 .. T
  OBVIOUS
<1>2. first = [k \in 1 .. S |-> first[k]] /\ second = [k \in 1 .. T |-> second[k]]
  OBVIOUS
<1>3. /\ DOMAIN both = 1 .. S + T
      /\ \A k \in 1 .. S : both[k] = first[k]
      /\ \A k \in 1 .. T : both[S + k] = second[k]
  <2>. HIDE DEF S, T
  <2>. QED
    BY <1>1, <1>2, Joined
<1>. HIDE DEF S, T, both
<1>4. ASSUME NEW k \in 1 .. S PROVE first[k].target \in Values(Wanted(both))
  <2>1. k \in 1 .. S + T /\ both[k] = first[k]
    BY <1>1, <1>3
  <2>. QED
    BY <1>3, <2>1 DEF Values, Wanted
<1>5. ASSUME NEW k \in 1 .. T PROVE second[k].target \in Values(Wanted(both))
  <2>1. S + k \in 1 .. S + T /\ both[S + k] = second[k]
    BY <1>1, <1>3
  <2>. QED
    BY <1>3, <2>1 DEF Values, Wanted
<1>6. /\ Values(Wanted(first)) = {first[k].target : k \in 1 .. S}
      /\ Values(Wanted(second)) = {second[k].target : k \in 1 .. T}
  BY <1>1 DEF Values, Wanted
<1>. QED
  BY <1>4, <1>5, <1>6 DEF both

\* A patch keeps the invariant, and does what the three properties of steps say.
LEMMA Reconciled ==
  ASSUME IInv, NEW m, Written(m), Reconcile(m)
  PROVE  IInv' /\ Leaving /\ Open /\ Realised
<1>. DEFINE list == PresentEntries(m.disks)
            tray == PresentEntries(TrayList(m))
            both == list \o tray
<1>1. /\ defined /\ defined' = defined /\ applied' = m
      /\ disks' = PatchedDisks(m) /\ trays' = PatchedTrays(m)
      /\ nics' = NewNics(m.nics, m.network, nics)
      /\ settings' = PatchedSettings(m.settings, settings)
      /\ TargetsDiffer(disks' \union trays')
      /\ TopologyFits(settings')
      /\ Valid(m) /\ InContext(m.settings, settings) /\ DisksPatchable(m)
      /\ TraysPatchable(m) /\ NicsPatchable(m.nics, nics)
  BY DEF Reconcile, Patch
<1>2. /\ m.disks \in Seq(DiskEntry) /\ TrayList(m) \in Seq(TrayEntry) /\ NicsEntered(m.nics)
      /\ m.network \in Words /\ m.settings \in SettingsEntry
      /\ ValidSettings(m.settings) /\ ValidInterfaces(m.nics)
  BY <1>1 DEF Written, Valid
<1>3. /\ defined \in BOOLEAN /\ DevicesAreSound /\ NicsAreSound(nics) /\ SettingsAreSound(settings)
      /\ settings \in SettingsRecord
  BY DEF IInv, SettingsAreSound
<1>4. /\ disks' \in SUBSET DiskRecord
      /\ IsFiniteSet(disks') /\ Cardinality(disks') = Len(list)
      /\ \A d, e \in disks' : d.node = e.node => d = e
      /\ \A d \in disks : d.node \in Nodes(disks') \/ Id(d) \in AbsentIds(m.disks)
      /\ \A i \in DOMAIN list :
           \E d \in disks' :
             /\ d.path = list[i].path
             /\ list[i].target \in {NoTarget, d.target}
             /\ list[i].id # NoId => d.alias \in {list[i].id, Foreign}
      /\ \A e \in disks' : \/ \E k \in 1 .. Len(m.disks) : e.node = NewNode(k)
                           \/ ComesFrom(e, disks, list)
  BY <1>1, <1>2, <1>3, DisksReplanned
<1>5. /\ trays' \in SUBSET TrayRecord
      /\ IsFiniteSet(trays')
      /\ \A d, e \in trays' : d.node = e.node => d = e
      /\ \A d \in trays : d.node \in Nodes(trays') \/ Id(d) \in AbsentIds(TrayList(m))
      /\ \A e \in trays' :
           \/ \E k \in Nat \ {0} : k > Len(m.disks) /\ e.node = NewNode(k)
           \/ ComesFrom(e, trays, tray)
  BY <1>1, <1>2, <1>3, TraysReplanned
<1>6. /\ NicsAreSound(nics')
      /\ \A nic \in Values(nics) :
           nic.node \in Nodes(Values(nics')) \/ IdOf(nic) \in AbsentIds(Listed(m.nics))
      /\ NicsRealised(m.nics, nics')
      /\ OpenNicsKept(m.nics, nics, nics')
  BY <1>1, <1>2, <1>3, NicsPatched
<1>7. /\ SettingsAreSound(settings')
      /\ OpenSettingsKept(m.settings, settings, settings')
      /\ Repeats(DumpSettings(settings'), m.settings, settings'.controller)
  BY <1>1, <1>2, <1>3, PatchedSound, SettingsKept, PatchedRepeated
<1>8. Len(m.disks) \in Nat
  BY <1>2
<1>9. /\ \A k \in Nat \ {0} :
           NewNode(k) \in Nat /\ NewNode(k) \notin Nodes(disks) /\ NewNode(k) \notin Nodes(trays)
      /\ \A k, l \in Nat \ {0} : NewNode(k) = NewNode(l) => k = l
  BY <1>3, NodesAreNew
<1>10. \A k \in 1 .. Len(m.disks) : k \in Nat \ {0} /\ k <= Len(m.disks)
  BY <1>8
<1>11. /\ \A e \in disks' : e.node \in Nodes(disks) \/ \E k \in 1 .. Len(m.disks) : e.node = NewNode(k)
       /\ \A e \in trays' : e.node \in Nodes(trays)
                            \/ \E k \in Nat \ {0} : k > Len(m.disks) /\ e.node = NewNode(k)
  BY <1>4, <1>5 DEF ComesFrom, Nodes
<1>12. \A d \in disks, e \in trays : d.node # e.node
  BY <1>3 DEF DevicesAreSound
<1>13. ASSUME NEW d \in disks', NEW e \in trays', d.node = e.node PROVE FALSE
  <2>1. CASE d.node \in Nodes(disks)
    <3>1. e.node \notin Nodes(trays)
      BY <1>12, <1>13, <2>1 DEF Nodes
    <3>. QED
      BY <1>9, <1>11, <1>13, <2>1, <3>1
  <2>2. CASE d.node \notin Nodes(disks)
    <3>1. PICK k \in 1 .. Len(m.disks) : d.node = NewNode(k)
      BY <1>11, <2>2
    <3>2. e.node \notin Nodes(trays)
      BY <1>9, <1>10, <1>13, <3>1
    <3>3. PICK l \in Nat \ {0} : l > Len(m.disks) /\ e.node = NewNode(l)
      BY <1>11, <3>2
    <3>4. k = l
      BY <1>9, <1>10, <1>13, <3>1, <3>3
    <3>. QED
      BY <1>8, <1>10, <3>3, <3>4
  <2>. QED
    BY <2>1, <2>2
<1>14. \A d, e \in disks' \union trays' : d.target = e.target => d.node = e.node
  BY <1>1 DEF TargetsDiffer
<1>15. DevicesAreSound'
  BY <1>4, <1>5, <1>13, <1>14 DEF DevicesAreSound
<1>16. IInv'
  <2>1. NicsAreSound(nics)' /\ SettingsAreSound(settings)'
    BY <1>6, <1>7 DEF NicsAreSound, SettingsAreSound
  <2>. QED
    BY <1>1, <1>3, <1>15, <2>1 DEF IInv
<1>17. Leaving
  BY <1>1, <1>4, <1>5, <1>6 DEF Leaving
\* Which device it was decides what kind of device it is.
<1>18. ASSUME NEW d \in disks \union trays, NEW e \in disks' \union trays', d.node = e.node
       PROVE  /\ d.target = e.target \/ e.target \in Values(Wanted(both))
              /\ d.alias = Foreign <=> e.alias = Foreign
  <2>1. /\ Values(Wanted(list)) \subseteq Values(Wanted(both))
        /\ Values(Wanted(tray)) \subseteq Values(Wanted(both))
    <3>1. list \in Seq(DiskGiven)
      <4>1. PICK G, H : /\ G = DiskGiven /\ H = [present : {FALSE}, id : DiskNames]
                        /\ \A x \in H : ~x.present
                        /\ m.disks \in Seq(G \union H)
        BY <1>2 DEF DiskEntry
      <4>. QED
        BY <4>1, GivenOnes
    <3>2. tray \in Seq(TrayGiven)
      BY <1>2, TraysAssigned
    <3>. HIDE DEF list, tray
    <3>. QED
      BY <3>1, <3>2, WantedTogether
  <2>. HIDE DEF both
  <2>2. e.node \in Nodes(disks) \union Nodes(trays)
    BY <1>18 DEF Nodes
  <2>3. CASE e \in disks'
    <3>1. ComesFrom(e, disks, list)
      BY <1>4, <1>9, <1>10, <2>2, <2>3
    <3>2. PICK c \in disks : /\ e.node = c.node
                             /\ e.target = c.target \/ e.target \in Values(Wanted(list))
                             /\ c.alias = Foreign <=> e.alias = Foreign
      BY <3>1 DEF ComesFrom
    <3>3. c = d
      BY <1>3, <1>18, <3>2 DEF DevicesAreSound
    <3>. QED
      BY <2>1, <3>2, <3>3
  <2>4. CASE e \in trays'
    <3>1. ComesFrom(e, trays, tray)
      BY <1>5, <1>9, <2>2, <2>4
    <3>2. PICK c \in trays : /\ e.node = c.node
                             /\ e.target = c.target \/ e.target \in Values(Wanted(tray))
                             /\ c.alias = Foreign <=> e.alias = Foreign
      BY <3>1 DEF ComesFrom
    <3>3. c = d
      BY <1>3, <1>18, <3>2 DEF DevicesAreSound
    <3>. QED
      BY <2>1, <3>2, <3>3
  <2>. QED
    BY <2>3, <2>4
<1>19. Open
  BY <1>1, <1>6, <1>7, <1>18 DEF Open
<1>20. Realised
  BY <1>1, <1>4, <1>6, <1>7 DEF Realised
<1>. QED
  BY <1>16, <1>17, <1>19, <1>20

\* The targets that a new definition gives to its disks differ, and are not those
\* of its trays.
LEMMA TargetsOfNew ==
  ASSUME NEW m, m.disks \in Seq(DiskEntry), TrayList(m) \in Seq(TrayEntry), Valid(m)
  PROVE  LET list == PresentEntries(m.disks)
             tray == PresentEntries(TrayList(m))
             onDisk == AssignedDiskTargets(m)
             onTray == AssignedTrayTargets(m)
         IN  /\ Len(list) \in Nat /\ DOMAIN list = 1 .. Len(list)
             /\ \A i \in 1 .. Len(list) : list[i] \in DiskGiven
             /\ Len(tray) \in Nat /\ DOMAIN tray = 1 .. Len(tray)
             /\ \A i \in 1 .. Len(tray) : tray[i] \in TrayGiven
             /\ onDisk \in [1 .. Len(list) -> Nat] /\ onTray \in [1 .. Len(tray) -> Nat]
             /\ \A i, k \in 1 .. Len(list) : onDisk[i] = onDisk[k] => i = k
             /\ \A i, k \in 1 .. Len(tray) : onTray[i] = onTray[k] => i = k
             /\ \A i \in 1 .. Len(list), k \in 1 .. Len(tray) : onDisk[i] # onTray[k]
             /\ \A i \in 1 .. Len(list) : list[i].target \in {NoTarget, onDisk[i]}
<1>. DEFINE list == PresentEntries(m.disks)
            tray == PresentEntries(TrayList(m))
            n == Len(list)
            c == Len(tray)
            onDisk == AssignedDiskTargets(m)
            onTray == AssignedTrayTargets(m)
<1>1. n \in Nat /\ DOMAIN list = 1 .. n /\ \A i \in 1 .. n : list[i] \in DiskGiven
  <2>1. PICK G, H, l : /\ G = DiskGiven /\ H = [present : {FALSE}, id : DiskNames] /\ l = m.disks
                       /\ \A x \in H : ~x.present
                       /\ l \in Seq(G \union H)
    BY DEF DiskEntry
  <2>2. /\ PresentEntries(l) \in Seq(G) /\ Len(PresentEntries(l)) \in Nat
        /\ DOMAIN PresentEntries(l) = 1 .. Len(PresentEntries(l))
        /\ \A i \in DOMAIN PresentEntries(l) : PresentEntries(l)[i] \in G
    BY <2>1, GivenOnes
  <2>. QED
    BY <2>1, <2>2
<1>2. /\ \A i \in 1 .. n : list[i].target \notin Values(onTray) \union {onDisk[k] : k \in 1 .. i - 1}
      /\ ~Clash(Wanted(tray), {})
  BY <1>1 DEF Valid, ValidDevices
<1>3. /\ c \in Nat /\ DOMAIN tray = 1 .. c
      /\ \A i \in 1 .. c : tray[i] \in TrayGiven
      /\ onTray \in [1 .. c -> Nat]
      /\ IsFiniteSet(Values(onTray))
      /\ \A i, k \in 1 .. c : onTray[i] = onTray[k] => i = k
  BY <1>2, TraysAssigned
<1>4. /\ onDisk \in [1 .. n -> Nat]
      /\ \A i \in 1 .. n :
           /\ list[i].target # NoTarget => onDisk[i] = list[i].target
           /\ list[i].target = NoTarget => onDisk[i] \notin Values(onTray) \union Earlier(onDisk, i)
  <2>1. \A i \in 1 .. n : list[i].target \in Nat \union {NoTarget}
    BY <1>1 DEF DiskGiven
  <2>2. PICK l : l = PresentEntries(m.disks)
    OBVIOUS
  <2>3. IsFiniteSet(Values(AssignedTrayTargets(m)))
    BY <1>3
  <2>4. /\ DOMAIN l = 1 .. n /\ n \in Nat
        /\ \A i \in 1 .. n : l[i].target \in Nat \union {NoTarget}
    BY <1>1, <2>1, <2>2
  <2>. HIDE DEF list, n
  <2>5. /\ AssignedDiskTargets(m) \in [1 .. n -> Nat]
        /\ \A i \in 1 .. n :
             /\ l[i].target # NoTarget => AssignedDiskTargets(m)[i] = l[i].target
             /\ l[i].target = NoTarget =>
                  AssignedDiskTargets(m)[i]
                    \notin Values(AssignedTrayTargets(m)) \union Earlier(AssignedDiskTargets(m), i)
    BY <2>2, <2>3, <2>4, DiskTargetsAssigned
  <2>. QED
    BY <2>2, <2>5 DEF list
<1>. HIDE DEF list, tray, n, c, onDisk, onTray
<1>5. \A i \in 1 .. n : onDisk[i] \notin Values(onTray) \union Earlier(onDisk, i)
  BY <1>2, <1>4 DEF Earlier, n
<1>6. ASSUME NEW i \in 1 .. n, NEW k \in 1 .. n, k < i PROVE onDisk[i] # onDisk[k]
  <2>1. k \in 1 .. i - 1
    BY <1>6
  <2>. QED
    BY <1>5, <2>1 DEF Earlier
<1>7. ASSUME NEW i \in 1 .. n, NEW k \in 1 .. n, onDisk[i] = onDisk[k] PROVE i = k
  <2>1. i < k \/ k < i \/ i = k
    BY <1>1
  <2>. QED
    BY <1>6, <1>7, <2>1
<1>8. \A i \in 1 .. n, k \in 1 .. c : onDisk[i] # onTray[k]
  BY <1>3, <1>5 DEF Values
<1>9. \A i \in 1 .. n : list[i].target \in {NoTarget, onDisk[i]}
  BY <1>4
<1>. QED
  BY <1>1, <1>3, <1>4, <1>7, <1>8, <1>9 DEF list, tray, n, c, onDisk, onTray

\* A first definition has what the invariant says, and what its manifest says.
LEMMA Defined ==
  ASSUME IInv, NEW m, Written(m), Define(m)
  PROVE  IInv' /\ Leaving /\ Open /\ Realised
<1>. DEFINE list == PresentEntries(m.disks)
            tray == PresentEntries(TrayList(m))
            n == Len(list)
            c == Len(tray)
            onDisk == AssignedDiskTargets(m)
            onTray == AssignedTrayTargets(m)
            disk == [i \in 1 .. n |-> NewDisk(i, list[i], onDisk[i])]
            cdrom == [i \in 1 .. c |-> NewTray(n + i, tray[i], onTray[i])]
<1>1. /\ ~defined /\ defined' = TRUE /\ applied' = m
      /\ nics' = BuiltNics(m.nics, m.network)
      /\ settings' = BuiltSettings(m.settings)
      /\ TopologyFits(settings')
      /\ Valid(m) /\ InContext(m.settings, NothingYet)
      /\ disks' = {NewDisk(i, list[i], onDisk[i]) : i \in DOMAIN list}
      /\ trays' = {NewTray(n + i, tray[i], onTray[i]) : i \in DOMAIN tray}
  BY DEF Define
<1>2. /\ m.disks \in Seq(DiskEntry) /\ TrayList(m) \in Seq(TrayEntry) /\ NicsEntered(m.nics)
      /\ m.network \in Words /\ m.settings \in SettingsEntry
      /\ ValidSettings(m.settings) /\ ValidInterfaces(m.nics)
  BY <1>1 DEF Written, Valid
<1>3. disks = {} /\ trays = {} /\ nics = <<>>
  BY <1>1 DEF IInv
<1>4. /\ n \in Nat /\ DOMAIN list = 1 .. n
      /\ \A i \in 1 .. n : list[i] \in DiskGiven
      /\ c \in Nat /\ DOMAIN tray = 1 .. c
      /\ \A i \in 1 .. c : tray[i] \in TrayGiven
      /\ onDisk \in [1 .. n -> Nat] /\ onTray \in [1 .. c -> Nat]
      /\ \A i, k \in 1 .. n : onDisk[i] = onDisk[k] => i = k
      /\ \A i, k \in 1 .. c : onTray[i] = onTray[k] => i = k
      /\ \A i \in 1 .. n, k \in 1 .. c : onDisk[i] # onTray[k]
      /\ \A i \in 1 .. n : list[i].target \in {NoTarget, onDisk[i]}
  BY <1>1, <1>2, TargetsOfNew
<1>5. disks' = Values(disk) /\ trays' = Values(cdrom) /\ DOMAIN disk = 1 .. n /\ DOMAIN cdrom = 1 .. c
  BY <1>1, <1>4 DEF Values
<1>. HIDE DEF list, tray, n, c, onDisk, onTray
<1>6. ASSUME NEW i \in 1 .. n
      PROVE  /\ disk[i].node = i /\ disk[i].target = onDisk[i]
             /\ disk[i].path = list[i].path /\ disk[i].alias = list[i].id
             /\ disk[i] \in DiskRecord
  <2>1. /\ list[i].id \in Aliases(DiskIds) /\ list[i].path \in Paths /\ onDisk[i] \in Nat /\ i \in Nat
    <3>1. list[i] \in DiskGiven /\ onDisk[i] \in Nat /\ i \in Nat
      BY <1>4
    <3>. HIDE DEF disk, cdrom
    <3>. QED
      BY <3>1 DEF DiskGiven, DiskNames, Aliases
  <2>2. disk[i] = [node |-> i, alias |-> list[i].id, path |-> list[i].path, target |-> onDisk[i]]
    BY DEF NewDisk
  <2>. HIDE DEF disk
  <2>. QED
    BY <2>1, <2>2 DEF DiskRecord
<1>7. ASSUME NEW i \in 1 .. c
      PROVE  /\ cdrom[i].node = n + i /\ cdrom[i].target = onTray[i]
             /\ cdrom[i] \in TrayRecord
  <2>1. /\ tray[i].id \in Aliases(TrayIds) /\ onTray[i] \in Nat /\ n + i \in Nat
    <3>1. tray[i] \in TrayGiven /\ onTray[i] \in Nat /\ n + i \in Nat
      BY <1>4
    <3>. HIDE DEF disk, cdrom
    <3>. QED
      BY <3>1 DEF TrayGiven, TrayNames, Aliases
  <2>2. cdrom[i] = [node |-> n + i, alias |-> tray[i].id, target |-> onTray[i]]
    BY DEF NewTray
  <2>. HIDE DEF cdrom
  <2>. QED
    BY <2>1, <2>2 DEF TrayRecord
<1>. HIDE DEF disk, cdrom
<1>9. /\ \A d \in disks' : \E i \in 1 .. n : d = disk[i]
      /\ \A d \in trays' : \E i \in 1 .. c : d = cdrom[i]
      /\ \A i \in 1 .. n : disk[i] \in disks'
      /\ \A i \in 1 .. c : cdrom[i] \in trays'
  BY <1>5 DEF Values
<1>10. /\ \A i, k \in 1 .. n : disk[i] = disk[k] => i = k
       /\ \A i, k \in 1 .. c : cdrom[i] = cdrom[k] => i = k
  <2>1. ASSUME NEW i \in 1 .. n, NEW k \in 1 .. n, disk[i] = disk[k] PROVE i = k
    <3>1. disk[i].node = i /\ disk[k].node = k
      BY <1>6
    <3>. QED
      BY <2>1, <3>1
  <2>2. ASSUME NEW i \in 1 .. c, NEW k \in 1 .. c, cdrom[i] = cdrom[k] PROVE i = k
    <3>1. cdrom[i].target = onTray[i] /\ cdrom[k].target = onTray[k]
      BY <1>7
    <3>2. onTray[i] = onTray[k]
      BY <2>2, <3>1
    <3>. QED
      BY <1>4, <3>2
  <2>. QED
    BY <2>1, <2>2
<1>11. /\ IsFiniteSet(disks') /\ Cardinality(disks') = n
       /\ IsFiniteSet(trays')
  BY <1>4, <1>5, <1>10, DistinctValues
<1>12. DevicesAreSound'
  <2>1. disks' \in SUBSET DiskRecord /\ trays' \in SUBSET TrayRecord
    BY <1>6, <1>7, <1>9
  <2>2. ASSUME NEW d \in disks', NEW e \in disks'
        PROVE  (d.node = e.node => d = e) /\ (d.target = e.target => d.node = e.node)
    <3>1. PICK i \in 1 .. n, k \in 1 .. n : d = disk[i] /\ e = disk[k]
      BY <1>9
    <3>2. /\ d.node = i /\ e.node = k /\ d.target = onDisk[i] /\ e.target = onDisk[k]
      BY <1>6, <3>1
    <3>3. onDisk[i] = onDisk[k] => i = k
      BY <1>4
    <3>. QED
      BY <3>1, <3>2, <3>3
  <2>3. ASSUME NEW d \in trays', NEW e \in trays'
        PROVE  (d.node = e.node => d = e) /\ (d.target = e.target => d.node = e.node)
    <3>1. PICK i \in 1 .. c, k \in 1 .. c : d = cdrom[i] /\ e = cdrom[k]
      BY <1>9
    <3>2. /\ d.node = n + i /\ e.node = n + k /\ d.target = onTray[i] /\ e.target = onTray[k]
      BY <1>6, <1>7, <3>1
    <3>3. n + i = n + k => i = k
      BY <1>4
    <3>. QED
      BY <1>4, <3>1, <3>2, <3>3
  <2>4. ASSUME NEW d \in disks', NEW e \in trays' PROVE d.node # e.node /\ d.target # e.target
    <3>1. PICK i \in 1 .. n, k \in 1 .. c : d = disk[i] /\ e = cdrom[k]
      BY <1>9
    <3>2. /\ d.node = i /\ e.node = n + k /\ d.target = onDisk[i] /\ e.target = onTray[k]
      BY <1>6, <1>7, <3>1
    <3>3. i # n + k
      BY <1>4
    <3>. QED
      BY <1>4, <3>2, <3>3
  <2>5. \A d, e \in disks' \union trays' : d.target = e.target => d.node = e.node
    BY <2>2, <2>3, <2>4
  <2>6. /\ \A d, e \in disks' : d.node = e.node => d = e
        /\ \A d, e \in trays' : d.node = e.node => d = e
    BY <2>2, <2>3
  <2>. QED
    BY <1>11, <2>1, <2>4, <2>5, <2>6 DEF DevicesAreSound
<1>13. NicsAreSound(nics') /\ NicsRealised(m.nics, nics')
  BY <1>1, <1>2, <1>3, NicsBuilt
<1>14. /\ SettingsAreSound(settings')
       /\ Repeats(DumpSettings(settings'), m.settings, settings'.controller)
  BY <1>1, <1>2, BuiltSound, BuiltRepeated
<1>15. IInv'
  <2>1. NicsAreSound(nics)' /\ SettingsAreSound(settings)'
    BY <1>13, <1>14 DEF NicsAreSound, SettingsAreSound
  <2>. QED
    BY <1>1, <1>12, <2>1 DEF IInv
<1>16. Leaving
  <2>1. Values(nics) = {}
    BY <1>3 DEF Values
  <2>. QED
    BY <1>3, <2>1 DEF Leaving
<1>17. Open
  BY <1>1 DEF Open
<1>18. ASSUME NEW i \in 1 .. n
       PROVE  \E d \in disks' : /\ d.path = list[i].path
                                /\ list[i].target \in {NoTarget, d.target}
                                /\ list[i].id # NoId => d.alias \in {list[i].id, Foreign}
  BY <1>4, <1>6, <1>9
<1>19. Realised
  BY <1>1, <1>4, <1>11, <1>13, <1>14, <1>18 DEF Realised, list, n
<1>. QED
  BY <1>15, <1>16, <1>17, <1>19

-----------------------------------------------------------------------------
(* The manifests that the steps apply.                                       *)

\* A dump lists each device of a set whose targets differ.
LEMMA InOrderIsThere ==
  ASSUME NEW D, IsFiniteSet(D), \A d \in D : d.target \in Nat,
         \A d, e \in D : d.target = e.target => d = e
  PROVE  Cardinality(D) \in Nat /\ \A i \in 1 .. Cardinality(D) : InOrder(D)[i] \in D
<1>. DEFINE T == Targets(D)
            f == [d \in D |-> d.target]
<1>1. f \in [D -> T] /\ (\A t \in T : \E d \in D : f[d] = t) /\ T \in SUBSET Nat
  BY DEF Targets
<1>2. \A d, e \in D : f[d] = f[e] => d = e
  OBVIOUS
<1>. HIDE DEF f, T
<1>3. f \in Bijection(D, T)
  BY <1>1, <1>2, Fun_IsBij
<1>4. IsFiniteSet(T) /\ Cardinality(T) = Cardinality(D)
  BY <1>3, FS_Bijection DEF ExistsBijection
<1>5. Cardinality(D) \in Nat
  BY FS_CardinalityType
<1>6. ASSUME NEW i \in 1 .. Cardinality(D) PROVE InOrder(D)[i] \in D
  <2>1. Nth(T, i) \in T
    BY <1>1, <1>4, NthIsThere
  <2>2. \E d \in D : d.target = Nth(T, i)
    BY <2>1 DEF T, Targets
  <2>3. The({d \in D : d.target = Nth(T, i)}) \in D
    BY <2>2 DEF The
  <2>4. InOrder(D)[i] = The({d \in D : d.target = Nth(T, i)})
    BY DEF InOrder, T
  <2>. QED
    BY <2>3, <2>4
<1>. QED
  BY <1>5, <1>6

\* A list of interfaces that are all there and that has no MAC addresses but those
\* of the interfaces with its ids.
NicsKnown(list) ==
  /\ Listed(list) \in Seq(NicGiven)
  /\ \A i \in DOMAIN Listed(list) :
       Listed(list)[i].mac # None =>
         \E nic \in Values(nics) :
           nic.mac = Listed(list)[i].mac /\ Listed(list)[i].id = IdOf(nic)

\* No interface's id is that of an entry without an id.
LEMMA NicIdsNamed ==
  ASSUME NEW nic \in NicRecord
  PROVE  IdOf(nic) \in NicNames /\ IdOf(nic) # NoId
<1>1. nic.mac \in NicMacs /\ nic.alias \in NicNames \union {NoId, Foreign}
  BY DEF NicRecord
<1>2. DerivedId(nic.mac) \in [derivedFrom : NicMacs]
  BY <1>1 DEF DerivedId
<1>3. NoId \notin NicNames
  BY VmDefinitionAssumption DEF NicNames, NicMacs
<1>. QED
  BY <1>1, <1>2, <1>3 DEF IdOf, NicNames

\* Such a list, if it is valid, gives no interface the MAC address of another.
LEMMA KnownEntered ==
  ASSUME NicsAreSound(nics), NEW list, NicsKnown(list), ValidInterfaces(list)
  PROVE  NicsEntered(list)
<1>. DEFINE l == Listed(list)
            p == Entries(list)
<1>1. PICK S, E : S = NicGiven /\ E = NicEntry /\ S \subseteq E
  BY DEF NicEntry
<1>2. l \in Seq(S) /\ l \in Seq(NicEntry) /\ DOMAIN l = 1 .. Len(l)
      /\ \A i \in DOMAIN l : l[i] \in NicGiven
  <2>1. l \in Seq(S)
    BY <1>1 DEF NicsKnown
  <2>. HIDE DEF l
  <2>2. DOMAIN l = 1 .. Len(l) /\ Len(l) \in Nat /\ \A i \in DOMAIN l : l[i] \in S
    BY <2>1
  <2>3. l \in Seq(E)
    BY <1>1, <2>1, <2>2
  <2>. QED
    BY <1>1, <2>1, <2>2, <2>3
<1>3. PICK at \in [DOMAIN p -> DOMAIN l] :
        /\ \A k \in DOMAIN at : p[k] = l[at[k]] /\ l[at[k]].present
        /\ \A k, j \in DOMAIN at : at[k] = at[j] => k = j
  <2>1. PICK q : q = l
    OBVIOUS
  <2>2. q \in Seq(S)
    BY <1>2, <2>1
  <2>3. \E at \in [DOMAIN PresentEntries(q) -> DOMAIN q] :
          /\ \A k \in DOMAIN at :
               PresentEntries(q)[k] = q[at[k]] /\ q[at[k]].present
          /\ \A k, j \in DOMAIN at : at[k] = at[j] => k = j
    BY <2>2, PresentOnes
  <2>. QED
    BY <2>1, <2>3 DEF Entries
<1>4. \A i, k \in DOMAIN l : i # k /\ l[i].id = l[k].id => l[i].id = NoId
  BY DEF ValidInterfaces, IdsDiffer
<1>5. \A i \in DOMAIN l : l[i].mac # None =>
        \E nic \in Values(nics) : nic.mac = l[i].mac /\ l[i].id = IdOf(nic)
  BY DEF NicsKnown
<1>. HIDE DEF l, p
<1>6. ASSUME NEW i \in DOMAIN p, NEW k \in DOMAIN p, NEW nic \in Values(nics),
             p[i].mac = nic.mac, p[k].id = IdOf(nic)
      PROVE  i = k
  <2>1. nic \in NicRecord /\ nic.mac # None
    <3>1. nic \in NicRecord
      BY NicsFinite
    <3>. QED
      BY <3>1, VmDefinitionAssumption DEF NicRecord, NicMacs
  <2>2. at[i] \in DOMAIN l /\ at[k] \in DOMAIN l /\ p[i] = l[at[i]] /\ p[k] = l[at[k]]
    BY <1>3
  <2>3. PICK other \in Values(nics) : other.mac = p[i].mac /\ p[i].id = IdOf(other)
    BY <1>5, <1>6, <2>1, <2>2
  <2>4. other = nic
    BY <1>6, <2>3, NicsFinite
  <2>5. l[at[i]].id = l[at[k]].id /\ l[at[i]].id # NoId
    BY <1>6, <2>1, <2>2, <2>3, <2>4, NicIdsNamed
  <2>6. at[i] = at[k]
    BY <1>4, <2>2, <2>5
  <2>. QED
    BY <1>3, <2>6
<1>7. MacsAreFree(list)
  BY <1>6 DEF MacsAreFree, p
<1>8. MadeMacsKnown(list)
  BY <1>5 DEF MadeMacsKnown, l
<1>. QED
  BY <1>2, <1>7, <1>8 DEF NicsEntered, l

\* A file before it is edited.
Drawn(m) ==
  /\ m = [disks |-> m.disks, trays |-> m.trays, nics |-> m.nics, network |-> m.network,
          settings |-> m.settings]
  /\ m.disks \in Seq(DiskEntry)
  /\ TrayList(m) \in Seq(TrayEntry)
  /\ NicsKnown(m.nics)
  /\ m.network \in Words
  /\ m.settings \in SettingsEntry

\* A valid one is good.
LEMMA DrawnWritten ==
  ASSUME IInv, NEW m, Drawn(m), Valid(m)
  PROVE  Written(m)
BY KnownEntered DEF IInv, Drawn, Written, Valid

\* A list of things is a list of things of more kinds, and one of its places may be
\* given to one of those.
LEMMA ListEdited ==
  ASSUME NEW S, NEW T, S \subseteq T, NEW list \in Seq(S)
  PROVE  /\ list \in Seq(T) /\ Len(list) \in Nat /\ DOMAIN list = 1 .. Len(list)
         /\ \A i \in DOMAIN list : list[i] \in S
         /\ \A x \in T : Append(list, x) \in Seq(T)
         /\ \A x \in T, i \in DOMAIN list : [list EXCEPT ![i] = x] \in Seq(T)
<1>1. /\ list \in Seq(T) /\ Len(list) \in Nat /\ DOMAIN list = 1 .. Len(list)
      /\ \A i \in DOMAIN list : list[i] \in S
  OBVIOUS
<1>2. \A x \in T : Append(list, x) \in Seq(T)
  BY <1>1
<1>3. \A x \in T, i \in DOMAIN list : [list EXCEPT ![i] = x] \in Seq(T)
  BY <1>1
<1>. QED
  BY <1>1, <1>2, <1>3

\* Which is how disks and trays are edited.
LEMMA DisksEdited ==
  ASSUME NEW d, Drawn(d), NEW list \in Seq(DiskEntry), NEW m, m = [d EXCEPT !.disks = list]
  PROVE  Drawn(m) /\ m.disks = list
<1>1. /\ m = [disks |-> list, trays |-> d.trays, nics |-> d.nics, network |-> d.network,
              settings |-> d.settings]
  BY DEF Drawn
<1>2. /\ m.disks = list /\ m.trays = d.trays /\ m.nics = d.nics
      /\ m.network = d.network /\ m.settings = d.settings
  BY <1>1
<1>. QED
  BY <1>1, <1>2 DEF Drawn, TrayList

\* A file with another list of trays.
LEMMA TraysEdited ==
  ASSUME NEW d, Drawn(d), NEW list \in Seq(TrayEntry), NEW m, m = [d EXCEPT !.trays = list]
  PROVE  Drawn(m)
<1>1. /\ m = [disks |-> d.disks, trays |-> list, nics |-> d.nics, network |-> d.network,
              settings |-> d.settings]
  BY DEF Drawn
<1>2. /\ m.disks = d.disks /\ m.trays = list /\ m.nics = d.nics
      /\ m.network = d.network /\ m.settings = d.settings
  BY <1>1
<1>3. TrayList(m) \in Seq(TrayEntry)
  <2>1. <<>> \in Seq(TrayEntry)
    BY ShortSequences
  <2>. QED
    BY <1>2, <2>1 DEF TrayList
<1>. QED
  BY <1>1, <1>2, <1>3 DEF Drawn

\* Every device of a dump is there, with an id and a target.
LEMMA Dumped ==
  ASSUME IInv, NEW m, m = Dump
  PROVE  /\ Drawn(m)
         /\ m.disks \in Seq(DiskGiven)
         /\ m.nics \in Seq(NicGiven)
         /\ TrayList(m) \in Seq(TrayGiven)
         /\ TrayList(m) # <<>> => m.trays = TrayList(m)
<1>1. /\ DevicesAreSound /\ NicsAreSound(nics) /\ settings \in SettingsRecord
  BY DEF IInv, SettingsAreSound
<1>2. /\ \A d, e \in disks : d.target = e.target => d = e
      /\ \A d, e \in trays : d.target = e.target => d = e
      /\ \A d \in disks : d \in DiskRecord
      /\ \A d \in trays : d \in TrayRecord
  BY <1>1 DEF DevicesAreSound
<1>3. (\A d \in disks : d.target \in Nat) /\ (\A d \in trays : d.target \in Nat)
  BY <1>2 DEF DiskRecord, TrayRecord
<1>4. /\ Cardinality(disks) \in Nat /\ \A i \in 1 .. Cardinality(disks) : InOrder(disks)[i] \in disks
      /\ Cardinality(trays) \in Nat /\ \A i \in 1 .. Cardinality(trays) : InOrder(trays)[i] \in trays
  <2>1. IsFiniteSet(disks) /\ IsFiniteSet(trays)
    BY <1>1 DEF DevicesAreSound
  <2>2. Cardinality(disks) \in Nat /\ \A i \in 1 .. Cardinality(disks) : InOrder(disks)[i] \in disks
    BY <1>2, <1>3, <2>1, InOrderIsThere
  <2>3. Cardinality(trays) \in Nat /\ \A i \in 1 .. Cardinality(trays) : InOrder(trays)[i] \in trays
    BY <1>2, <1>3, <2>1, InOrderIsThere
  <2>. QED
    BY <2>2, <2>3
<1>5. ASSUME NEW d \in disks PROVE DumpDisk(d) \in DiskGiven
  <2>1. d.alias \in Aliases(DiskIds) /\ d.path \in Paths /\ d.target \in Nat
    BY <1>2 DEF DiskRecord
  <2>2. DerivedId(d.target) \in [derivedFrom : Nat]
    BY <2>1 DEF DerivedId
  <2>3. Id(d) \in DiskNames
    BY <2>1, <2>2 DEF Id, Aliases, DiskNames
  <2>. QED
    BY <2>1, <2>3 DEF DumpDisk, DiskGiven
<1>6. ASSUME NEW d \in trays PROVE DumpTray(d) \in TrayGiven
  <2>1. d.alias \in Aliases(TrayIds) /\ d.target \in Nat
    BY <1>2 DEF TrayRecord
  <2>2. DerivedId(d.target) \in [derivedFrom : Nat]
    BY <2>1 DEF DerivedId
  <2>3. Id(d) \in TrayNames
    BY <2>1, <2>2 DEF Id, Aliases, TrayNames
  <2>. QED
    BY <2>1, <2>3 DEF DumpTray, TrayGiven
<1>7. /\ m = [disks |-> m.disks, trays |-> m.trays, nics |-> m.nics, network |-> m.network,
              settings |-> m.settings]
      /\ m.disks = [i \in 1 .. Cardinality(disks) |-> DumpDisk(InOrder(disks)[i])]
      /\ m.trays = IF trays = {} THEN NoList
                   ELSE [i \in 1 .. Cardinality(trays) |-> DumpTray(InOrder(trays)[i])]
      /\ m.nics = DumpNics(nics)
      /\ m.network = "default"
      /\ m.settings = DumpSettings(settings)
  BY DEF Dump, DefaultNetwork
<1>8. m.disks \in Seq(DiskGiven)
  <2>1. [i \in 1 .. Cardinality(disks) |-> DumpDisk(InOrder(disks)[i])] \in Seq(DiskGiven)
    BY <1>4, <1>5
  <2>. QED
    BY <1>7, <2>1
<1>9. TrayList(m) \in Seq(TrayGiven)
  <2>1. [i \in 1 .. Cardinality(trays) |-> DumpTray(InOrder(trays)[i])] \in Seq(TrayGiven)
    BY <1>4, <1>6
  <2>2. <<>> \in Seq(TrayGiven)
    BY ShortSequences
  <2>. QED
    BY <1>7, <2>1, <2>2 DEF TrayList
<1>10. m.disks \in Seq(DiskEntry) /\ TrayList(m) \in Seq(TrayEntry)
  <2>1. PICK S, T : S = DiskGiven /\ T = DiskEntry /\ S \subseteq T
    BY DEF DiskEntry
  <2>2. PICK U, V : U = TrayGiven /\ V = TrayEntry /\ U \subseteq V
    BY DEF TrayEntry
  <2>3. \A list \in Seq(S) : list \in Seq(T)
    BY <2>1, ListEdited
  <2>4. \A list \in Seq(U) : list \in Seq(V)
    BY <2>2, ListEdited
  <2>. QED
    BY <1>8, <1>9, <2>1, <2>2, <2>3, <2>4
<1>11. ASSUME NEW k \in DOMAIN nics
       PROVE  /\ DumpNic(nics[k]) \in NicGiven
              /\ DumpNic(nics[k]).mac = nics[k].mac /\ DumpNic(nics[k]).id = IdOf(nics[k])
              /\ nics[k] \in Values(nics)
  <2>1. nics[k] \in NicRecord /\ nics[k] \in Values(nics)
    BY <1>1, NicsFinite
  <2>2. /\ nics[k].mac \in NicMacs /\ nics[k].source \in Sources /\ nics[k].vlan \in Nat \union {None}
        /\ IdOf(nics[k]) \in NicNames
    BY <2>1, NicIdsNamed DEF NicRecord
  <2>. QED
    BY <2>1, <2>2 DEF DumpNic, NicGiven
<1>12. NicsKnown(m.nics) /\ m.nics \in Seq(NicGiven)
  <2>1. Len(nics) \in Nat /\ DOMAIN nics = 1 .. Len(nics)
    BY <1>1, NicsFinite
  <2>2. m.nics = [k \in 1 .. Len(nics) |-> DumpNic(nics[k])]
    BY <1>7, <2>1 DEF DumpNics
  <2>3. /\ m.nics \in Seq(NicGiven) /\ DOMAIN m.nics = 1 .. Len(nics)
        /\ \A k \in 1 .. Len(nics) : m.nics[k].mac = nics[k].mac /\ m.nics[k].id = IdOf(nics[k])
    <3>1. [k \in 1 .. Len(nics) |-> DumpNic(nics[k])] \in Seq(NicGiven)
      BY <1>11, <2>1
    <3>. QED
      BY <1>11, <2>1, <2>2, <3>1
  <2>4. <<>> \in Seq(NicGiven) /\ DOMAIN <<>> = {}
    BY ShortSequences
  <2>5. CASE m.nics = NoInterfaces
    BY <2>3, <2>4, <2>5 DEF NicsKnown, Listed
  <2>6. CASE m.nics # NoInterfaces
    <3>1. Listed(m.nics) = m.nics
      BY <2>6 DEF Listed
    <3>2. \A k \in 1 .. Len(nics) : nics[k] \in Values(nics)
      BY <1>11, <2>1
    <3>. QED
      BY <2>3, <3>1, <3>2 DEF NicsKnown
  <2>. QED
    BY <2>5, <2>6
<1>13. m.network \in Words /\ m.settings \in SettingsEntry
  BY <1>1, <1>7, DumpedSettings DEF Words
<1>14. TrayList(m) # <<>> => m.trays = TrayList(m)
  BY DEF TrayList
<1>. QED
  BY <1>7, <1>8, <1>9, <1>10, <1>12, <1>13, <1>14 DEF Drawn

\* The first files.
LEMMA FilesWith ==
  ASSUME NEW diskList \in Seq(DiskEntry), NEW trayList,
         trayList = NoList \/ trayList \in Seq(TrayEntry)
  PROVE  Drawn(FileWith(diskList, trayList))
<1>1. PICK m : m = FileWith(diskList, trayList)
  OBVIOUS
<1>2. /\ m = [disks |-> diskList, trays |-> trayList, settings |-> DefaultSettings,
              nics |-> NoInterfaces, network |-> "default"]
  BY <1>1 DEF FileWith, DefaultNetwork
<1>3. /\ m = [disks |-> m.disks, trays |-> m.trays, nics |-> m.nics, network |-> m.network,
              settings |-> m.settings]
      /\ m.disks = diskList /\ m.trays = trayList /\ m.nics = NoInterfaces
      /\ m.network = "default" /\ m.settings = DefaultSettings
  BY <1>2
<1>4. TrayList(m) \in Seq(TrayEntry)
  BY <1>3, ShortSequences DEF TrayList
<1>5. NicsKnown(m.nics)
  <2>1. <<>> \in Seq(NicGiven) /\ DOMAIN <<>> = {}
    BY ShortSequences
  <2>. QED
    BY <1>3, <2>1 DEF NicsKnown, Listed
<1>6. DefaultSettings \in SettingsEntry
  BY DEF DefaultSettings, SettingsEntry, Machines, Texts
<1>7. m.network \in Words
  BY <1>3 DEF Words
<1>. QED
  BY <1>1, <1>3, <1>4, <1>5, <1>6, <1>7 DEF Drawn

\* What people write about disks and trays.
LEMMA EntriesKnown ==
  /\ DiskEntries \subseteq DiskEntry
  /\ TrayEntries \subseteq TrayEntry
  /\ \A target \in AnyTarget : target \in Nat \union {NoTarget}
<1>1. \A target \in AnyTarget : target \in Nat \union {NoTarget}
  <2>1. MaxTarget \in Nat
    BY VmDefinitionAssumption
  <2>. QED
    BY <2>1 DEF AnyTarget
<1>2. \A id \in DiskIds : id \in DiskNames
  BY DEF DiskNames
<1>3. \A id \in TrayIds : id \in TrayNames
  BY DEF TrayNames
<1>4. NoId \in DiskNames
  BY DEF DiskNames
<1>5. ASSUME NEW e \in DiskEntries PROVE e \in DiskEntry
  <2>1. CASE e \in [present : {TRUE}, id : DiskIds \union {NoId}, path : Paths, target : AnyTarget]
    BY <1>1, <1>2, <1>4, <2>1 DEF DiskEntry, DiskGiven
  <2>2. CASE e \in [present : {FALSE}, id : DiskIds]
    BY <1>2, <2>2 DEF DiskEntry
  <2>. QED
    BY <2>1, <2>2 DEF DiskEntries
<1>6. ASSUME NEW e \in TrayEntries PROVE e \in TrayEntry
  <2>1. CASE e \in [present : {TRUE}, id : TrayIds, target : AnyTarget]
    BY <1>1, <1>3, <2>1 DEF TrayEntry, TrayGiven
  <2>2. CASE e \in [present : {FALSE}, id : TrayIds]
    BY <1>3, <2>2 DEF TrayEntry
  <2>. QED
    BY <2>1, <2>2 DEF TrayEntries
<1>. QED
  BY <1>1, <1>5, <1>6

\* The files that list disks and trays.
LEMMA DeviceFilesDrawn ==
  ASSUME NEW m \in DeviceFiles
  PROVE  Drawn(m)
<1>1. PICK d \in ListsOf(DiskEntries), c \in TrayLists : m = FileWith(d, c)
  BY DEF DeviceFiles
<1>2. d \in Seq(DiskEntry)
  <2>1. PICK S, T : S = DiskEntries /\ T = DiskEntry /\ S \subseteq T
    BY EntriesKnown
  <2>2. PICK n \in 0 .. MaxEntries : d \in [1 .. n -> S]
    BY <2>1 DEF ListsOf
  <2>3. n \in Nat
    BY VmDefinitionAssumption
  <2>4. d \in Seq(T)
    BY <2>1, <2>2, <2>3
  <2>. QED
    BY <2>1, <2>4
<1>3. c = NoList \/ c \in Seq(TrayEntry)
  BY EntriesKnown, ShortSequences DEF TrayLists
<1>. QED
  BY <1>1, <1>2, <1>3, FilesWith

\* The file that a new VM is defined from.
LEMMA FirstFileDrawn ==
  ASSUME NEW id \in DiskIds, NEW path \in Paths, NEW tray \in TrayIds
  PROVE  Drawn(FirstFile(id, path, tray))
<1>1. PICK e, t : /\ e = [present |-> TRUE, id |-> id, path |-> path, target |-> NoTarget]
                  /\ t = [present |-> TRUE, id |-> tray, target |-> 1]
  OBVIOUS
<1>2. e \in DiskEntry
  BY <1>1 DEF DiskEntry, DiskGiven, DiskNames
<1>3. t \in TrayEntry
  BY <1>1 DEF TrayEntry, TrayGiven, TrayNames
<1>4. <<e>> \in Seq(DiskEntry) /\ <<t>> \in Seq(TrayEntry)
  BY <1>2, <1>3, ShortSequences
<1>5. FirstFile(id, path, tray) = FileWith(<<e>>, <<t>>)
  BY <1>1 DEF FirstFile
<1>. QED
  BY <1>4, <1>5, FilesWith

\* A dump without what may be left out says what the dump says, and no MAC address.
LEMMA SparseDrawn ==
  ASSUME NEW d, Drawn(d), d.nics \in Seq(NicGiven), NEW m, m = Sparse(d)
  PROVE  Drawn(m)
<1>. DEFINE list == [i \in DOMAIN d.nics |-> [d.nics[i] EXCEPT !.mac = None, !.vlan = Keep]]
            s == [d.settings EXCEPT !.machine = None, !.cpu = NoCpu, !.vcpuTune = Keep,
                                    !.numaTune = Keep, !.serialLog = None]
<1>1. /\ m = [disks |-> d.disks, trays |-> d.trays, nics |-> list, network |-> d.network,
              settings |-> s]
  <2>1. PICK x, y, z, u, v : d = [disks |-> x, trays |-> y, nics |-> z, network |-> u, settings |-> v]
    BY DEF Drawn
  <2>2. x = d.disks /\ y = d.trays /\ z = d.nics /\ u = d.network /\ v = d.settings
    BY <2>1
  <2>3. m = [d EXCEPT !.settings = s, !.nics = list]
    BY <2>1, <2>2 DEF Sparse
  <2>. HIDE DEF s, list
  <2>. QED
    BY <2>1, <2>2, <2>3
<1>2. list \in Seq(NicGiven) /\ \A i \in DOMAIN list : list[i].mac = None
  <2>0. PICK n \in Nat : DOMAIN d.nics = 1 .. n /\ \A i \in 1 .. n : d.nics[i] \in NicGiven
    <3>1. Len(d.nics) \in Nat /\ DOMAIN d.nics = 1 .. Len(d.nics)
          /\ \A i \in 1 .. Len(d.nics) : d.nics[i] \in NicGiven
      OBVIOUS
    <3>. QED
      BY <3>1
  <2>1. PICK old : old = d.nics /\ DOMAIN old = 1 .. n /\ \A i \in 1 .. n : old[i] \in NicGiven
    BY <2>0
  <2>2. \A e \in NicGiven : /\ [e EXCEPT !.mac = None, !.vlan = Keep] \in NicGiven
                            /\ [e EXCEPT !.mac = None, !.vlan = Keep].mac = None
    BY DEF NicGiven
  <2>3. list = [i \in 1 .. n |-> [old[i] EXCEPT !.mac = None, !.vlan = Keep]]
    BY <2>1
  <2>. DEFINE f == [i \in 1 .. n |-> [old[i] EXCEPT !.mac = None, !.vlan = Keep]]
  <2>4. \A i \in 1 .. n : f[i] \in NicGiven /\ f[i].mac = None
    BY <2>1, <2>2
  <2>5. DOMAIN f = 1 .. n /\ f \in Seq(NicGiven)
    <3>1. f \in [1 .. n -> NicGiven]
      BY <2>1, <2>2
    <3>. HIDE DEF f
    <3>. QED
      BY <3>1
  <2>. HIDE DEF f, list
  <2>. QED
    BY <2>3, <2>4, <2>5 DEF f
<1>3. s \in SettingsEntry
  <2>1. d.settings \in SettingsEntry
    BY DEF Drawn
  <2>. QED
    BY <2>1 DEF SettingsEntry, Machines, Texts
<1>. HIDE DEF list, s
<1>4. NicsKnown(list)
  <2>1. <<>> \in Seq(NicGiven) /\ DOMAIN <<>> = {}
    BY ShortSequences
  <2>2. CASE list = NoInterfaces
    BY <2>1, <2>2 DEF NicsKnown, Listed
  <2>3. CASE list # NoInterfaces
    BY <1>2, <2>3 DEF NicsKnown, Listed
  <2>. QED
    BY <2>2, <2>3
<1>5. /\ m.disks = d.disks /\ m.trays = d.trays /\ m.nics = list
      /\ m.network = d.network /\ m.settings = s
  BY <1>1
<1>. QED
  BY <1>1, <1>3, <1>4, <1>5 DEF Drawn, TrayList

\* What people write about settings and interfaces.
LEMMA SettingsEdited ==
  ASSUME NEW s \in SettingsEntry, NEW e \in SettingsEdits(s)
  PROVE  e \in SettingsEntry
<1>1. CASE e \in MemoryEdits(s)
  <2>1. PICK memory \in Optional([size : Sizes, max : Optional(Sizes)]) : e = [s EXCEPT !.memory = memory]
    BY <1>1 DEF MemoryEdits
  <2>2. memory \in [size : Nat, max : OptionalNat] \union {None}
    BY DEF Optional, Sizes, OptionalNat
  <2>. QED
    BY <2>1, <2>2 DEF SettingsEntry
<1>2. CASE e \in PlainEdits(s)
  <2>1. CASE \E machine \in {None, "other"} : e = [s EXCEPT !.machine = machine]
    BY <2>1 DEF SettingsEntry, Machines, Words
  <2>2. CASE \E boot \in {None, <<"hd">>, <<"cdrom", "hd">>} : e = [s EXCEPT !.boot = boot]
    <3>1. PICK boot \in {None, <<"hd">>, <<"cdrom", "hd">>} : e = [s EXCEPT !.boot = boot]
      BY <2>2
    <3>2. <<"hd">> \in Seq(Words) /\ <<"cdrom", "hd">> \in Seq(Words)
      BY ShortSequences DEF Words
    <3>3. boot \in Seq(Words) \union {None}
      BY <3>2
    <3>. QED
      BY <3>1, <3>3 DEF SettingsEntry
  <2>3. CASE \E log \in {None, "log"} : e = [s EXCEPT !.serialLog = log]
    BY <2>3 DEF SettingsEntry, Texts, Words
  <2>4. CASE \E vnc \in {None, "auto", "port"} : e = [s EXCEPT !.graphics = vnc]
    BY <2>4 DEF SettingsEntry, Texts, Words
  <2>. QED
    BY <1>2, <2>1, <2>2, <2>3, <2>4 DEF PlainEdits
<1>3. CASE e \in CpuEdits(s)
  <2>1. CASE \E vcpus \in Counts : e = [s EXCEPT !.cpu = NoCpu, !.vcpus = vcpus]
    <3>1. PICK vcpus \in Counts : e = [s EXCEPT !.cpu = NoCpu, !.vcpus = vcpus]
      BY <2>1
    <3>2. vcpus \in Nat
      BY DEF Counts
    <3>. QED
      BY <3>1, <3>2 DEF SettingsEntry
  <2>2. CASE e \notin {[s EXCEPT !.cpu = NoCpu, !.vcpus = vcpus] : vcpus \in Counts}
    <3>1. PICK cpu \in [topology : Optional(Counts), vcpus : Optional(Counts),
                        features : {Keep} \union SUBSET FeatureNames] : e = [s EXCEPT !.cpu = cpu]
      BY <1>3, <2>2 DEF CpuEdits
    <3>2. cpu \in [topology : OptionalNat, vcpus : OptionalNat,
                   features : (SUBSET FeatureNames) \union {Keep}]
      BY DEF Optional, Counts, OptionalNat
    <3>. QED
      BY <3>1, <3>2 DEF SettingsEntry
  <2>. QED
    BY <2>1, <2>2
<1>4. CASE e \in IoEdits(s)
  <2>1. PICK io \in Optional([count : Counts, queues : Optional(Counts)]) :
          e \in {[s EXCEPT !.threads = threads, !.ioThreads = io] : threads \in BOOLEAN}
    BY <1>4 DEF IoEdits
  <2>2. io \in [count : Nat, queues : OptionalNat] \union {None}
    BY DEF Optional, Counts, OptionalNat
  <2>. QED
    BY <2>1, <2>2 DEF SettingsEntry
<1>5. CASE e \in TuneEdits(s)
  <2>1. CASE \E tune \in {Keep, Remove} \union [pins : {{}, {1}}, ioPins : {{}, {2}}] :
               e = [s EXCEPT !.vcpuTune = tune]
    <3>1. PICK tune \in {Keep, Remove} \union [pins : {{}, {1}}, ioPins : {{}, {2}}] :
            e = [s EXCEPT !.vcpuTune = tune]
      BY <2>1
    <3>2. tune \in [pins : SUBSET Nat, ioPins : SUBSET Nat] \union {Keep, Remove}
      OBVIOUS
    <3>. QED
      BY <3>1, <3>2 DEF SettingsEntry
  <2>2. CASE \E tune \in {Keep, Remove} \union [policy : {None, "static", "auto"}, memNodes : {{}, {0}}] :
               e = [s EXCEPT !.numaTune = tune]
    <3>1. PICK tune \in {Keep, Remove} \union [policy : {None, "static", "auto"}, memNodes : {{}, {0}}] :
            e = [s EXCEPT !.numaTune = tune]
      BY <2>2
    <3>2. tune \in [policy : Texts, memNodes : SUBSET Nat] \union {Keep, Remove}
      BY DEF Texts, Words
    <3>. QED
      BY <3>1, <3>2 DEF SettingsEntry
  <2>. QED
    BY <1>5, <2>1, <2>2 DEF TuneEdits
<1>. QED
  BY <1>1, <1>2, <1>3, <1>4, <1>5 DEF SettingsEdits

\* An entry with the MAC address that libvirt made for an interface has its id.
Known(e) ==
  e.mac \notin {None, GivenMac} =>
    \E nic \in Values(nics) : nic.mac = e.mac /\ e.id = IdOf(nic)

\* An entry that is added to a list of interfaces.
LEMMA NewNicEntries ==
  ASSUME NEW e \in NicEntries
  PROVE  e \in NicGiven /\ e \in NicEntry /\ e.mac \in {None, GivenMac}
<1>1. PICK id \in NicIds, mac \in Optional({GivenMac}), source \in AnySource, vlan \in {Keep, 1} :
        e = NewEntry(id, mac, source, vlan)
  BY DEF NicEntries
<1>2. id \in NicNames /\ mac \in {None, GivenMac} /\ mac \in NicMacs \union {None}
      /\ vlan \in Nat \union {Keep, Remove}
  BY DEF NicNames, NicMacs, Optional
<1>3. source \in Sources
  BY DEF AnySource, DefaultNetwork, Sources, Words
<1>4. e = [present |-> TRUE, id |-> id, mac |-> mac, source |-> source, vlan |-> vlan]
  BY <1>1 DEF NewEntry
<1>. QED
  BY <1>2, <1>3, <1>4 DEF NicGiven, NicEntry

\* An entry of a list of interfaces after an edit.
LEMMA EntryEdited ==
  ASSUME NEW old \in NicGiven, Known(old), NEW e \in EditedEntry(old)
  PROVE  /\ e \in NicEntry
         /\ e.present => e \in NicGiven /\ (Known(e) \/ e.mac = old.mac)
<1>1. CASE e = Absent(old.id)
  <2>1. e = [present |-> FALSE, id |-> old.id] /\ old.id \in NicNames
    BY <1>1 DEF Absent, NicGiven
  <2>. QED
    BY <2>1 DEF NicEntry
<1>2. CASE \E id \in NicIds : e = [old EXCEPT !.id = id]
  <2>1. PICK id \in NicIds : e = [old EXCEPT !.id = id]
    BY <1>2
  <2>2. id \in NicNames
    BY DEF NicNames
  <2>. QED
    BY <2>1, <2>2 DEF NicEntry, NicGiven
<1>3. CASE \E mac \in Optional({GivenMac}) : e = [old EXCEPT !.mac = mac]
  <2>1. PICK mac \in Optional({GivenMac}) : e = [old EXCEPT !.mac = mac]
    BY <1>3
  <2>2. mac \in NicMacs \union {None} /\ mac \in {None, GivenMac}
    BY DEF NicMacs, Optional
  <2>. QED
    BY <2>1, <2>2 DEF NicEntry, NicGiven, Known
<1>4. CASE \E source \in AnySource : e = [old EXCEPT !.source = source]
  <2>1. PICK source \in AnySource : e = [old EXCEPT !.source = source]
    BY <1>4
  <2>2. source \in Sources
    BY DEF AnySource, DefaultNetwork, Sources, Words
  <2>. QED
    BY <2>1, <2>2 DEF NicEntry, NicGiven
<1>5. CASE \E vlan \in {Keep, Remove, 1} : e = [old EXCEPT !.vlan = vlan]
  <2>1. PICK vlan \in {Keep, Remove, 1} : e = [old EXCEPT !.vlan = vlan]
    BY <1>5
  <2>2. vlan \in Nat \union {Keep, Remove}
    OBVIOUS
  <2>. QED
    BY <2>1, <2>2 DEF NicEntry, NicGiven
<1>. QED
  BY <1>1, <1>2, <1>3, <1>4, <1>5 DEF EditedEntry

\* An edited list of interfaces is a list of entries.
LEMMA NicListEdited ==
  ASSUME NEW list \in Seq(NicGiven), \A i \in DOMAIN list : Known(list[i]),
         NEW new \in NicListEdits(list)
  PROVE  /\ new \in Seq(NicEntry)
         /\ \A i \in DOMAIN new :
              new[i].present /\ new[i].mac \notin {None, GivenMac} =>
                \E nic \in Values(nics) :
                  nic.mac = new[i].mac /\ (new[i].id = IdOf(nic) \/ AbsentIds(new) = {})
<1>. DEFINE n == Len(list)
            Good(e) == e.present => Known(e)
<1>1. PICK S, E : S = NicGiven /\ E = NicEntry /\ S \subseteq E
  BY DEF NicEntry
<1>2. n \in Nat /\ DOMAIN list = 1 .. n /\ \A i \in 1 .. n : list[i] \in NicGiven /\ Known(list[i])
  OBVIOUS
<1>. HIDE DEF n
<1>3. SUFFICES /\ new \in Seq(E)
               /\ \/ \A i \in DOMAIN new : Good(new[i])
                  \/ /\ AbsentIds(new) = {}
                     /\ \A i \in DOMAIN new : Good(new[i]) \/ \E k \in 1 .. n : new[i].mac = list[k].mac
  <2>1. ASSUME NEW i \in DOMAIN new, new[i].present, new[i].mac \notin {None, GivenMac}
        PROVE  \E nic \in Values(nics) :
                 nic.mac = new[i].mac /\ (new[i].id = IdOf(nic) \/ AbsentIds(new) = {})
    <3>1. CASE Good(new[i])
      BY <2>1, <3>1 DEF Known
    <3>2. CASE ~Good(new[i])
      <4>1. PICK k \in 1 .. n : new[i].mac = list[k].mac
        BY <1>3, <3>2
      <4>2. AbsentIds(new) = {}
        BY <1>3, <3>2
      <4>. QED
        BY <1>2, <2>1, <4>1, <4>2 DEF Known
    <3>. QED
      BY <3>1, <3>2
  <2>. QED
    BY <1>1, <1>3, <2>1
<1>4. \A e \in NicEntries : e \in E /\ Good(e)
  BY <1>1, NewNicEntries DEF Known
<1>5. list \in Seq(S)
  BY <1>1
<1>6. list \in Seq(E)
  BY <1>1, <1>5, ListEdited
<1>7. CASE \E e \in NicEntries : new = <<e>>
  <2>1. PICK e \in NicEntries : new = <<e>>
    BY <1>7
  <2>2. new \in Seq(E) /\ \A i \in DOMAIN new : new[i] = e
    BY <1>4, <2>1
  <2>. QED
    BY <1>4, <2>2
<1>8. CASE \E e \in NicEntries : new = Append(list, e)
  <2>1. PICK e \in NicEntries : new = Append(list, e)
    BY <1>8
  <2>2. new \in Seq(E)
    BY <1>1, <1>4, <1>5, <2>1, ListEdited
  <2>3. \A i \in DOMAIN new : new[i] = e \/ \E k \in 1 .. n : new[i] = list[k]
    BY <1>6, <2>1 DEF n
  <2>. QED
    BY <1>2, <1>4, <2>2, <2>3
<1>9. CASE \E e \in NicEntries : new = <<e>> \o list
  <2>1. PICK e \in NicEntries : new = <<e>> \o list
    BY <1>9
  <2>2. <<e>> \in Seq(E)
    BY <1>4
  <2>3. new \in Seq(E)
    BY <1>6, <2>1, <2>2
  <2>4. \A i \in DOMAIN new : new[i] = e \/ \E k \in 1 .. n : new[i] = list[k]
    <3>1. /\ DOMAIN new = 1 .. 1 + n
          /\ new[1] = e
          /\ \A k \in 1 .. n : new[1 + k] = list[k]
      BY <1>2, <1>6, <2>1, <2>2 DEF n
    <3>2. \A i \in 1 .. 1 + n : i = 1 \/ \E k \in 1 .. n : i = 1 + k
      <4>1. ASSUME NEW i \in 1 .. 1 + n, i # 1 PROVE i - 1 \in 1 .. n /\ i = 1 + (i - 1)
        BY <1>2, <4>1
      <4>. QED
        BY <4>1
    <3>. QED
      BY <3>1, <3>2
  <2>. QED
    BY <1>2, <1>4, <2>3, <2>4
<1>10. CASE \E i \in DOMAIN list : \E e \in EditedEntry(list[i]) : new = [list EXCEPT ![i] = e]
  <2>1. PICK k \in 1 .. n : \E e \in EditedEntry(list[k]) : new = [list EXCEPT ![k] = e]
    BY <1>2, <1>10
  <2>2. PICK e \in EditedEntry(list[k]) : new = [list EXCEPT ![k] = e]
    BY <2>1
  <2>3. /\ e \in E
        /\ e.present => e \in NicGiven /\ (Known(e) \/ e.mac = list[k].mac)
    BY <1>1, <1>2, EntryEdited
  <2>4. new \in Seq(E)
    BY <1>1, <1>2, <1>5, <2>2, <2>3, ListEdited
  <2>5. DOMAIN new = 1 .. n /\ new[k] = e /\ \A i \in 1 .. n : i # k => new[i] = list[i]
    BY <1>2, <2>2
  <2>6. CASE Good(e)
    BY <1>2, <2>4, <2>5, <2>6
  <2>7. CASE ~Good(e)
    <3>1. e.present /\ e.mac = list[k].mac /\ e \in NicGiven
      BY <2>3, <2>7
    <3>2. \A i \in 1 .. n : new[i].present
      BY <1>2, <2>5, <3>1 DEF NicGiven
    <3>3. AbsentIds(new) = {}
      BY <2>5, <3>2 DEF AbsentIds
    <3>4. \A i \in 1 .. n : Good(new[i]) \/ \E j \in 1 .. n : new[i].mac = list[j].mac
      BY <1>2, <2>5, <3>1
    <3>. QED
      BY <2>4, <2>5, <3>3, <3>4
  <2>. QED
    BY <2>6, <2>7
<1>. QED
  BY <1>7, <1>8, <1>9, <1>10 DEF NicListEdits

\* A valid file whose interfaces have been edited.
LEMMA InterfacesEdited ==
  ASSUME IInv, NEW d, Drawn(d), NEW m \in InterfaceEdits(d), Valid(m)
  PROVE  Written(m)
<1>1. PICK x, y, z, u, v : d = [disks |-> x, trays |-> y, nics |-> z, network |-> u, settings |-> v]
  BY DEF Drawn
<1>2. x = d.disks /\ y = d.trays /\ z = d.nics /\ u = d.network /\ v = d.settings
  BY <1>1
<1>3. CASE \E list \in NicListEdits(Listed(d.nics)) : MacsAreFree(list) /\ m = [d EXCEPT !.nics = list]
  <2>1. PICK list \in NicListEdits(Listed(d.nics)) : MacsAreFree(list) /\ m = [d EXCEPT !.nics = list]
    BY <1>3
  <2>2. /\ m = [disks |-> x, trays |-> y, nics |-> list, network |-> u, settings |-> v]
    BY <1>1, <2>1
  <2>3. m.disks = d.disks /\ m.trays = d.trays /\ m.nics = list /\ m.network = d.network
        /\ m.settings = d.settings
    BY <1>2, <2>2
  <2>4. PICK old : /\ old = Listed(d.nics) /\ old \in Seq(NicGiven)
                   /\ \A i \in DOMAIN old : Known(old[i])
    BY DEF Drawn, NicsKnown, Known
  <2>5. /\ list \in Seq(NicEntry)
        /\ \A i \in DOMAIN list :
             list[i].present /\ list[i].mac \notin {None, GivenMac} =>
               \E nic \in Values(nics) :
                 nic.mac = list[i].mac /\ (list[i].id = IdOf(nic) \/ AbsentIds(list) = {})
    BY <2>1, <2>4, NicListEdited
  <2>6. Listed(list) \in Seq(NicEntry) /\ MadeMacsKnown(list)
    <3>1. <<>> \in Seq(NicEntry) /\ DOMAIN <<>> = {}
      BY ShortSequences
    <3>2. CASE list = NoInterfaces
      BY <3>1, <3>2 DEF Listed, MadeMacsKnown
    <3>3. CASE list # NoInterfaces
      BY <2>5, <3>3 DEF Listed, MadeMacsKnown
    <3>. QED
      BY <3>2, <3>3
  <2>7. NicsEntered(m.nics)
    BY <2>1, <2>3, <2>6 DEF NicsEntered
  <2>. QED
    BY <2>3, <2>7 DEF Written, Drawn, TrayList
<1>4. CASE m = [d EXCEPT !.nics = NoInterfaces, !.network = "other"]
  <2>1. m = [disks |-> x, trays |-> y, nics |-> NoInterfaces, network |-> "other", settings |-> v]
    BY <1>1, <1>4
  <2>2. m.disks = d.disks /\ m.trays = d.trays /\ m.nics = NoInterfaces /\ m.network = "other"
        /\ m.settings = d.settings
    BY <1>2, <2>1
  <2>3. NicsKnown(NoInterfaces)
    <3>1. <<>> \in Seq(NicGiven) /\ DOMAIN <<>> = {}
      BY ShortSequences
    <3>. QED
      BY <3>1 DEF NicsKnown, Listed
  <2>4. "other" \in Words
    BY DEF Words
  <2>5. Drawn(m)
    BY <1>2, <2>1, <2>2, <2>3, <2>4 DEF Drawn, TrayList
  <2>. QED
    BY <2>5, DrawnWritten
<1>. QED
  BY <1>3, <1>4 DEF InterfaceEdits

\* A file with other settings.
LEMMA SettingsFileEdited ==
  ASSUME NEW d, Drawn(d), NEW s \in SettingsEntry, NEW m, m = [d EXCEPT !.settings = s]
  PROVE  Drawn(m)
<1>1. m = [disks |-> d.disks, trays |-> d.trays, nics |-> d.nics, network |-> d.network,
           settings |-> s]
  BY DEF Drawn
<1>2. /\ m.disks = d.disks /\ m.trays = d.trays /\ m.nics = d.nics
      /\ m.network = d.network /\ m.settings = s
  BY <1>1
<1>. QED
  BY <1>1, <1>2 DEF Drawn, TrayList

\* Every file that a step applies is good.
LEMMA FilesDrawn ==
  ASSUME IInv, NEW d \in Files
  PROVE  Drawn(d)
<1>1. CASE defined
  <2>1. PICK dump : dump = Dump
    OBVIOUS
  <2>2. Drawn(dump) /\ dump.nics \in Seq(NicGiven)
    BY <2>1, Dumped
  <2>3. d = dump \/ d = Sparse(dump)
    BY <1>1, <2>1 DEF Files
  <2>. QED
    BY <2>2, <2>3, SparseDrawn
<1>2. CASE ~defined
  BY <1>2, FirstFileDrawn DEF Files
<1>. QED
  BY <1>1, <1>2

\* A valid file that has been edited, whichever part of it.
LEMMA EditedFilesWritten ==
  ASSUME IInv, NEW m \in EditedFiles, Valid(m)
  PROVE  Written(m)
<1>1. PICK d \in Files : m \in IF focus = "interfaces" THEN InterfaceEdits(d)
                               ELSE {[d EXCEPT !.settings = s] : s \in SettingsEdits(d.settings)}
  BY DEF EditedFiles
<1>2. Drawn(d)
  BY FilesDrawn
<1>3. CASE focus = "interfaces"
  BY <1>1, <1>2, <1>3, InterfacesEdited
<1>4. CASE focus # "interfaces"
  <2>1. PICK s \in SettingsEdits(d.settings) : m = [d EXCEPT !.settings = s]
    BY <1>1, <1>4
  <2>2. s \in SettingsEntry
    BY <1>2, SettingsEdited DEF Drawn
  <2>3. Drawn(m)
    BY <1>2, <2>1, <2>2, SettingsFileEdited
  <2>. QED
    BY <2>3, DrawnWritten
<1>. QED
  BY <1>3, <1>4

\* An entry of a list of disks after an edit.
LEMMA DiskEdited ==
  ASSUME NEW old \in DiskGiven, NEW e \in Edited(old)
  PROVE  e \in DiskEntry
<1>1. CASE e = Absent(old.id)
  <2>1. old.id \in DiskNames
    BY DEF DiskGiven
  <2>. QED
    BY <1>1, <2>1 DEF Absent, DiskEntry
<1>2. CASE \E id \in DiskIds \union {NoId} : e = [old EXCEPT !.id = id]
  <2>1. PICK id \in DiskIds \union {NoId} : e = [old EXCEPT !.id = id]
    BY <1>2
  <2>2. id \in DiskNames
    BY DEF DiskNames
  <2>. QED
    BY <2>1, <2>2 DEF DiskEntry, DiskGiven
<1>3. CASE \E path \in Paths : e = [old EXCEPT !.path = path]
  BY <1>3 DEF DiskEntry, DiskGiven
<1>4. CASE \E target \in AnyTarget : e = [old EXCEPT !.target = target]
  <2>1. PICK target \in AnyTarget : e = [old EXCEPT !.target = target]
    BY <1>4
  <2>2. target \in Nat \union {NoTarget}
    BY EntriesKnown
  <2>. QED
    BY <2>1, <2>2 DEF DiskEntry, DiskGiven
<1>. QED
  BY <1>1, <1>2, <1>3, <1>4 DEF Edited

\* A step applies one manifest, and that is good.
LEMMA StepsKeep ==
  ASSUME IInv, Next
  PROVE  \E m : Written(m) /\ (Define(m) \/ Reconcile(m))
<1>1. \A m : Define(m) \/ Reconcile(m) => Valid(m)
  BY DEF Define, Reconcile, Patch
<1>2. ASSUME NEW m, Drawn(m), Define(m) \/ Reconcile(m)
      PROVE  \E file : Written(file) /\ (Define(file) \/ Reconcile(file))
  BY <1>1, <1>2, DrawnWritten
<1>3. PICK d : d = Dump
  OBVIOUS
<1>4. Drawn(d) /\ d.disks \in Seq(DiskGiven) /\ TrayList(d) \in Seq(TrayGiven)
      /\ (TrayList(d) # <<>> => d.trays = TrayList(d))
  BY <1>3, Dumped
<1>5. PICK S, T : S = DiskGiven /\ T = DiskEntry /\ S \subseteq T
  BY DEF DiskEntry
<1>6. PICK U, V : U = TrayGiven /\ V = TrayEntry /\ U \subseteq V
  BY DEF TrayEntry
<1>7. PICK L \in Seq(S) : L = d.disks
  BY <1>4, <1>5
<1>8. PICK C \in Seq(U) : C = TrayList(d)
  BY <1>4, <1>6
<1>9. /\ DOMAIN L = 1 .. Len(L) /\ \A i \in DOMAIN L : L[i] \in S
      /\ \A x \in T : Append(L, x) \in Seq(T)
      /\ \A x \in T, i \in DOMAIN L : [L EXCEPT ![i] = x] \in Seq(T)
  BY <1>5, ListEdited
<1>10. /\ DOMAIN C = 1 .. Len(C) /\ \A i \in DOMAIN C : C[i] \in U
       /\ \A x \in V : Append(C, x) \in Seq(V)
       /\ \A x \in V, i \in DOMAIN C : [C EXCEPT ![i] = x] \in Seq(V)
  BY <1>6, ListEdited
<1>11. ASSUME NEW list \in Seq(T), Reconcile([d EXCEPT !.disks = list])
       PROVE  \E file : Written(file) /\ (Define(file) \/ Reconcile(file))
  <2>1. PICK m : m = [d EXCEPT !.disks = list]
    OBVIOUS
  <2>2. Drawn(m)
    BY <1>4, <1>5, <2>1, DisksEdited
  <2>3. Reconcile(m)
    BY <1>11, <2>1
  <2>. QED
    BY <1>2, <2>2, <2>3
<1>12. ASSUME NEW list \in Seq(V), Reconcile([d EXCEPT !.trays = list])
       PROVE  \E file : Written(file) /\ (Define(file) \/ Reconcile(file))
  <2>1. PICK m : m = [d EXCEPT !.trays = list]
    OBVIOUS
  <2>2. Drawn(m)
    BY <1>4, <1>6, <2>1, TraysEdited
  <2>3. Reconcile(m)
    BY <1>12, <2>1
  <2>. QED
    BY <1>2, <2>2, <2>3
<1>13. CASE ApplyFile
  <2>1. PICK m \in IF focus = "devices" THEN DeviceFiles ELSE EditedFiles : Define(m) \/ Reconcile(m)
    BY <1>13 DEF ApplyFile, Apply
  <2>2. CASE focus = "devices"
    BY <1>2, <2>1, <2>2, DeviceFilesDrawn
  <2>3. CASE focus # "devices"
    BY <1>1, <2>1, <2>3, EditedFilesWritten
  <2>. QED
    BY <2>2, <2>3
<1>14. CASE ApplyEdited
  <2>1. PICK i \in DOMAIN L : \E e \in Edited(L[i]) : Reconcile([d EXCEPT !.disks[i] = e])
    BY <1>3, <1>7, <1>14 DEF ApplyEdited
  <2>2. PICK e \in Edited(L[i]) : Reconcile([d EXCEPT !.disks[i] = e])
    BY <2>1
  <2>3. e \in T
    BY <1>5, <1>9, <2>1, DiskEdited
  <2>4. [d EXCEPT !.disks[i] = e] = [d EXCEPT !.disks = [L EXCEPT ![i] = e]]
    BY <1>7
  <2>5. Reconcile([d EXCEPT !.disks = [L EXCEPT ![i] = e]])
    BY <2>2, <2>4
  <2>6. [L EXCEPT ![i] = e] \in Seq(T)
    BY <1>9, <2>3
  <2>. QED
    BY <1>11, <2>5, <2>6
<1>15. ASSUME NEW path \in Paths, AttachImage(path)
       PROVE  \E file : Written(file) /\ (Define(file) \/ Reconcile(file))
  <2>1. PICK id \in DiskIds : Reconcile(WithDisk(id, path))
    BY <1>15 DEF AttachImage
  <2>2. PICK e : e = [present |-> TRUE, id |-> id, path |-> path, target |-> NoTarget]
    OBVIOUS
  <2>3. e \in T
    BY <1>5, <2>2 DEF DiskEntry, DiskGiven, DiskNames
  <2>4. WithDisk(id, path) = [d EXCEPT !.disks = Append(L, e)]
    BY <1>3, <1>7, <2>2 DEF WithDisk
  <2>5. Reconcile([d EXCEPT !.disks = Append(L, e)])
    BY <2>1, <2>4
  <2>6. Append(L, e) \in Seq(T)
    BY <1>9, <2>3
  <2>. QED
    BY <1>11, <2>5, <2>6
<1>16. ASSUME NEW path \in Paths, DetachImage(path)
       PROVE  \E file : Written(file) /\ (Define(file) \/ Reconcile(file))
  <2>1. PICK i \in DOMAIN L : Reconcile([d EXCEPT !.disks[i] = Absent(@.id)])
    BY <1>3, <1>7, <1>16 DEF DetachImage
  <2>2. Absent(L[i].id) \in T
    <3>1. L[i] \in DiskGiven
      BY <1>5, <1>9
    <3>2. L[i].id \in DiskNames
      BY <3>1 DEF DiskGiven
    <3>. QED
      BY <1>5, <3>2 DEF Absent, DiskEntry
  <2>3. PICK e : e = Absent(L[i].id)
    OBVIOUS
  <2>4. [d EXCEPT !.disks[i] = Absent(@.id)] = [d EXCEPT !.disks = [L EXCEPT ![i] = e]]
    BY <1>7, <2>3
  <2>5. Reconcile([d EXCEPT !.disks = [L EXCEPT ![i] = e]])
    BY <2>1, <2>4
  <2>6. [L EXCEPT ![i] = e] \in Seq(T)
    BY <1>9, <2>2, <2>3
  <2>. QED
    BY <1>11, <2>5, <2>6
<1>17. ASSUME NEW id \in TrayIds, AddTray(id)
       PROVE  \E file : Written(file) /\ (Define(file) \/ Reconcile(file))
  <2>1. Reconcile(WithTray(id))
    BY <1>17 DEF AddTray
  <2>2. PICK e : e = [present |-> TRUE, id |-> id, target |-> NoTarget]
    OBVIOUS
  <2>3. e \in V
    BY <1>6, <2>2 DEF TrayEntry, TrayGiven, TrayNames
  <2>4. WithTray(id) = [d EXCEPT !.trays = Append(C, e)]
    BY <1>3, <1>8, <2>2 DEF WithTray
  <2>5. Reconcile([d EXCEPT !.trays = Append(C, e)])
    BY <2>1, <2>4
  <2>6. Append(C, e) \in Seq(V)
    BY <1>10, <2>3
  <2>. QED
    BY <1>12, <2>5, <2>6
<1>18. CASE RemoveTray
  <2>1. PICK i \in DOMAIN C : Reconcile([d EXCEPT !.trays[i] = Absent(@.id)])
    BY <1>3, <1>8, <1>18 DEF RemoveTray
  <2>2. Absent(C[i].id) \in V
    <3>1. C[i] \in TrayGiven
      BY <1>6, <1>10
    <3>2. C[i].id \in TrayNames
      BY <3>1 DEF TrayGiven
    <3>. QED
      BY <1>6, <3>2 DEF Absent, TrayEntry
  <2>3. PICK e : e = Absent(C[i].id)
    OBVIOUS
  <2>4. C # <<>>
    BY <1>10, <2>1
  <2>5. d.trays = C
    BY <1>4, <1>8, <2>4
  <2>6. [d EXCEPT !.trays[i] = Absent(@.id)] = [d EXCEPT !.trays = [C EXCEPT ![i] = e]]
    BY <2>3, <2>5
  <2>7. Reconcile([d EXCEPT !.trays = [C EXCEPT ![i] = e]])
    BY <2>1, <2>6
  <2>8. [C EXCEPT ![i] = e] \in Seq(V)
    BY <1>10, <2>2, <2>3
  <2>. QED
    BY <1>12, <2>7, <2>8
<1>19. CASE SetMedia
  <2>1. Reconcile(d)
    BY <1>3, <1>19 DEF SetMedia
  <2>. QED
    BY <1>2, <1>4, <2>1
<1>. QED
  BY <1>13, <1>14, <1>15, <1>16, <1>17, <1>18, <1>19 DEF Next

\* Disks and trays have a node each.
LEMMA NodesCounted ==
  ASSUME DevicesAreSound
  PROVE  Cardinality(Nodes(disks \union trays)) = Cardinality(disks) + Cardinality(trays)
<1>. DEFINE D == disks \union trays
            f == [d \in D |-> d.node]
<1>1. IsFiniteSet(disks) /\ IsFiniteSet(trays) /\ disks \intersect trays = {}
  BY DEF DevicesAreSound
<1>2. /\ IsFiniteSet(D)
      /\ Cardinality(D) = Cardinality(disks) + Cardinality(trays) - Cardinality(disks \intersect trays)
  BY <1>1, FS_Union
<1>3. Cardinality(D) = Cardinality(disks) + Cardinality(trays)
  <2>1. Cardinality(disks \intersect trays) = 0
    BY <1>1, FS_EmptySet
  <2>2. Cardinality(disks) \in Nat /\ Cardinality(trays) \in Nat
    BY <1>1, FS_CardinalityType
  <2>. QED
    BY <1>2, <2>1, <2>2
<1>4. f \in [D -> Nodes(D)] /\ \A x \in Nodes(D) : \E d \in D : f[d] = x
  BY DEF Nodes
<1>5. \A d, e \in D : f[d] = f[e] => d = e
  BY DEF DevicesAreSound
<1>. HIDE DEF f, D
<1>6. f \in Bijection(D, Nodes(D))
  BY <1>4, <1>5, Fun_IsBij
<1>7. Cardinality(Nodes(D)) = Cardinality(D)
  BY <1>2, <1>6, FS_Bijection DEF ExistsBijection
<1>. QED
  BY <1>3, <1>7 DEF D

-----------------------------------------------------------------------------
(* The theorems.                                                             *)

\* The settings of a new VM's template are valid, and so are those of the
\* definitions that other programs make.
LEMMA FirstSettings ==
  /\ SettingsAreSound(BuiltSettings(DefaultSettings))
  /\ \A s \in OtherSettings : SettingsAreSound(s)
<1>1. PICK s : s = DefaultSettings
  OBVIOUS
<1>2. s \in SettingsEntry
  BY <1>1 DEF DefaultSettings, SettingsEntry, Machines, Texts
<1>3. /\ s.memory = None /\ s.memoryGiB = 1 /\ s.vcpus = 1 /\ s.cpu = NoCpu /\ s.threads = FALSE
      /\ s.ioThreads = None /\ s.vcpuTune = Keep /\ s.numaTune = Keep /\ s.machine = None
  BY <1>1 DEF DefaultSettings
<1>4. ValidSettings(s)
  <2>1. ValidMemory(s)
    BY <1>3 DEF ValidMemory, EffectiveMemory, MaxMemory, MiBPerGiB
  <2>2. ValidCpu(s)
    BY <1>3 DEF ValidCpu, EffectiveVcpus
  <2>3. ValidIoThreads(s)
    BY <1>3 DEF ValidIoThreads
  <2>4. ValidNumaTune(s.numaTune)
    BY <1>3 DEF ValidNumaTune, Given
  <2>. QED
    BY <2>1, <2>2, <2>3, <2>4 DEF ValidSettings
<1>5. InContext(s, NothingYet)
  BY <1>3 DEF InContext, Given, PinsExist, NothingYet
<1>6. SettingsAreSound(BuiltSettings(s))
  BY <1>2, <1>4, <1>5, BuiltSound
<1>7. PICK b : b = BuiltSettings(s)
  OBVIOUS
<1>8. b.pins = {} /\ b.ioPins = {} /\ b.memNodes = {} /\ b.controller = None
  BY <1>3, <1>7 DEF BuiltSettings, VcpuPlacement, NumaPlacement, Given
<1>9. b \in SettingsRecord
  BY <1>6, <1>7 DEF SettingsAreSound
<1>10. ASSUME NEW t \in OtherSettings PROVE SettingsAreSound(t)
  <2>1. CASE \E log \in {None, "log"}, vnc \in {None, "auto"} :
               t = [b EXCEPT !.console = log, !.graphics = vnc]
    <3>1. PICK log \in {None, "log"}, vnc \in {None, "auto"} :
            t = [b EXCEPT !.console = log, !.graphics = vnc]
      BY <2>1
    <3>2. log \in Texts /\ vnc \in Texts
      BY DEF Texts, Words
    <3>3. t \in SettingsRecord
      BY <1>9, <3>1, <3>2 DEF SettingsRecord
    <3>4. t.pins = {} /\ t.ioPins = {} /\ t.memNodes = {} /\ t.controller = None
      BY <1>8, <1>9, <3>1 DEF SettingsRecord
    <3>. QED
      BY <3>3, <3>4 DEF SettingsAreSound, PlacementExists
  <2>2. CASE t = [b EXCEPT !.cpu = [topology |-> None, features |-> FeatureNames, cells |-> {0}],
                           !.other = TRUE]
    <3>1. PICK c : c = [topology |-> None, features |-> FeatureNames, cells |-> {0}]
      OBVIOUS
    <3>2. c \in [topology : OptionalNat, features : SUBSET FeatureNames, cells : SUBSET Nat]
      BY <3>1 DEF OptionalNat
    <3>3. t = [b EXCEPT !.cpu = c, !.other = TRUE]
      BY <2>2, <3>1
    <3>4. t \in SettingsRecord
      BY <1>9, <3>2, <3>3 DEF SettingsRecord
    <3>5. t.pins = {} /\ t.ioPins = {} /\ t.memNodes = {} /\ t.controller = None
      BY <1>8, <1>9, <3>3 DEF SettingsRecord
    <3>. QED
      BY <3>4, <3>5 DEF SettingsAreSound, PlacementExists
  <2>. QED
    BY <1>1, <1>7, <2>1, <2>2 DEF OtherSettings
<1>. QED
  BY <1>1, <1>6, <1>10

\* A definition that another program made.
LEMMA OthersSound ==
  ASSUME Other
  PROVE  IInv
<1>1. PICK disk \in OtherDisks : disks = {disk} /\ trays \in {{}, {OtherTray}}
  BY DEF Other
<1>2. PICK alias \in {NoId, Foreign} : nics = <<OtherNic(alias)>>
  BY DEF Other
<1>3. SettingsAreSound(settings)
  BY FirstSettings DEF Other
<1>4. disk \in DiskRecord /\ disk.node = 1 /\ disk.target = 0
  BY DEF OtherDisks, DiskRecord, Aliases
<1>5. OtherTray \in TrayRecord /\ OtherTray.node = 2 /\ OtherTray.target = 1
  BY DEF OtherTray, TrayRecord, Aliases
<1>6. DevicesAreSound
  <2>1. IsFiniteSet(disks) /\ IsFiniteSet(trays)
    <3>1. IsFiniteSet({}) /\ \A x : IsFiniteSet({x})
      BY FS_EmptySet, FS_Singleton
    <3>. QED
      BY <1>1, <3>1
  <2>. QED
    BY <1>1, <1>4, <1>5, <2>1 DEF DevicesAreSound
<1>7. PICK nic : nic = OtherNic(alias)
  OBVIOUS
<1>8. nic \in NicRecord /\ nic.mac = GivenMac
  <2>1. nic = [node |-> 0, alias |-> alias, mac |-> Mac([mac |-> GivenMac], 0), source |-> DefaultNetwork,
               vlan |-> IF Given(1) THEN 1 ELSE None]
    BY <1>7 DEF OtherNic, NewNic, NewEntry, Mac
  <2>2. Mac([mac |-> GivenMac], 0) = GivenMac
    BY VmDefinitionAssumption DEF Mac
  <2>3. DefaultNetwork \in Sources
    BY DEF DefaultNetwork, Sources, Words
  <2>. QED
    BY <2>1, <2>2, <2>3 DEF NicRecord, NicMacs
<1>9. NicsAreSound(nics)
  <2>1. nics = <<nic>>
    BY <1>2, <1>7
  <2>. QED
    BY <1>8, <2>1 DEF NicsAreSound
<1>. QED
  BY <1>3, <1>6, <1>9 DEF IInv, Other

\* The initial states.
LEMMA FirstSound ==
  ASSUME Init
  PROVE  IInv
<1>1. CASE Other
  BY <1>1, OthersSound
<1>2. CASE /\ defined = FALSE /\ disks = {} /\ trays = {} /\ nics = <<>>
           /\ settings = BuiltSettings(DefaultSettings)
  <2>1. SettingsAreSound(settings)
    BY <1>2, FirstSettings
  <2>2. DevicesAreSound
    BY <1>2, FS_EmptySet DEF DevicesAreSound
  <2>3. NicsAreSound(nics)
    BY <1>2 DEF NicsAreSound
  <2>. QED
    BY <1>2, <2>1, <2>2, <2>3 DEF IInv
<1>. QED
  BY <1>1, <1>2 DEF Init

\* What every step does and keeps.
LEMMA NextSound ==
  ASSUME IInv, Next
  PROVE  IInv' /\ Leaving /\ Open /\ Realised
<1>1. PICK m : Written(m) /\ (Define(m) \/ Reconcile(m))
  BY StepsKeep
<1>. QED
  BY <1>1, Defined, Reconciled

\* The inductive invariant holds: whatever manifests are applied, devices and
\* interfaces keep what tells them apart, and the settings are consistent.
THEOREM DefinitionInvariance == Spec => []IInv
<1>1. Init => IInv
  BY FirstSound
<1>2. IInv /\ [Next]_vars => IInv'
  <2>1. ASSUME IInv, Next PROVE IInv'
    BY <2>1, NextSound
  <2>2. ASSUME IInv, UNCHANGED vars PROVE IInv'
    BY <2>2 DEF vars, IInv, DevicesAreSound, NicsAreSound, SettingsAreSound
  <2>. QED
    BY <2>1, <2>2
<1>. QED
  BY <1>1, <1>2, PTL DEF Spec

\* A definition refers to nothing twice and to nothing that is not there.
THEOREM DefinitionSoundness == Spec => []DefinitionIsSound
<1>1. IInv => DefinitionIsSound
  <2>. SUFFICES ASSUME IInv PROVE DefinitionIsSound
    OBVIOUS
  <2>1. /\ DevicesAreSound /\ NicsAreSound(nics) /\ SettingsAreSound(settings)
        /\ defined \in BOOLEAN /\ (~defined => disks = {} /\ trays = {})
    BY DEF IInv
  <2>2. \A d \in disks : d.alias \in Aliases(DiskIds) /\ d.path \in Paths /\ d.node \in Nat /\ d.target \in Nat
    BY <2>1 DEF DevicesAreSound, DiskRecord
  <2>3. \A d \in trays : d.alias \in Aliases(TrayIds) /\ d.node \in Nat /\ d.target \in Nat
    BY <2>1 DEF DevicesAreSound, TrayRecord
  <2>4. Cardinality(Nodes(disks \union trays)) = Cardinality(disks) + Cardinality(trays)
    BY <2>1, NodesCounted
  <2>5. TypeOK
    BY <2>1, <2>2, <2>3, <2>4 DEF TypeOK
  <2>. QED
    BY <2>1, <2>5 DEF DefinitionIsSound, DevicesAreSound, NicsAreSound, SettingsAreSound
<1>. QED
  BY <1>1, DefinitionInvariance, PTL

\* A device leaves the definition only when the manifest names it as absent.
THEOREM DefinitionLeaving == Spec => LeavesOnlyWhenNamed
<1>1. IInv /\ [Next]_vars => [Leaving]_vars
  BY NextSound
<1>. QED
  BY <1>1, DefinitionInvariance, PTL DEF Spec, LeavesOnlyWhenNamed, Leaving

\* What the manifest leaves open is kept.
THEOREM DefinitionKeeping == Spec => OpenIsKept
<1>1. IInv /\ [Next]_vars => [Open]_vars
  BY NextSound
<1>. QED
  BY <1>1, DefinitionInvariance, PTL DEF Spec, OpenIsKept, Open

\* Every present entry is realised, and a dump says what the manifest said.
THEOREM DefinitionRealisation == Spec => ManifestRealised
<1>1. IInv /\ [Next]_vars => [Realised]_vars
  BY NextSound
<1>. QED
  BY <1>1, DefinitionInvariance, PTL DEF Spec, ManifestRealised, Realised
=============================================================================
