-------------------------- MODULE JobServiceProofs --------------------------
(***************************************************************************)
(* Proofs about JobService, for any number of jobs, any assignment of      *)
(* names and images to them and any bound on crashes and database errors.  *)
(***************************************************************************)
EXTENDS JobService, TLAPS

\* The statuses and the steps, spelled out.
LEMMA StatusNames ==
  /\ Lifecycle!Statuses = {"absent", "queued", "running", "interrupted",
                           "succeeded", "failed", "cancelled"}
  /\ Lifecycle!Reserving = {"queued", "running", "interrupted"}
  /\ Lifecycle!Terminal = {"succeeded", "failed", "cancelled"}
BY DEF Lifecycle!Statuses, Lifecycle!Reserving, Lifecycle!Terminal

\* The places of a create call and of the worker, spelled out.
LEMMA StepNames ==
  /\ CreateSteps = {"idle", "unreserved", "vmFree", "imageFree", "inserted"}
  /\ WorkerSteps = {"idle", "received", "registered", "claimed",
                    "planning", "preflight", "disk", "domain", "installing",
                    "committing", "verifying", "rollback", "rollbackDisk",
                    "succeeded", "errored", "finishSucceeded", "finishErrored",
                    "fallback"}
  /\ Installing = {"planning", "preflight", "disk", "domain", "installing",
                   "committing", "verifying", "rollback", "rollbackDisk",
                   "succeeded", "errored"}
  /\ Polling = {"planning", "preflight", "disk", "domain", "installing",
                "committing", "verifying"}
BY DEF CreateSteps, WorkerSteps, Installing, Polling

\* What all steps of the installation have in common, and all other handlers.
LEMMA InstallSteps ==
  ASSUME Install
  PROVE  /\ InstallFrame
         /\ workerStep \in Polling \union {"rollback", "rollbackDisk"}
         /\ workerStep' \in Installing
BY DEF Install, Plan, Preflight, CreateDisk, DefineVm, RunVirtInstall, CommitVm,
       VerifyGuest, StopInstall, RollbackVm, RollbackDisk, Proceed, Polling, Installing

\* What all handlers but the installation and the crash leave alone.
LEMMA HandlerSteps ==
  ASSUME Handlers
  PROVE  OtherFrame /\ ResourceLockFree
BY DEF Handlers, CreateVm, UndefineVm, CreateImage, DeleteImage

\* Which steps write the rows.
LEMMA RowSteps ==
  ASSUME [Next]_vars
  PROVE  \/ UNCHANGED store
         \/ CreateInsert \/ Claim \/ Finish \/ Fallback \/ Restart
         \/ \E j \in Jobs : CancelRow(j)
<1>1. \/ \E j \in Jobs : CreateBegin(j) \/ CancelSignal(j)
      \/ CreateCheckVm \/ CreateCheckImage \/ CreateSend
      => UNCHANGED store
  BY DEF CreateBegin, CancelSignal, CreateCheckVm, CreateCheckImage, CreateSend
<1>2. Install => UNCHANGED store
  BY InstallSteps DEF InstallFrame
<1>3. \/ Receive \/ RegisterControl \/ Resolve \/ Unregister \/ Crash \/ StartServing
      \/ \E j \in Jobs : SendQueued(j)
      => UNCHANGED store
  BY DEF Receive, RegisterControl, Resolve, Unregister, Crash, StartServing, SendQueued
<1>4. Handlers \/ UNCHANGED vars
      => UNCHANGED store
  BY HandlerSteps DEF OtherFrame, vars
<1>. QED
  BY <1>1, <1>2, <1>3, <1>4 DEF Next, Create, RunJob, Start

\* Which steps write the channel and the lists of ids on their way to it.
LEMMA ChannelSteps ==
  ASSUME [Next]_vars
  PROVE  \/ UNCHANGED channel
         \/ CreateSend \/ Receive \/ Crash
         \/ \E j \in Jobs : SendQueued(j)
<1>1. \/ \E j \in Jobs : CreateBegin(j) \/ CancelRow(j) \/ CancelSignal(j)
      \/ CreateCheckVm \/ CreateCheckImage \/ CreateInsert
      => UNCHANGED channel
  BY DEF CreateBegin, CancelRow, CancelSignal, CreateCheckVm, CreateCheckImage, CreateInsert
<1>2. Install => UNCHANGED channel
  BY InstallSteps DEF InstallFrame
<1>3. \/ RegisterControl \/ Claim \/ Resolve \/ Unregister \/ Finish \/ Fallback
      \/ Restart \/ StartServing
      => UNCHANGED channel
  BY DEF RegisterControl, Claim, Resolve, Unregister, Finish, Fallback, Restart,
         StartServing
<1>4. Handlers \/ UNCHANGED vars
      => UNCHANGED channel
  BY HandlerSteps DEF OtherFrame, vars
<1>. QED
  BY <1>1, <1>2, <1>3, <1>4 DEF Next, Create, RunJob, Start

\* Every variable starts in its type.
LEMMA TypeInit ==
  ASSUME Init
  PROVE  TypeOK
BY StatusNames, StepNames, JobServiceAssumption
   DEF Init, TypeOK, RowsTypeOK, ChannelTypeOK, ProcessTypeOK

\* Each action keeps every variable in its type.
LEMMA TypeStep ==
  ASSUME TypeOK, [Next]_vars
  PROVE  TypeOK'
<1>. USE StatusNames, StepNames, JobServiceAssumption
     DEF store, boot, creator, worker, host, cancelling,
         TypeOK, RowsTypeOK, ChannelTypeOK, ProcessTypeOK
<1>1. ASSUME NEW j \in Jobs, CreateBegin(j) PROVE TypeOK'
  BY <1>1 DEF CreateBegin
<1>2. CASE CreateCheckVm
  BY <1>2 DEF CreateCheckVm, CreateReturn
<1>3. CASE CreateCheckImage
  BY <1>3 DEF CreateCheckImage, CreateReturn
<1>4. CASE CreateInsert
  BY <1>4 DEF CreateInsert, CreateReturn, DbError
<1>5. CASE CreateSend
  BY <1>5 DEF CreateSend, CreateReturn, DbError
<1>6. ASSUME NEW j \in Jobs, CancelRow(j) PROVE TypeOK'
  BY <1>6 DEF CancelRow, RequestCancel, DbError
<1>7. ASSUME NEW j \in Jobs, CancelSignal(j) PROVE TypeOK'
  BY <1>7 DEF CancelSignal
<1>8. CASE Receive
  BY <1>8 DEF Receive
<1>9. CASE RegisterControl
  BY <1>9 DEF RegisterControl
<1>10. CASE Claim
  BY <1>10 DEF Claim, Claimable, DbError
<1>11. CASE Resolve
  BY <1>11 DEF Resolve
<1>12. CASE Plan
  BY <1>12 DEF Plan, Proceed, InstallFrame
<1>13. CASE Preflight
  BY <1>13 DEF Preflight, Proceed, InstallFrame
<1>14. CASE CreateDisk
  BY <1>14 DEF CreateDisk, Proceed, InstallFrame, ImageIds
<1>15. CASE DefineVm
  BY <1>15 DEF DefineVm, Proceed, InstallFrame, Names
<1>16. CASE RunVirtInstall
  BY <1>16 DEF RunVirtInstall, Proceed, InstallFrame
<1>17. CASE CommitVm
  BY <1>17 DEF CommitVm, Proceed, InstallFrame
<1>18. CASE VerifyGuest
  BY <1>18 DEF VerifyGuest, Proceed, InstallFrame
<1>19. CASE StopInstall
  BY <1>19 DEF StopInstall, InstallFrame
<1>20. CASE RollbackVm
  BY <1>20 DEF RollbackVm, InstallFrame
<1>21. CASE RollbackDisk
  BY <1>21 DEF RollbackDisk, InstallFrame
<1>22. CASE Unregister
  BY <1>22 DEF Unregister
<1>23. CASE Finish
  <2>1. Outcome \in Lifecycle!Terminal
    BY DEF Outcome
  <2>. QED
    <3>1. Outcome \in Lifecycle!Statuses /\ workerJob \in Jobs
      BY <1>23, <2>1 DEF Finish
    <3>2. RowsTypeOK'
      BY <1>23, <3>1 DEF Finish
    <3>3. CASE WorkerIdle /\ UNCHANGED dbErrors
      BY <1>23, <3>2, <3>3 DEF Finish, WorkerIdle
    <3>4. CASE DbError /\ workerStep' = "fallback" /\ UNCHANGED <<workerJob, owned>>
      BY <1>23, <3>2, <3>4 DEF Finish, DbError
    <3>. QED
      BY <1>23, <3>3, <3>4 DEF Finish
<1>24. CASE Fallback
  BY <1>24 DEF Fallback, WorkerIdle, DbError
<1>25. CASE Crash
  BY <1>25 DEF Crash, CreateReturn, WorkerIdle
<1>26. CASE Restart
  BY <1>26 DEF Restart
<1>27. ASSUME NEW j \in Jobs, SendQueued(j) PROVE TypeOK'
  BY <1>27 DEF SendQueued
<1>28. CASE StartServing
  BY <1>28 DEF StartServing
<1>29. ASSUME NEW n \in Names, CreateVm(n) PROVE TypeOK'
  BY <1>29 DEF CreateVm, OtherFrame
<1>30. ASSUME NEW n \in Names, UndefineVm(n) PROVE TypeOK'
  BY <1>30 DEF UndefineVm, OtherFrame
<1>31. ASSUME NEW i \in ImageIds, CreateImage(i) PROVE TypeOK'
  BY <1>31 DEF CreateImage, OtherFrame
<1>32. ASSUME NEW i \in ImageIds, DeleteImage(i) PROVE TypeOK'
  BY <1>32 DEF DeleteImage, OtherFrame
<1>33. CASE UNCHANGED vars
  BY <1>33 DEF vars
<1>. QED
  BY <1>1, <1>2, <1>3, <1>4, <1>5, <1>6, <1>7, <1>8, <1>9, <1>10, <1>11,
     <1>12, <1>13, <1>14, <1>15, <1>16, <1>17, <1>18, <1>19, <1>20, <1>21,
     <1>22, <1>23, <1>24, <1>25, <1>26, <1>27, <1>28, <1>29, <1>30, <1>31,
     <1>32, <1>33 DEF Next, Create, RunJob, Install, Start, Handlers

\* A row can come to reserve its request only by create's INSERT.
LEMMA ReservationStep ==
  ASSUME TypeOK, ReservationExclusive, CreatorInv, [Next]_vars
  PROVE  ReservationExclusive'
<1>. USE StatusNames DEF TypeOK, RowsTypeOK, ProcessTypeOK, ReservationExclusive,
         Lifecycle!ReservesResources, Lifecycle!Overlap
<1>1. CASE CreateInsert
  <2>1. createJob \in Jobs /\ createStep = "imageFree"
    BY <1>1, StepNames DEF CreateInsert
  <2>2. \A i \in Jobs : status[i] \in Lifecycle!Reserving
                          => VmName[i] # VmName[createJob] /\ ImageId[i] # ImageId[createJob]
    BY <2>1 DEF CreatorInv
  <2>3. \A i \in Jobs \ {createJob} : status'[i] = status[i]
    BY <1>1, <2>1 DEF CreateInsert, store
  <2>. QED
    BY <2>2, <2>3
<1>2. ASSUME \A j \in Jobs : status'[j] \in Lifecycle!Reserving => status[j] \in Lifecycle!Reserving
      PROVE  ReservationExclusive'
  BY <1>2
<1>3. CASE UNCHANGED store
  BY <1>2, <1>3 DEF store
<1>4. CASE Claim
  BY <1>2, <1>4 DEF Claim, Claimable
<1>5. CASE Finish
  <2>1. Outcome \notin Lifecycle!Reserving
    BY DEF Outcome
  <2>. QED
    BY <1>2, <1>5, <2>1 DEF Finish
<1>6. CASE Fallback
  BY <1>2, <1>6 DEF Fallback
<1>7. CASE Restart
  BY <1>2, <1>7 DEF Restart
<1>8. ASSUME NEW j \in Jobs, CancelRow(j) PROVE ReservationExclusive'
  BY <1>2, <1>8 DEF CancelRow, RequestCancel, store
<1>. QED
  BY <1>1, <1>3, <1>4, <1>5, <1>6, <1>7, <1>8, RowSteps

\* What create has checked while it holds the lock stays true until its INSERT.
LEMMA CreatorStep ==
  ASSUME TypeOK, ReservationExclusive, WaitingFindsNothing, WorkerInv, QueueInv,
         CreatorInv, [Next]_vars
  PROVE  CreatorInv'
<1>. USE StatusNames, StepNames, JobServiceAssumption
     DEF TypeOK, RowsTypeOK, ProcessTypeOK, CreatorInv,
         Lifecycle!ReservesResources, Lifecycle!Overlap,
         store, boot, creator, worker, host, cancelling
<1>1. ASSUME NEW j \in Jobs, CreateBegin(j) PROVE CreatorInv'
  BY <1>1 DEF CreateBegin, ResourceLockFree, ActiveResourceUser
<1>2. CASE CreateCheckVm
  BY <1>2 DEF CreateCheckVm, CreateReturn
<1>3. CASE CreateCheckImage
  BY <1>3 DEF CreateCheckImage, CreateReturn
<1>4. CASE CreateInsert
  BY <1>4 DEF CreateInsert, CreateReturn, DbError
<1>5. CASE CreateSend
  BY <1>5 DEF CreateSend, CreateReturn, DbError
<1>6. ASSUME NEW j \in Jobs, CancelRow(j) PROVE CreatorInv'
  BY <1>6 DEF CancelRow, RequestCancel, DbError
<1>7. ASSUME NEW j \in Jobs, CancelSignal(j) PROVE CreatorInv'
  BY <1>7 DEF CancelSignal
<1>8. CASE Receive
  BY <1>8 DEF Receive
<1>9. CASE RegisterControl
  BY <1>9 DEF RegisterControl
<1>10. CASE Claim
  BY <1>10 DEF Claim, Claimable, DbError, WorkerInv
<1>11. CASE Resolve
  BY <1>11 DEF Resolve
<1>12. CASE Install
  <2>1. InstallFrame /\ workerStep \in Installing
    BY <1>12, InstallSteps
  <2>2. CASE UNCHANGED host
    BY <2>1, <2>2 DEF InstallFrame
  <2>3. CASE CreateDisk \/ DefineVm
    BY <2>1, <2>3 DEF CreateDisk, DefineVm, InstallFrame, WorkerInv
  <2>4. CASE RollbackVm \/ RollbackDisk
    BY <2>1, <2>4 DEF RollbackVm, RollbackDisk, InstallFrame
  <2>. QED
    BY <1>12, <2>2, <2>3, <2>4 DEF Install, Plan, Preflight, RunVirtInstall, CommitVm,
       VerifyGuest, StopInstall
<1>13. CASE Unregister
  BY <1>13 DEF Unregister
<1>14. CASE Finish
  BY <1>14 DEF Finish, Outcome, WorkerIdle, DbError, WorkerInv
<1>15. CASE Fallback
  BY <1>15 DEF Fallback, WorkerIdle, DbError, QueueInv
<1>16. CASE Crash
  BY <1>16 DEF Crash, CreateReturn, WorkerIdle
<1>17. CASE Restart
  BY <1>17 DEF Restart
<1>18. ASSUME NEW j \in Jobs, SendQueued(j) PROVE CreatorInv'
  BY <1>18 DEF SendQueued
<1>19. CASE StartServing
  BY <1>19 DEF StartServing
<1>20. CASE Handlers
  BY <1>20, HandlerSteps DEF OtherFrame, ResourceLockFree
<1>21. CASE UNCHANGED vars
  BY <1>21 DEF vars
<1>. QED
  BY <1>1, <1>2, <1>3, <1>4, <1>5, <1>6, <1>7, <1>8, <1>9, <1>10, <1>11,
     <1>12, <1>13, <1>14, <1>15, <1>16, <1>17, <1>18, <1>19, <1>20, <1>21
  DEF Next, Create, RunJob, Start

\* The worker's program counter, its row and what it owns move together.
LEMMA WorkerStep ==
  ASSUME TypeOK, QueueInv, CreatorInv, WorkerInv, [Next]_vars
  PROVE  WorkerInv'
<1>. USE StatusNames, StepNames, JobServiceAssumption
     DEF TypeOK, RowsTypeOK, ProcessTypeOK, WorkerInv,
         store, boot, creator, worker, host, cancelling
<1>1. ASSUME NEW j \in Jobs, CreateBegin(j) PROVE WorkerInv'
  BY <1>1 DEF CreateBegin
<1>2. CASE CreateCheckVm
  BY <1>2 DEF CreateCheckVm, CreateReturn
<1>3. CASE CreateCheckImage
  BY <1>3 DEF CreateCheckImage, CreateReturn
<1>4. CASE CreateInsert
  BY <1>4 DEF CreateInsert, CreateReturn, DbError, CreatorInv
<1>5. CASE CreateSend
  BY <1>5 DEF CreateSend, CreateReturn, DbError
<1>6. ASSUME NEW j \in Jobs, CancelRow(j) PROVE WorkerInv'
  BY <1>6 DEF CancelRow, RequestCancel, DbError
<1>7. ASSUME NEW j \in Jobs, CancelSignal(j) PROVE WorkerInv'
  BY <1>7 DEF CancelSignal
<1>8. CASE Receive
  BY <1>8 DEF Receive
<1>9. CASE RegisterControl
  BY <1>9 DEF RegisterControl
<1>10. CASE Claim
  BY <1>10 DEF Claim, Claimable, DbError
<1>11. CASE Resolve
  BY <1>11 DEF Resolve
<1>12. CASE Install
  BY <1>12, InstallSteps
     DEF InstallFrame, Install, Plan, Preflight, CreateDisk, DefineVm, RunVirtInstall,
         CommitVm, VerifyGuest, StopInstall, RollbackVm, RollbackDisk, Proceed
<1>13. CASE Unregister
  BY <1>13 DEF Unregister
<1>14. CASE Finish
  BY <1>14 DEF Finish, Outcome, WorkerIdle, DbError
<1>15. CASE Fallback
  BY <1>15 DEF Fallback, WorkerIdle, DbError
<1>16. CASE Crash
  BY <1>16 DEF Crash, CreateReturn, WorkerIdle
<1>17. CASE Restart
  BY <1>17 DEF Restart
<1>18. ASSUME NEW j \in Jobs, SendQueued(j) PROVE WorkerInv'
  BY <1>18 DEF SendQueued
<1>19. CASE StartServing
  BY <1>19 DEF StartServing
<1>20. CASE Handlers
  BY <1>20, HandlerSteps DEF OtherFrame
<1>21. CASE UNCHANGED vars
  BY <1>21 DEF vars
<1>. QED
  BY <1>1, <1>2, <1>3, <1>4, <1>5, <1>6, <1>7, <1>8, <1>9, <1>10, <1>11,
     <1>12, <1>13, <1>14, <1>15, <1>16, <1>17, <1>18, <1>19, <1>20, <1>21
  DEF Next, Create, RunJob, Start

\* Nobody but the installation makes or removes what its job has reserved.
LEMMA HostStep ==
  ASSUME TypeOK, ReservationExclusive, CreatorInv, WorkerInv,
         WaitingFindsNothing, InstallKeepsItsResources, [Next]_vars
  PROVE  WaitingFindsNothing' /\ InstallKeepsItsResources'
<1>. DEFINE Found == WaitingFindsNothing /\ InstallKeepsItsResources
<1>. USE StatusNames, StepNames, JobServiceAssumption
     DEF TypeOK, RowsTypeOK, ProcessTypeOK, WaitingFindsNothing,
         InstallKeepsItsResources, ReservationExclusive, WorkerInv,
         Lifecycle!ReservesResources, Lifecycle!Overlap,
         store, boot, creator, worker, host, cancelling
<1>1. ASSUME NEW j \in Jobs, CreateBegin(j) PROVE Found'
  BY <1>1 DEF CreateBegin
<1>2. CASE CreateCheckVm
  BY <1>2 DEF CreateCheckVm, CreateReturn
<1>3. CASE CreateCheckImage
  BY <1>3 DEF CreateCheckImage, CreateReturn
<1>4. CASE CreateInsert
  BY <1>4 DEF CreateInsert, CreateReturn, DbError, CreatorInv
<1>5. CASE CreateSend
  BY <1>5 DEF CreateSend, CreateReturn, DbError
<1>6. ASSUME NEW j \in Jobs, CancelRow(j) PROVE Found'
  BY <1>6 DEF CancelRow, RequestCancel, DbError
<1>7. ASSUME NEW j \in Jobs, CancelSignal(j) PROVE Found'
  BY <1>7 DEF CancelSignal
<1>8. CASE Receive
  BY <1>8 DEF Receive
<1>9. CASE RegisterControl
  BY <1>9 DEF RegisterControl
<1>10. CASE Claim
  BY <1>10 DEF Claim, Claimable, DbError
<1>11. CASE Resolve
  BY <1>11 DEF Resolve
<1>12. CASE Install
  <2>1. CASE Plan
    BY <2>1 DEF Plan, Proceed, InstallFrame
  <2>2. CASE Preflight
    BY <2>2 DEF Preflight, Proceed, InstallFrame
  <2>3. CASE CreateDisk
    BY <2>3 DEF CreateDisk, Proceed, InstallFrame
  <2>4. CASE DefineVm
    BY <2>4 DEF DefineVm, Proceed, InstallFrame
  <2>5. CASE RunVirtInstall
    BY <2>5 DEF RunVirtInstall, Proceed, InstallFrame
  <2>6. CASE CommitVm
    BY <2>6 DEF CommitVm, Proceed, InstallFrame
  <2>7. CASE VerifyGuest
    BY <2>7 DEF VerifyGuest, Proceed, InstallFrame
  <2>8. CASE StopInstall
    BY <2>8 DEF StopInstall, InstallFrame
  <2>9. CASE RollbackVm
    BY <2>9 DEF RollbackVm, InstallFrame
  <2>10. CASE RollbackDisk
    BY <2>10 DEF RollbackDisk, InstallFrame
  <2>. QED
    BY <1>12, <2>1, <2>2, <2>3, <2>4, <2>5, <2>6, <2>7, <2>8, <2>9, <2>10 DEF Install
<1>13. CASE Unregister
  BY <1>13 DEF Unregister
<1>14. CASE Finish
  BY <1>14 DEF Finish, Outcome, WorkerIdle, DbError
<1>15. CASE Fallback
  BY <1>15 DEF Fallback, WorkerIdle, DbError
<1>16. CASE Crash
  BY <1>16 DEF Crash, CreateReturn, WorkerIdle
<1>17. CASE Restart
  BY <1>17 DEF Restart
<1>18. ASSUME NEW j \in Jobs, SendQueued(j) PROVE Found'
  BY <1>18 DEF SendQueued
<1>19. CASE StartServing
  BY <1>19 DEF StartServing
<1>20. CASE Handlers
  <2>1. ResourceLockFree /\ OtherFrame
    BY <1>20, HandlerSteps
  <2>2. ASSUME NEW n \in Names, CreateVm(n) \/ UndefineVm(n) PROVE Found'
    BY <2>1, <2>2 DEF CreateVm, UndefineVm, OtherFrame, ActiveResourceUser
  <2>3. ASSUME NEW i \in ImageIds, CreateImage(i) \/ DeleteImage(i) PROVE Found'
    BY <2>1, <2>3 DEF CreateImage, DeleteImage, OtherFrame, ActiveImageUser
  <2>. QED
    BY <1>20, <2>2, <2>3 DEF Handlers
<1>21. CASE UNCHANGED vars
  BY <1>21 DEF vars
<1>. QED
  BY <1>1, <1>2, <1>3, <1>4, <1>5, <1>6, <1>7, <1>8, <1>9, <1>10, <1>11,
     <1>12, <1>13, <1>14, <1>15, <1>16, <1>17, <1>18, <1>19, <1>20, <1>21
  DEF Next, Create, RunJob, Start

\* The row comes before the flag in cancel, the control before the claim in
\* run_job: one of the two always sees the other.
LEMMA CancelStep ==
  ASSUME TypeOK, CreatorInv, WorkerInv, CancelInv, [Next]_vars
  PROVE  CancelInv'
<1>. USE StatusNames, StepNames, JobServiceAssumption
     DEF TypeOK, RowsTypeOK, ProcessTypeOK, CancelInv,
         store, boot, creator, worker, host, cancelling
<1>1. ASSUME NEW j \in Jobs, CreateBegin(j) PROVE CancelInv'
  BY <1>1 DEF CreateBegin
<1>2. CASE CreateCheckVm
  BY <1>2 DEF CreateCheckVm, CreateReturn
<1>3. CASE CreateCheckImage
  BY <1>3 DEF CreateCheckImage, CreateReturn
<1>4. CASE CreateInsert
  BY <1>4 DEF CreateInsert, CreateReturn, DbError, CreatorInv
<1>5. CASE CreateSend
  BY <1>5 DEF CreateSend, CreateReturn, DbError
<1>6. ASSUME NEW j \in Jobs, CancelRow(j) PROVE CancelInv'
  BY <1>6 DEF CancelRow, RequestCancel, DbError
<1>7. ASSUME NEW j \in Jobs, CancelSignal(j) PROVE CancelInv'
  BY <1>7 DEF CancelSignal
<1>8. CASE Receive
  BY <1>8 DEF Receive
<1>9. CASE RegisterControl
  BY <1>9 DEF RegisterControl
<1>10. CASE Claim
  <2>1. /\ workerJob \in Jobs /\ workerStep = "registered"
        /\ UNCHANGED <<cancelRequested, cancelFlag, signalling, acknowledged>>
    BY <1>10 DEF Claim
  <2>2. CASE /\ Claimable(workerJob)
             /\ status' = [status EXCEPT ![workerJob] = "running"]
             /\ workerStep' \in {"claimed", "fallback"}
             /\ UNCHANGED <<controls, workerJob>>
    <3>1. workerJob \notin acknowledged \union signalling \union cancelFlag
      BY <2>1, <2>2 DEF Claimable
    <3>. QED
      BY <2>1, <2>2, <3>1
  <2>3. CASE UNCHANGED status /\ workerStep' \in {"idle", "fallback"}
    BY <2>1, <2>3
  <2>. QED
    BY <1>10, <2>2, <2>3 DEF Claim
<1>11. CASE Resolve
  BY <1>11 DEF Resolve
<1>12. CASE Install
  BY <1>12, InstallSteps DEF InstallFrame
<1>13. CASE Unregister
  BY <1>13 DEF Unregister
<1>14. CASE Finish
  BY <1>14 DEF Finish, Outcome, WorkerIdle, DbError, WorkerInv
<1>15. CASE Fallback
  BY <1>15 DEF Fallback, WorkerIdle, DbError
<1>16. CASE Crash
  BY <1>16 DEF Crash, CreateReturn, WorkerIdle
<1>17. CASE Restart
  BY <1>17 DEF Restart
<1>18. ASSUME NEW j \in Jobs, SendQueued(j) PROVE CancelInv'
  BY <1>18 DEF SendQueued
<1>19. CASE StartServing
  BY <1>19 DEF StartServing
<1>20. CASE Handlers
  BY <1>20, HandlerSteps DEF OtherFrame
<1>21. CASE UNCHANGED vars
  BY <1>21 DEF vars
<1>. QED
  BY <1>1, <1>2, <1>3, <1>4, <1>5, <1>6, <1>7, <1>8, <1>9, <1>10, <1>11,
     <1>12, <1>13, <1>14, <1>15, <1>16, <1>17, <1>18, <1>19, <1>20, <1>21
  DEF Next, Create, RunJob, Start

\* What sending an id adds to the channel.
LEMMA SendFacts ==
  ASSUME ChannelTypeOK, NEW j \in Jobs, channel' = Append(channel, j)
  PROVE  /\ \A i \in Jobs : InChannel(i)' <=> InChannel(i) \/ i = j
         /\ NoRepeats /\ ~InChannel(j) => NoRepeats'
<1>1. /\ Len(channel) \in Nat
      /\ Len(channel') = Len(channel) + 1
      /\ \A k \in 1..Len(channel) : channel'[k] = channel[k]
      /\ channel'[Len(channel) + 1] = j
  BY DEF ChannelTypeOK
<1>. QED
  BY <1>1 DEF InChannel, NoRepeats

\* What receiving the first id leaves in the channel.
LEMMA ReceiveFacts ==
  ASSUME ChannelTypeOK, NoRepeats, channel # << >>, channel' = Tail(channel)
  PROVE  /\ Head(channel) \in Jobs /\ InChannel(Head(channel))
         /\ \A i \in Jobs : InChannel(i)' <=> InChannel(i) /\ i # Head(channel)
         /\ NoRepeats'
<1>1. /\ Len(channel) \in Nat \ {0}
      /\ Len(channel') = Len(channel) - 1
      /\ \A k \in 1..Len(channel') : channel'[k] = channel[k + 1]
      /\ channel[1] = Head(channel)
      /\ Head(channel) \in Jobs
  BY DEF ChannelTypeOK
<1>2. NoRepeats' /\ InChannel(Head(channel))
  BY <1>1 DEF NoRepeats, InChannel
<1>3. ASSUME NEW i \in Jobs, InChannel(i), i # Head(channel)
      PROVE  InChannel(i)'
  <2>1. PICK k \in 1..Len(channel) : channel[k] = i
    BY <1>3 DEF InChannel
  <2>2. k - 1 \in 1..Len(channel') /\ channel'[k - 1] = i
    BY <1>1, <1>3, <2>1
  <2>. QED
    BY <2>2 DEF InChannel
<1>4. ASSUME NEW i \in Jobs, InChannel(i)'
      PROVE  InChannel(i) /\ i # Head(channel)
  BY <1>1, <1>4 DEF InChannel, NoRepeats
<1>. QED
  BY <1>1, <1>2, <1>3, <1>4

\* A job is on its way to a claim at one place only, with a row that fits.
LEMMA QueueStep ==
  ASSUME TypeOK, CreatorInv, WorkerInv, QueueInv, [Next]_vars
  PROVE  QueueInv'
<1>. USE StatusNames, StepNames, JobServiceAssumption
     DEF TypeOK, RowsTypeOK, ProcessTypeOK, QueueInv, Scheduled,
         store, boot, creator, worker, host, cancelling
<1>. DEFINE SameIds == (\A i \in Jobs : InChannel(i)' <=> InChannel(i)) /\ NoRepeats'
<1>0. UNCHANGED channel => SameIds
  BY DEF InChannel, NoRepeats, QueueInv
<1>. HIDE DEF SameIds
<1>1. ASSUME NEW j \in Jobs, CreateBegin(j) PROVE QueueInv'
  BY <1>0, <1>1 DEF CreateBegin, ResourceLockFree, CreatorInv, SameIds
<1>2. CASE CreateCheckVm
  BY <1>0, <1>2 DEF CreateCheckVm, CreateReturn, SameIds
<1>3. CASE CreateCheckImage
  BY <1>0, <1>3 DEF CreateCheckImage, CreateReturn, SameIds
<1>4. CASE CreateInsert
  <2>1. createJob \in Jobs /\ createStep = "imageFree" /\ status[createJob] = "absent"
    BY <1>4 DEF CreateInsert, CreatorInv
  <2>2. ~InChannel(createJob) /\ createJob \notin toSend
    BY <2>1
  <2>3. CASE UNCHANGED store /\ CreateReturn
    BY <1>4, <1>0, <2>3 DEF CreateInsert, CreateReturn, SameIds
  <2>4. CASE /\ status' = [status EXCEPT ![createJob] = "queued"]
             /\ createStep' = "inserted"
             /\ UNCHANGED createJob
    <3>1. createJob # workerJob
      BY <2>1 DEF WorkerInv
    <3>. QED
      BY <1>4, <1>0, <2>1, <2>2, <2>4, <3>1 DEF CreateInsert, SameIds
  <2>. QED
    BY <1>4, <2>3, <2>4 DEF CreateInsert
<1>5. CASE CreateSend
  <2>1. createJob \in Jobs
    BY <1>5 DEF CreateSend
  <2>2. CASE channel' = Append(channel, createJob)
    <3>1. /\ \A i \in Jobs : InChannel(i)' <=> InChannel(i) \/ i = createJob
          /\ NoRepeats'
      BY <1>5, <2>1, <2>2, SendFacts DEF CreateSend
    <3>2. /\ server = "up" /\ createJob # workerJob /\ createJob \notin toSend
          /\ status[createJob] \in {"queued", "cancelled"}
      BY <1>5, <2>1 DEF CreateSend, CreatorInv
    <3>. QED
      BY <1>5, <2>1, <3>1, <3>2 DEF CreateSend, CreateReturn
  <2>3. CASE UNCHANGED channel
    BY <1>5, <1>0, <2>3 DEF CreateSend, CreateReturn, SameIds
  <2>. QED
    BY <1>5, <2>2, <2>3 DEF CreateSend
<1>6. ASSUME NEW j \in Jobs, CancelRow(j) PROVE QueueInv'
  BY <1>0, <1>6 DEF CancelRow, RequestCancel, DbError, SameIds
<1>7. ASSUME NEW j \in Jobs, CancelSignal(j) PROVE QueueInv'
  BY <1>0, <1>7 DEF CancelSignal, SameIds
<1>8. CASE Receive
  BY <1>8, ReceiveFacts DEF Receive
<1>9. CASE RegisterControl
  BY <1>0, <1>9 DEF RegisterControl, SameIds
<1>10. CASE Claim
  BY <1>0, <1>10 DEF Claim, Claimable, DbError, SameIds
<1>11. CASE Resolve
  BY <1>0, <1>11 DEF Resolve, WorkerInv, SameIds
<1>12. CASE Install
  BY <1>0, <1>12, InstallSteps DEF InstallFrame, SameIds
<1>13. CASE Unregister
  BY <1>0, <1>13 DEF Unregister, SameIds
<1>14. CASE Finish
  <2>1. workerJob \in Jobs /\ status[workerJob] = "running"
    BY <1>14 DEF Finish, WorkerInv
  <2>2. \A i \in Jobs : Scheduled(i) => i # workerJob
    BY <1>14, <2>1 DEF Finish
  <2>3. \A i \in Jobs \ {workerJob} : status'[i] = status[i]
    BY <1>14 DEF Finish
  <2>4. CASE WorkerIdle
    BY <1>14, <1>0, <2>2, <2>3, <2>4 DEF Finish, WorkerIdle, SameIds
  <2>5. CASE workerStep' = "fallback" /\ UNCHANGED <<status, workerJob, owned>>
    BY <1>14, <1>0, <2>1, <2>5 DEF Finish, SameIds
  <2>. QED
    BY <1>14, <2>4, <2>5 DEF Finish
<1>15. CASE Fallback
  BY <1>0, <1>15 DEF Fallback, WorkerIdle, DbError, SameIds
<1>16. CASE Crash
  BY <1>0, <1>16 DEF Crash, CreateReturn, WorkerIdle, CreatorInv, InChannel, NoRepeats, SameIds
<1>17. CASE Restart
  <2>1. channel = << >> /\ ~\E i \in Jobs : InChannel(i)
    BY <1>17 DEF Restart, InChannel
  <2>2. createStep = "idle" /\ workerJob = NoJob
    BY <1>17 DEF Restart, CreatorInv, WorkerInv
  <2>. QED
    BY <1>17, <1>0, <2>1, <2>2 DEF Restart, SameIds
<1>18. ASSUME NEW j \in Jobs, SendQueued(j) PROVE QueueInv'
  <2>1. server # "down" /\ createStep = "idle" /\ ~InChannel(j)
    BY <1>18 DEF SendQueued, CreatorInv
  <2>. QED
    BY <1>18, <2>1, SendFacts DEF SendQueued
<1>19. CASE StartServing
  BY <1>0, <1>19 DEF StartServing, SameIds
<1>20. CASE Handlers
  BY <1>0, <1>20, HandlerSteps DEF OtherFrame, SameIds
<1>21. CASE UNCHANGED vars
  BY <1>0, <1>21 DEF vars, SameIds
<1>. QED
  BY <1>1, <1>2, <1>3, <1>4, <1>5, <1>6, <1>7, <1>8, <1>9, <1>10, <1>11,
     <1>12, <1>13, <1>14, <1>15, <1>16, <1>17, <1>18, <1>19, <1>20, <1>21
  DEF Next, Create, RunJob, Start

\* A row leaves the way to the worker only by being claimed or cancelled.
LEMMA StrandedStep ==
  ASSUME TypeOK, CreatorInv, WorkerInv, QueueInv, CancelInv, NothingStranded, [Next]_vars
  PROVE  NothingStranded'
<1>. USE StatusNames, StepNames, JobServiceAssumption
     DEF TypeOK, RowsTypeOK, ProcessTypeOK, NothingStranded, Scheduled, WorkedOn,
         store, boot, creator, worker, host, cancelling
<1>. DEFINE SameIds == \A i \in Jobs : InChannel(i)' <=> InChannel(i)
<1>0. UNCHANGED channel => SameIds
  BY DEF InChannel
<1>. HIDE DEF SameIds
<1>1. ASSUME NEW j \in Jobs, CreateBegin(j) PROVE NothingStranded'
  BY <1>0, <1>1 DEF CreateBegin, ResourceLockFree, SameIds
<1>2. CASE CreateCheckVm
  BY <1>0, <1>2 DEF CreateCheckVm, CreateReturn, SameIds
<1>3. CASE CreateCheckImage
  BY <1>0, <1>3 DEF CreateCheckImage, CreateReturn, SameIds
<1>4. CASE CreateInsert
  <2>1. createJob \in Jobs /\ status[createJob] = "absent"
    BY <1>4 DEF CreateInsert, CreatorInv
  <2>2. CASE DbError
    BY <1>4, <2>2 DEF DbError
  <2>3. CASE /\ status' = [status EXCEPT ![createJob] = "queued"]
             /\ createStep' = "inserted"
             /\ UNCHANGED <<cancelRequested, createJob, dbErrors>>
    BY <1>4, <1>0, <2>1, <2>3 DEF CreateInsert, SameIds
  <2>. QED
    BY <1>4, <2>2, <2>3 DEF CreateInsert
<1>5. CASE CreateSend
  <2>1. createJob \in Jobs
    BY <1>5 DEF CreateSend
  <2>2. CASE DbError
    BY <1>5, <2>2 DEF DbError
  <2>3. CASE channel' = Append(channel, createJob) /\ UNCHANGED dbErrors
    <3>1. \A i \in Jobs : InChannel(i)' <=> InChannel(i) \/ i = createJob
      BY <2>1, <2>3, SendFacts
    <3>. QED
      BY <1>5, <2>1, <2>3, <3>1 DEF CreateSend, CreateReturn
  <2>. QED
    BY <1>5, <2>2, <2>3 DEF CreateSend
<1>6. ASSUME NEW j \in Jobs, CancelRow(j) PROVE NothingStranded'
  BY <1>0, <1>6 DEF CancelRow, RequestCancel, DbError, SameIds
<1>7. ASSUME NEW j \in Jobs, CancelSignal(j) PROVE NothingStranded'
  BY <1>0, <1>7 DEF CancelSignal, SameIds
<1>8. CASE Receive
  <2>1. \A i \in Jobs : InChannel(i)' <=> InChannel(i) /\ i # workerJob'
    BY <1>8, ReceiveFacts DEF Receive, QueueInv
  <2>. QED
    BY <1>8, <2>1 DEF Receive
<1>9. CASE RegisterControl
  BY <1>0, <1>9 DEF RegisterControl, SameIds
<1>10. CASE Claim
  <2>1. /\ workerJob \in Jobs
        /\ UNCHANGED <<server, toSend, channel, createStep, createJob>>
    BY <1>10 DEF Claim
  <2>2. CASE DbError
    BY <2>2 DEF DbError
  <2>3. CASE /\ status' = [status EXCEPT ![workerJob] = "running"]
             /\ workerStep' = "claimed"
             /\ UNCHANGED <<dbErrors, workerJob>>
    BY <1>10, <1>0, <2>1, <2>3 DEF Claim, SameIds
  <2>4. CASE ~Claimable(workerJob) /\ UNCHANGED <<status, dbErrors>>
    <3>1. status[workerJob] \notin {"queued", "running"}
      BY <1>10, <2>1, <2>4 DEF Claim, Claimable, CancelInv, QueueInv
    <3>. QED
      BY <1>10, <1>0, <2>1, <2>4, <3>1 DEF Claim, SameIds
  <2>. QED
    BY <1>10, <2>2, <2>3, <2>4 DEF Claim
<1>11. CASE Resolve
  BY <1>0, <1>11 DEF Resolve, SameIds
<1>12. CASE Install
  BY <1>0, <1>12, InstallSteps DEF InstallFrame, SameIds
<1>13. CASE Unregister
  BY <1>0, <1>13 DEF Unregister, SameIds
<1>14. CASE Finish
  <2>1. workerJob \in Jobs /\ \A i \in Jobs \ {workerJob} : status'[i] = status[i]
    BY <1>14 DEF Finish
  <2>2. Outcome \notin {"queued", "running"}
    BY DEF Outcome
  <2>3. CASE DbError
    BY <2>3 DEF DbError
  <2>4. CASE WorkerIdle /\ UNCHANGED dbErrors /\ status'[workerJob] = Outcome
    BY <1>14, <1>0, <2>1, <2>2, <2>4 DEF Finish, WorkerIdle, SameIds
  <2>. QED
    BY <1>14, <2>1, <2>3, <2>4 DEF Finish
<1>15. CASE Fallback
  BY <1>0, <1>15 DEF Fallback, WorkerIdle, DbError, SameIds
<1>16. CASE Crash
  BY <1>0, <1>16 DEF Crash, CreateReturn, WorkerIdle, SameIds
<1>17. CASE Restart
  BY <1>0, <1>17 DEF Restart, QueueInv, WorkerInv, CreatorInv, SameIds
<1>18. ASSUME NEW j \in Jobs, SendQueued(j) PROVE NothingStranded'
  <2>1. \A i \in Jobs : InChannel(i)' <=> InChannel(i) \/ i = j
    BY <1>18, SendFacts DEF SendQueued
  <2>. QED
    BY <1>18, <2>1 DEF SendQueued
<1>19. CASE StartServing
  BY <1>0, <1>19 DEF StartServing, SameIds
<1>20. CASE Handlers
  BY <1>0, <1>20, HandlerSteps DEF OtherFrame, SameIds
<1>21. CASE UNCHANGED vars
  BY <1>0, <1>21 DEF vars, SameIds
<1>. QED
  BY <1>1, <1>2, <1>3, <1>4, <1>5, <1>6, <1>7, <1>8, <1>9, <1>10, <1>11,
     <1>12, <1>13, <1>14, <1>15, <1>16, <1>17, <1>18, <1>19, <1>20, <1>21
  DEF Next, Create, RunJob, Start

-----------------------------------------------------------------------------
(* The theorems.                                                             *)

\* The inductive invariant: what create has found, where the worker is, what a
\* cancellation has left and where each id waits hold one another up.
THEOREM Invariance == Spec => []IInv
<1>1. Init => IInv
  BY StatusNames, StepNames, TypeInit
     DEF Init, IInv, ReservationExclusive, WaitingFindsNothing, InstallKeepsItsResources,
         CreatorInv, WorkerInv, CancelInv, QueueInv, NothingStranded, NoRepeats,
         InChannel, Scheduled, Lifecycle!ReservesResources
<1>2. IInv /\ [Next]_vars => IInv'
  BY TypeStep, ReservationStep, HostStep, CreatorStep, WorkerStep, CancelStep,
     QueueStep, StrandedStep DEF IInv
<1>. QED
  BY <1>1, <1>2, PTL DEF Spec

\* Every variable keeps its type: a job id is a job wherever it is stored, the
\* create call and the worker have a job exactly while they are under way.
THEOREM TypeCorrect == Spec => []TypeOK
<1>. IInv => TypeOK
  BY DEF IInv
<1>. QED
  BY Invariance, PTL

\* No two accepted jobs ever ask for the same VM name or the same image.
THEOREM Exclusive == Spec => []ReservationExclusive
<1>. IInv => ReservationExclusive
  BY DEF IInv
<1>. QED
  BY Invariance, PTL

\* What create found free is still free when the installation gets to it.
THEOREM NothingInTheWay == Spec => []WaitingFindsNothing
<1>. IInv => WaitingFindsNothing
  BY DEF IInv
<1>. QED
  BY Invariance, PTL

\* No handler removes the disk or the VM of an installation under way.
THEOREM ResourcesKept == Spec => []InstallKeepsItsResources
<1>. IInv => InstallKeepsItsResources
  BY DEF IInv
<1>. QED
  BY Invariance, PTL

\* Without a failing database call no row waits for a worker that does not know
\* of it, before or after any number of crashes.
THEOREM NothingLost == Spec => []NothingStranded
<1>. IInv => NothingStranded
  BY DEF IInv
<1>. QED
  BY Invariance, PTL

\* After cancel has returned the worker creates and commits nothing for the job.
THEOREM CancelEffective == Spec => CancelStopsWork
<1>1. IInv /\ [Next]_vars
        => [\A j \in acknowledged : workerJob = j => owned' \subseteq owned]_vars
  <2>. SUFFICES ASSUME IInv, [Next]_vars, NEW j \in acknowledged, workerJob = j
                PROVE  owned' \subseteq owned
    OBVIOUS
  <2>1. /\ workerStep \in Polling => j \in cancelFlag
        /\ workerStep \in {"idle", "received", "registered"} => owned = {}
    BY StepNames DEF IInv, TypeOK, ProcessTypeOK, CancelInv, WorkerInv
  <2>2. CASE Install
    BY <2>1, <2>2, StepNames
       DEF Install, Plan, Preflight, CreateDisk, DefineVm, RunVirtInstall, CommitVm,
           VerifyGuest, StopInstall, RollbackVm, RollbackDisk, Proceed
  <2>3. CASE RunJob /\ ~Install
    BY <2>3 DEF RunJob, Receive, RegisterControl, Claim, Resolve, Unregister, Finish,
       Fallback, WorkerIdle, worker
  <2>4. CASE Create
    BY <2>4 DEF Create, CreateCheckVm, CreateCheckImage, CreateInsert, CreateSend, worker
  <2>5. CASE Crash \/ Start
    BY <2>5 DEF Crash, Start, Restart, SendQueued, StartServing, WorkerIdle, worker
  <2>6. CASE Handlers
    BY <2>6, HandlerSteps DEF OtherFrame, worker
  <2>7. CASE \E i \in Jobs : CreateBegin(i) \/ CancelRow(i) \/ CancelSignal(i)
    BY <2>7 DEF CreateBegin, CancelRow, CancelSignal, worker
  <2>8. CASE UNCHANGED vars
    BY <2>8 DEF vars, worker
  <2>. QED
    BY <2>2, <2>3, <2>4, <2>5, <2>6, <2>7, <2>8 DEF Next
<1>. QED
  BY <1>1, Invariance, PTL DEF CancelStopsWork, Spec

\* A job is only reported as succeeded while its VM and its disk are there.
THEOREM SuccessIsReal == Spec => SucceededIsInstalled
<1>1. IInv /\ [Next]_vars
        => [\A j \in Jobs :
              status[j] # "succeeded" /\ status'[j] = "succeeded" =>
                VmName[j] \in vms /\ ImageId[j] \in images]_vars
  <2>. SUFFICES ASSUME IInv, [Next]_vars, NEW j \in Jobs,
                       status[j] # "succeeded", status'[j] = "succeeded"
                PROVE  VmName[j] \in vms /\ ImageId[j] \in images
    OBVIOUS
  <2>. USE DEF IInv, TypeOK, RowsTypeOK, store
  <2>1. CASE Finish
    <3>1. status'[workerJob] = Outcome /\ j = workerJob
      BY <2>1 DEF Finish
    <3>2. workerStep = "finishSucceeded"
      BY <3>1 DEF Outcome
    <3>. QED
      BY <3>1, <3>2 DEF WorkerInv, InstallKeepsItsResources
  <2>2. CASE CreateInsert \/ Claim \/ Fallback \/ Restart
    BY <2>2 DEF CreateInsert, Claim, Fallback, Restart
  <2>3. CASE \E i \in Jobs : CancelRow(i)
    BY <2>3 DEF CancelRow, RequestCancel
  <2>. QED
    BY <2>1, <2>2, <2>3, RowSteps
<1>. QED
  BY <1>1, Invariance, PTL DEF SucceededIsInstalled, Spec

\* What an interrupted job may have left behind is not removed before somebody
\* cancels the job.
THEOREM UncertainKept == Spec => UncertainResourcesKept
<1>1. IInv /\ [Next]_vars
        => [\A j \in Jobs :
              status[j] = "interrupted" /\ status'[j] = "interrupted" =>
                /\ ImageId[j] \in images => ImageId[j] \in images'
                /\ VmName[j] \in vms => VmName[j] \in vms']_vars
  <2>. SUFFICES ASSUME IInv, [Next]_vars, NEW j \in Jobs, status[j] = "interrupted"
                PROVE  /\ ImageId[j] \in images => ImageId[j] \in images'
                       /\ VmName[j] \in vms => VmName[j] \in vms'
    OBVIOUS
  <2>1. CASE Install
    <3>1. /\ workerJob \in Jobs /\ workerJob # j
          /\ VmName[workerJob] # VmName[j] /\ ImageId[workerJob] # ImageId[j]
      <4>1. workerJob \in Jobs /\ status[workerJob] = "running"
        BY <2>1, InstallSteps, StepNames DEF IInv, TypeOK, ProcessTypeOK, WorkerInv
      <4>. QED
        BY <4>1, StatusNames
           DEF IInv, ReservationExclusive, Lifecycle!ReservesResources, Lifecycle!Overlap
    <3>. QED
      BY <2>1, <3>1 DEF Install, Plan, Preflight, CreateDisk, DefineVm, RunVirtInstall,
         CommitVm, VerifyGuest, StopInstall, RollbackVm, RollbackDisk, host
  <2>2. CASE Handlers
    BY <2>2, StatusNames DEF Handlers, CreateVm, UndefineVm, CreateImage, DeleteImage,
       ActiveResourceUser, ActiveImageUser
  <2>3. CASE RunJob /\ ~Install
    BY <2>3 DEF RunJob, Receive, RegisterControl, Claim, Resolve, Unregister, Finish,
       Fallback, host
  <2>4. CASE Create
    BY <2>4 DEF Create, CreateCheckVm, CreateCheckImage, CreateInsert, CreateSend, host
  <2>5. CASE Crash \/ Start
    BY <2>5 DEF Crash, Start, Restart, SendQueued, StartServing, host
  <2>6. CASE \E i \in Jobs : CreateBegin(i) \/ CancelRow(i) \/ CancelSignal(i)
    BY <2>6 DEF CreateBegin, CancelRow, CancelSignal, host
  <2>7. CASE UNCHANGED vars
    BY <2>7 DEF vars, host
  <2>. QED
    BY <2>1, <2>2, <2>3, <2>4, <2>5, <2>6, <2>7 DEF Next
<1>. QED
  BY <1>1, Invariance, PTL DEF UncertainResourcesKept, Spec

\* The table moves only along the edges of the lifecycle.
THEOREM Implementation == Spec => ImplementsLifecycle
<1>1. Init => Lifecycle!Init
  BY DEF Init, Lifecycle!Init
<1>2. IInv /\ [Next]_vars => [Lifecycle!Next]_(Lifecycle!vars)
  <2>. SUFFICES ASSUME IInv, [Next]_vars
                PROVE  [Lifecycle!Next]_(Lifecycle!vars)
    OBVIOUS
  <2>. USE StatusNames, StepNames DEF IInv, TypeOK, RowsTypeOK, ProcessTypeOK, store
  <2>1. CASE UNCHANGED store
    BY <2>1 DEF Lifecycle!vars
  <2>2. CASE CreateInsert
    <3>1. createJob \in Jobs
      BY <2>2 DEF CreateInsert
    <3>2. Lifecycle!Accept(createJob) \/ UNCHANGED store
      BY <2>2, <3>1 DEF CreateInsert, CreatorInv, Lifecycle!Accept
    <3>. QED
      BY <2>1, <3>1, <3>2 DEF Lifecycle!Next
  <2>3. CASE Claim
    <3>1. workerJob \in Jobs
      BY <2>3 DEF Claim
    <3>2. Lifecycle!Begin(workerJob) \/ UNCHANGED store
      BY <2>3, <3>1 DEF Claim, Claimable, Lifecycle!Begin
    <3>. QED
      BY <2>1, <3>1, <3>2 DEF Lifecycle!Next
  <2>4. CASE Finish
    <3>1. workerJob \in Jobs /\ status[workerJob] = "running"
      BY <2>4 DEF Finish, WorkerInv
    <3>2. Outcome \in {"succeeded", "failed", "cancelled"}
          /\ (Outcome = "cancelled" => workerJob \in cancelRequested)
      BY <2>4, <3>1 DEF Outcome, CancelInv
    <3>3. Lifecycle!End(workerJob) \/ UNCHANGED store
      BY <2>4, <3>1, <3>2 DEF Finish, Lifecycle!End
    <3>. QED
      BY <2>1, <3>1, <3>3 DEF Lifecycle!Next
  <2>5. CASE Fallback
    <3>1. workerJob \in Jobs /\ status[workerJob] \in {"queued", "cancelled", "running"}
      BY <2>5 DEF Fallback, QueueInv
    <3>2. CASE status' = [status EXCEPT ![workerJob] = "failed"]
      BY <2>5, <3>1, <3>2
         DEF Fallback, Lifecycle!Next, Lifecycle!End, Lifecycle!Abandon
    <3>. QED
      BY <2>1, <2>5, <3>2 DEF Fallback
  <2>6. CASE Restart
    BY <2>6 DEF Restart, Lifecycle!Next, Lifecycle!Interrupt
  <2>7. ASSUME NEW j \in Jobs, CancelRow(j) PROVE [Lifecycle!Next]_(Lifecycle!vars)
    <3>1. CASE status[j] \in Lifecycle!Reserving
      <4>1. \/ status[j] = "running" /\ status' = [status EXCEPT ![j] = "running"]
            \/ status[j] # "running" /\ status' = [status EXCEPT ![j] = "cancelled"]
        BY <2>7, <3>1 DEF CancelRow, RequestCancel
      <4>2. Lifecycle!Cancel(j)
        BY <2>7, <3>1, <4>1
           DEF CancelRow, RequestCancel, Lifecycle!Cancel, Lifecycle!ReservesResources
      <4>. QED
        BY <4>2 DEF Lifecycle!Next
    <3>2. CASE status[j] \notin Lifecycle!Reserving
      BY <2>1, <2>7, <3>2 DEF CancelRow, RequestCancel
    <3>. QED
      BY <3>1, <3>2
  <2>. QED
    BY <2>1, <2>2, <2>3, <2>4, <2>5, <2>6, <2>7, RowSteps
<1>. QED
  BY <1>1, <1>2, Invariance, PTL DEF ImplementsLifecycle, Lifecycle!Spec, Spec

=============================================================================
