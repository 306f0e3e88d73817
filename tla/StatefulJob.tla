----------------------------- MODULE StatefulJob ----------------------------
(***************************************************************************)
(* The StatefulJob controller: at an interval it restores a volume claim   *)
(* from the most recent VolumeSnapshot and runs a job on it.  The job, the *)
(* claim and the StatefulJob have one name.  What the controller knows of  *)
(* earlier jobs is status.jobHistory.                                      *)
(*                                                                         *)
(* The controller reads jobs and the StatefulJob through informers that    *)
(* may lag, and writes to the API server.  Only it writes the status, and  *)
(* a write made from a stale copy is refused.                              *)
(***************************************************************************)
EXTENDS Integers, Sequences

CONSTANTS
    Interval,     \* spec.interval
    HistorySize,  \* how many jobs the history keeps (maxSize)
    Faulty,       \* TRUE: API calls may fail until the server heals
    MaxTime       \* bound on the time

ASSUME ConstantsAssumption ==
    /\ Interval \in Nat \ {0}
    /\ HistorySize \in Nat \ {0}
    /\ Faulty \in BOOLEAN
    /\ MaxTime \in Nat \ {0}

VARIABLES
    now,         \* the time
    job,         \* the Job
    claim,       \* its PersistentVolumeClaim
    history,     \* status.jobHistory: start times, 0: none yet
    seenJob,     \* whether the informer shows the job, and its start time
    seenHistory, \* the history of the informer's StatefulJob
    crdFresh,    \* whether the informer's StatefulJob is the latest
    snapshot,    \* whether a VolumeSnapshot is ready to use
    apiHealthy,  \* API calls no longer fail
    missingCRD,  \* missingVolSnapshotCRD: no VolumeSnapshots at the start
    used         \* history: a pod has run on the claim

informerVars == <<seenJob, seenHistory, crdFresh>>
worldVars == <<now, snapshot, apiHealthy, missingCRD>>
vars == <<now, job, claim, history, seenJob, seenHistory, crdFresh, snapshot,
          apiHealthy, missingCRD, used>>

Times == 1..MaxTime

Starts == {0} \cup Times

Jobs == [phase: {"none", "created", "running", "finished"}, start: Starts]

NoJob == [phase |-> "none", start |-> 0]

NewJob == [phase |-> "created", start |-> 0]

SeenJobs == [found: BOOLEAN, start: Starts]

JobShown == [found |-> job.phase # "none", start |-> job.start]

Init ==
    /\ now = 1
    /\ job = NoJob
    /\ claim = "none"
    /\ history = << >>
    /\ seenJob = JobShown
    /\ seenHistory = history
    /\ crdFresh = TRUE
    /\ snapshot = FALSE
    /\ apiHealthy = ~Faulty
    /\ missingCRD \in BOOLEAN
    /\ used = FALSE

-----------------------------------------------------------------------------
(***************************************************************************)
(* Pure helpers.                                                           *)
(***************************************************************************)

(* Mutant: keeps one entry too many.                                       *)
AddJobStatusMore(list) ==
    LET longer == <<0>> \o list
    IN  IF Len(list) > HistorySize THEN SubSeq(longer, 1, HistorySize)
        ELSE longer

(* Mutant: appends at the end and keeps the oldest entries.                *)
AddJobStatusLast(list) ==
    LET longer == Append(list, 0)
    IN  IF Len(longer) > HistorySize THEN SubSeq(longer, 1, HistorySize)
        ELSE longer

(* At the head, without a start time yet.                                  *)
AddJobStatus(list) ==
    LET longer == <<0>> \o list
    IN  IF Len(longer) > HistorySize THEN SubSeq(longer, 1, HistorySize)
        ELSE longer

(* The status of the head; nothing if there is none.                       *)
UpdateJobStatus(list, start) ==
    IF list = << >> THEN list ELSE [list EXCEPT ![1] = start]

(* Mutant: the interval counts from the oldest entry.                      *)
ReadyFromOldest(list) ==
    IF list = << >> THEN TRUE ELSE now - list[Len(list)] >= Interval

(* Evaluated only where the head has a start time, see StartTimeMissing.   *)
ReadyForSnapshot(list) ==
    IF list = << >> THEN TRUE ELSE now - Head(list) >= Interval

(* The start time of the head is a nil pointer.                            *)
StartTimeMissing(list) == IF list = << >> THEN FALSE ELSE Head(list) = 0

-----------------------------------------------------------------------------
(***************************************************************************)
(* Reconcile.  It takes no notice of anything that happens while it runs,  *)
(* and may fail at each call, or be stopped there by a restart.  Without   *)
(* the VolumeSnapshot CRDs it returns at once, before the deferred update. *)
(***************************************************************************)
Reconciling ==
    /\ ~missingCRD
    /\ UNCHANGED <<worldVars, seenJob, seenHistory>>

(* The deferred update: an error is logged.  An update that changes        *)
(* nothing makes no new version.                                           *)
UpdateStatus(list) ==
    \/ /\ crdFresh
       /\ history' = list
       /\ crdFresh' = (list = history)
    \/ /\ ~crdFresh \/ ~apiHealthy
       /\ UNCHANGED <<history, crdFresh>>

(* Mutant: a delete that only forgets the claim.                           *)
DeletePVCsNever == UNCHANGED claim

(* Delete of the claim: it stays while a pod uses it, and for a moment.    *)
DeletePVCs ==
    \/ claim' = IF claim = "none" THEN "none" ELSE "deleting"
    \/ ~apiHealthy /\ UNCHANGED claim

(* The job is there, in any state.                                         *)
ReconcileActive ==
    /\ Reconciling
    /\ seenJob.found
    /\ UpdateStatus(UpdateJobStatus(seenHistory, seenJob.start))
    /\ UNCHANGED <<job, claim, used>>

(* It is not time yet, or the error of finding no snapshot.                *)
ReconcileIdle ==
    /\ Reconciling
    /\ ~seenJob.found
    /\ ~StartTimeMissing(seenHistory)
    /\ ~ReadyForSnapshot(seenHistory) \/ ~snapshot
    /\ DeletePVCs
    /\ UpdateStatus(seenHistory)
    /\ UNCHANGED <<job, used>>

(* It is time to create the claim and the job.                             *)
Creating ==
    /\ Reconciling
    /\ ~seenJob.found
    /\ ~StartTimeMissing(seenHistory)
    /\ ReadyForSnapshot(seenHistory) /\ snapshot

(* createResources that ends with an error: the claim or the job is still  *)
(* there, or a call fails.  A Create that fails may have taken effect, of  *)
(* the claim or of the job; then the job is there and not recorded.        *)
CreateFails ==
    /\ Creating
    /\ \/ /\ claim # "none"
          /\ DeletePVCs
          /\ UNCHANGED <<job, used>>
       \/ /\ claim = "none" /\ ~apiHealthy
          /\ UNCHANGED <<claim, job, used>>
       \/ /\ claim = "none" /\ (job.phase # "none" \/ ~apiHealthy)
          /\ claim' = "present"
          /\ used' = FALSE
          /\ UNCHANGED job
       \/ /\ claim = "none" /\ job.phase = "none" /\ ~apiHealthy
          /\ claim' = "present"
          /\ used' = FALSE
          /\ job' = NewJob
    /\ UpdateStatus(seenHistory)

(* Mutant: a claim that is still there counts as created.                  *)
CreateResourcesReusing ==
    /\ Creating
    /\ claim' = "present"
    /\ used' = (claim # "none" /\ used)
    /\ job.phase = "none"
    /\ job' = NewJob
    /\ UpdateStatus(AddJobStatus(seenHistory))

(* createResources: both are created, and the history gets a new head.     *)
CreateResources ==
    /\ Creating
    /\ claim = "none"
    /\ claim' = "present"
    /\ used' = FALSE
    /\ job.phase = "none"
    /\ job' = NewJob
    /\ UpdateStatus(AddJobStatus(seenHistory))

(* The process starts anew and its informers list.                         *)
InformersList ==
    /\ seenJob' = JobShown
    /\ seenHistory' = history
    /\ crdFresh' = TRUE

(* The nil pointer: the claim has been deleted already, the process ends,  *)
(* and the status is written as it was.                                    *)
ReconcilePanics ==
    /\ ~missingCRD
    /\ ~seenJob.found
    /\ StartTimeMissing(seenHistory)
    /\ DeletePVCs
    /\ InformersList
    /\ UNCHANGED <<worldVars, job, history, used>>

Reconcile ==
    \/ ReconcileActive
    \/ ReconcileIdle
    \/ CreateFails
    \/ CreateResources
    \/ ReconcilePanics

-----------------------------------------------------------------------------
(***************************************************************************)
(* The world around the controller.                                        *)
(***************************************************************************)
OperatorRestarts ==
    /\ ~(crdFresh /\ seenJob = JobShown)
    /\ InformersList
    /\ UNCHANGED <<worldVars, job, claim, history, used>>

(* The process starts anew once the CRDs are installed.                    *)
InstallCRDs ==
    /\ missingCRD
    /\ missingCRD' = FALSE
    /\ InformersList
    /\ UNCHANGED <<now, snapshot, apiHealthy, job, claim, history, used>>

JobInformerSync ==
    /\ seenJob # JobShown
    /\ seenJob' = JobShown
    /\ UNCHANGED <<worldVars, job, claim, history, seenHistory, crdFresh,
                   used>>

CRDInformerSync ==
    /\ ~crdFresh
    /\ seenHistory' = history
    /\ crdFresh' = TRUE
    /\ UNCHANGED <<worldVars, job, claim, history, seenJob, used>>

(* The job controller sets the start time; the pod waits for its claim.    *)
JobStarts ==
    /\ job.phase = "created"
    /\ job.start = 0
    /\ job' = [job EXCEPT !.start = now]
    /\ UNCHANGED <<worldVars, claim, history, informerVars, used>>

PodRuns ==
    /\ job.phase = "created"
    /\ job.start # 0
    /\ claim = "present"
    /\ job' = [job EXCEPT !.phase = "running"]
    /\ used' = TRUE
    /\ UNCHANGED <<worldVars, claim, history, informerVars>>

(* It completes, fails, or meets its deadline.                             *)
JobFinishes ==
    /\ job.phase \in {"created", "running"}
    /\ job.start # 0
    /\ job' = [job EXCEPT !.phase = "finished"]
    /\ UNCHANGED <<worldVars, claim, history, informerVars, used>>

(* The TTL of a finished job is over, or a user deletes it before.         *)
JobDeleted ==
    /\ job.phase # "none"
    /\ job' = NoJob
    /\ UNCHANGED <<worldVars, claim, history, informerVars, used>>

ClaimGone ==
    /\ claim = "deleting"
    /\ job.phase # "running"
    /\ claim' = "none"
    /\ UNCHANGED <<worldVars, job, history, informerVars, used>>

SnapshotReady ==
    /\ ~snapshot
    /\ snapshot' = TRUE
    /\ UNCHANGED <<now, apiHealthy, missingCRD, job, claim, history, informerVars, used>>

APIServerHeals ==
    /\ ~apiHealthy
    /\ apiHealthy' = TRUE
    /\ UNCHANGED <<now, snapshot, missingCRD, job, claim, history, informerVars, used>>

Tick ==
    /\ now < MaxTime
    /\ now' = now + 1
    /\ UNCHANGED <<snapshot, apiHealthy, missingCRD, job, claim, history, informerVars,
                   used>>

JobLifecycle == JobStarts \/ PodRuns \/ JobFinishes

Next ==
    \/ Reconcile
    \/ OperatorRestarts
    \/ InstallCRDs
    \/ JobInformerSync
    \/ CRDInformerSync
    \/ JobLifecycle
    \/ JobDeleted
    \/ ClaimGone
    \/ SnapshotReady
    \/ APIServerHeals
    \/ Tick

Spec == Init /\ [][Next]_vars

(***************************************************************************)
(* Reconcile is requeued, the informers catch up, jobs start, end and are  *)
(* cleaned up, deleted claims go, API errors end, snapshots get ready and  *)
(* time passes.                                                            *)
(***************************************************************************)
Fairness ==
    /\ WF_vars(Reconcile)
    /\ WF_vars(JobInformerSync)
    /\ WF_vars(CRDInformerSync)
    /\ WF_vars(JobLifecycle)
    /\ WF_vars(job.phase = "finished" /\ JobDeleted)
    /\ WF_vars(ClaimGone)
    /\ WF_vars(SnapshotReady)
    /\ WF_vars(APIServerHeals)
    /\ WF_vars(Tick)

FairSpec == Spec /\ Fairness

-----------------------------------------------------------------------------
(***************************************************************************)
(* Properties                                                              *)
(***************************************************************************)

(* Every variable keeps its type, and the history its size.                *)
TypeOK ==
    /\ now \in Times
    /\ job \in Jobs
    /\ claim \in {"none", "present", "deleting"}
    /\ history \in Seq(Starts) /\ Len(history) <= HistorySize
    /\ seenJob \in SeenJobs
    /\ seenHistory \in Seq(Starts) /\ Len(seenHistory) <= HistorySize
    /\ {crdFresh, snapshot, apiHealthy, missingCRD, used} \subseteq BOOLEAN

(* "JobHistory should always have most recent first": the start times      *)
(* never go up from an entry to the next, older one, and only the head may *)
(* have none, whatever writes were lost.                                   *)
HistorySorted ==
    \A i, j \in DOMAIN history : i < j =>
        /\ history[j] # 0
        /\ history[i] # 0 => history[i] >= history[j]

(* The start times recorded are an interval apart: a lost status write, a  *)
(* stale copy or a job created without a record makes a job come too early *)
(* only where its start takes the place of an entry, never beside one.     *)
HistorySpaced ==
    \A i, j \in DOMAIN history :
        i < j /\ history[i] # 0 => history[i] >= history[j] + Interval

(* "Delete any existing PVCs so we can create new ones": a job's pod gets  *)
(* a claim restored for it, never one a pod of an earlier job has run on,  *)
(* although the Delete may fail and a claim outlives it for a while.       *)
ClaimUsedOnceStep ==
    (job.phase = "created" /\ job'.phase = "running") => ~used

ClaimUsedOnce == [][ClaimUsedOnceStep]_vars

(* By what is recorded, a job is due.                                      *)
Due == ~StartTimeMissing(history) /\ ReadyForSnapshot(history)

(* When the interval since the last recorded start is over, or there is no *)
(* record, there will be a job, whatever fails on the way, or the record   *)
(* of a job that was due has been made late; provided the CRDs were there  *)
(* when the process started.                                               *)
DueJobRuns == (Due /\ ~missingCRD) ~> (job.phase # "none" \/ ~Due)

=============================================================================
