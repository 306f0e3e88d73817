------------------------- MODULE StatefulJob_proofs -------------------------
(***************************************************************************)
(* The safety of the StatefulJob controller for any interval, history size *)
(* and time.                                                               *)
(*                                                                         *)
(* The recorded starts stay an interval apart because a new head is only   *)
(* added when the informer shows no job: what it shows later is the job of *)
(* that head or a later one, and starts an interval after every older      *)
(* entry (Older).  A job has a claim of its own because createResources    *)
(* takes no claim that is there, so that no pod has run on the claim of a  *)
(* job whose own has not (Untouched).                                      *)
(***************************************************************************)
EXTENDS StatefulJob, SequenceTheorems, TLAPS

Lists == {l \in Seq(Starts) : Len(l) <= HistorySize}

(* Types, the informer's StatefulJob, and nothing is recorded that has not *)
(* happened yet.                                                           *)
Basics ==
    /\ TypeOK
    /\ crdFresh => seenHistory = history
    /\ \A k \in 1..Len(history) : history[k] <= now
    /\ job.start <= now /\ seenJob.start <= now

(* The entries of a list are an interval apart, and only the head may have *)
(* no start time.                                                          *)
Spaced(list) ==
    \A i, j \in 1..Len(list) : i < j =>
        /\ list[j] # 0
        /\ list[i] # 0 => list[i] >= list[j] + Interval

(* The job and the one shown started an interval after every entry of the  *)
(* history but the head, and so will any later one.                        *)
Older ==
    \A k \in 2..Len(history) :
        /\ history[k] + Interval <= now
        /\ job.start # 0 => history[k] + Interval <= job.start
        /\ seenJob.found /\ seenJob.start # 0 =>
              history[k] + Interval <= seenJob.start

(* No pod has run on the claim of a job whose pod has not.                 *)
Untouched == job.phase = "created" => ~used

Inv == Basics /\ Spaced(history) /\ Older /\ Untouched

-----------------------------------------------------------------------------
(***************************************************************************)
(* Lists of jobs.                                                          *)
(***************************************************************************)

(* The assumption on the constants, and the times it gives.                *)
LEMMA ConstantTypes ==
    /\ Interval \in Nat \ {0} /\ HistorySize \in Nat \ {0} /\ MaxTime \in Nat \ {0}
    /\ Starts \subseteq Nat /\ 0 \in Starts /\ Times \subseteq Starts
BY ConstantsAssumption DEF Times, Starts

(* A list of jobs is a sequence of start times.                            *)
LEMMA ListType ==
    ASSUME NEW list \in Lists
    PROVE  /\ Len(list) \in Nat /\ Len(list) <= HistorySize
           /\ DOMAIN list = 1..Len(list)
           /\ \A k \in 1..Len(list) : list[k] \in Starts
           /\ list = << >> <=> Len(list) = 0
BY LenProperties, ElementOfSeq, EmptySeq DEF Lists

(* AddJobStatus puts an entry without a start time before the others, of   *)
(* which the oldest may fall off.                                          *)
LEMMA AddJobStatusList ==
    ASSUME NEW list \in Lists
    PROVE  LET added == AddJobStatus(list)
           IN  /\ added \in Lists
               /\ Len(added) > 0 /\ Len(added) <= Len(list) + 1
               /\ added[1] = 0
               /\ \A k \in 2..Len(added) : added[k] = list[k - 1]
<1> DEFINE longer == <<0>> \o list
<1>1. Len(list) \in Nat /\ Len(list) <= HistorySize /\ list \in Seq(Starts)
  BY ListType DEF Lists
<1>2. <<0>> \in Seq(Starts) /\ Len(<<0>>) = 1 /\ <<0>>[1] = 0
  BY ConstantTypes
<1>3. /\ longer \in Seq(Starts)
      /\ Len(longer) = 1 + Len(list)
      /\ \A k \in 1..(1 + Len(list)) :
            longer[k] = IF k <= 1 THEN <<0>>[k] ELSE list[k - 1]
  BY <1>1, <1>2, ConcatProperties
<1>4. longer[1] = 0 /\ \A k \in 2..(1 + Len(list)) : longer[k] = list[k - 1]
  BY <1>1, <1>2, <1>3
<1>5. CASE Len(longer) > HistorySize
  <2> DEFINE added == SubSeq(longer, 1, HistorySize)
  <2>1. \A k \in 1..HistorySize : longer[k] \in Starts
    BY <1>1, <1>3, <1>5, ElementOfSeq, ConstantTypes
  <2>2. /\ added \in Seq(Starts) /\ Len(added) = HistorySize
        /\ \A k \in 1..HistorySize : added[k] = longer[k]
    <3> HIDE DEF longer
    <3> QED BY <1>1, <1>3, <1>5, <2>1, ConstantTypes
  <2>3. AddJobStatus(list) = added
    BY <1>5 DEF AddJobStatus
  <2> HIDE DEF longer, added
  <2> QED BY <1>1, <1>3, <1>4, <1>5, <2>2, <2>3, ConstantTypes DEF Lists
<1>6. CASE ~(Len(longer) > HistorySize)
  <2>1. AddJobStatus(list) = longer
    BY <1>6 DEF AddJobStatus
  <2> HIDE DEF longer
  <2> QED BY <1>1, <1>3, <1>4, <1>6, <2>1, ConstantTypes DEF Lists
<1> QED BY <1>5, <1>6

(* UpdateJobStatus replaces the head.                                      *)
LEMMA UpdateJobStatusList ==
    ASSUME NEW list \in Lists, NEW start \in Starts
    PROVE  LET updated == UpdateJobStatus(list, start)
           IN  /\ updated \in Lists
               /\ Len(updated) = Len(list)
               /\ Len(list) > 0 => updated[1] = start
               /\ \A k \in 2..Len(list) : updated[k] = list[k]
<1>1. CASE list = << >>
  BY <1>1, ListType DEF UpdateJobStatus
<1>2. CASE list # << >>
  <2>1. Len(list) \in Nat /\ 1 \in 1..Len(list) /\ list \in Seq(Starts)
    BY <1>2, ListType DEF Lists
  <2>2. UpdateJobStatus(list, start) = [list EXCEPT ![1] = start]
    BY <1>2 DEF UpdateJobStatus
  <2>3. /\ [list EXCEPT ![1] = start] \in Seq(Starts)
        /\ Len([list EXCEPT ![1] = start]) = Len(list)
        /\ \A j \in 1..Len(list) :
              [list EXCEPT ![1] = start][j] = IF j = 1 THEN start ELSE list[j]
    BY <2>1, ExceptSeq
  <2> QED BY <2>1, <2>2, <2>3 DEF Lists
<1> QED BY <1>1, <1>2

(* What the head says of the next job.                                     *)
LEMMA HeadOfList ==
    ASSUME NEW list \in Lists
    PROVE  /\ StartTimeMissing(list) <=> Len(list) > 0 /\ list[1] = 0
           /\ ReadyForSnapshot(list) <=> Len(list) = 0 \/ now - list[1] >= Interval
<1>1. list = << >> <=> Len(list) = 0
  BY ListType
<1>2. Len(list) \in Nat /\ (list # << >> => Head(list) = list[1])
  BY ListType DEF Lists
<1> QED BY <1>1, <1>2 DEF StartTimeMissing, ReadyForSnapshot

-----------------------------------------------------------------------------
(***************************************************************************)
(* The invariant is inductive.                                             *)
(***************************************************************************)

(* What the types say, with the lists as lists.                            *)
LEMMA TypesOfBasics ==
    ASSUME Basics
    PROVE  /\ now \in Times /\ now \in Nat /\ job \in Jobs
           /\ claim \in {"none", "present", "deleting"}
           /\ history \in Lists /\ seenHistory \in Lists
           /\ seenJob \in SeenJobs
           /\ crdFresh \in BOOLEAN /\ snapshot \in BOOLEAN
           /\ apiHealthy \in BOOLEAN /\ missingCRD \in BOOLEAN /\ used \in BOOLEAN
           /\ job.start \in Nat /\ seenJob.start \in Nat /\ seenJob.start \in Starts
BY ConstantTypes DEF Basics, TypeOK, Lists, Jobs, SeenJobs, Times

(* What the informer is going to show of the job.                          *)
LEMMA ShownType ==
    ASSUME Basics
    PROVE  /\ JobShown \in SeenJobs /\ JobShown.start = job.start
           /\ JobShown.found <=> job.phase # "none"
BY TypesOfBasics DEF JobShown, Jobs, SeenJobs

(* The invariant holds at first.                                           *)
LEMMA InvInit == Init => Inv
<1> SUFFICES ASSUME Init PROVE Inv
  OBVIOUS
<1>1. NoJob \in Jobs /\ NoJob.start = 0 /\ NoJob.phase = "none"
  BY ConstantTypes DEF NoJob, Jobs
<1>2. seenJob \in SeenJobs /\ seenJob.start = 0 /\ ~seenJob.found
  BY <1>1, ConstantTypes DEF Init, JobShown, SeenJobs
<1>3. history = << >> /\ seenHistory = << >> /\ << >> \in Seq(Starts) /\ Len(<< >>) = 0
  BY EmptySeq DEF Init
<1>4. now = 1 /\ now \in Times
  BY ConstantTypes DEF Init, Times
<1>5. {crdFresh, snapshot, apiHealthy, missingCRD, used} \subseteq BOOLEAN
  BY ConstantsAssumption DEF Init
<1>6. TypeOK
  BY <1>1, <1>2, <1>3, <1>4, <1>5, ConstantTypes DEF Init, TypeOK
<1>7. Basics
  BY <1>1, <1>2, <1>3, <1>4, <1>6 DEF Init, Basics
<1>8. Spaced(history) /\ Older /\ Untouched
  BY <1>1, <1>3 DEF Init, Spaced, Older, Untouched
<1> QED BY <1>7, <1>8 DEF Inv

(* The write of a list leaves a list in the history, all of it past.       *)
LEMMA WriteKeepsBasics ==
    ASSUME Basics, NEW list \in Lists,
           crdFresh => \A k \in 1..Len(list) : list[k] <= now,
           UpdateStatus(list), UNCHANGED <<worldVars, seenJob, seenHistory>>,
           claim' \in {"none", "present", "deleting"},
           job' \in Jobs, job'.start <= now, used' \in BOOLEAN
    PROVE  Basics'
<1>1. UNCHANGED <<now, snapshot, apiHealthy, missingCRD, seenJob, seenHistory>>
  BY DEF worldVars
<1>2. /\ history' \in Lists /\ crdFresh' \in BOOLEAN
      /\ \A k \in 1..Len(history') : history'[k] <= now
      /\ crdFresh' => seenHistory = history'
  <2>1. CASE crdFresh /\ history' = list /\ crdFresh' = (list = history)
    BY <2>1, TypesOfBasics DEF Basics
  <2>2. CASE UNCHANGED <<history, crdFresh>>
    BY <2>2, TypesOfBasics DEF Basics
  <2> QED BY <2>1, <2>2 DEF UpdateStatus
<1>3. TypeOK'
  BY <1>1, <1>2, TypesOfBasics DEF TypeOK, Lists
<1> QED BY <1>1, <1>2, <1>3 DEF Basics

(* The claim keeps its type whatever DeletePVCs does.                      *)
LEMMA DeletePVCsType ==
    ASSUME Basics, DeletePVCs
    PROVE  claim' \in {"none", "present", "deleting"}
BY TypesOfBasics DEF DeletePVCs

(* What createResources leaves behind when it fails.                       *)
LEMMA CreateFailsLeaves ==
    ASSUME Basics, CreateFails
    PROVE  /\ claim' \in {"none", "present", "deleting"}
           /\ \/ UNCHANGED <<job, used>>
              \/ used' = FALSE /\ UNCHANGED job
              \/ used' = FALSE /\ job' = NewJob
BY TypesOfBasics, DeletePVCsType DEF CreateFails

(* A step of the informers, or of the process that starts anew.            *)
LEMMA ListingKeepsBasics ==
    ASSUME Basics, UNCHANGED <<now, snapshot, apiHealthy, job, history, used>>,
           missingCRD' \in BOOLEAN,
           claim' \in {"none", "present", "deleting"},
           seenJob' = JobShown \/ UNCHANGED seenJob,
           (seenHistory' = history /\ crdFresh' = TRUE)
               \/ UNCHANGED <<seenHistory, crdFresh>>
    PROVE  Basics'
<1>1. seenJob' \in SeenJobs /\ seenJob'.start <= now
  BY TypesOfBasics, ShownType DEF Basics
<1>2. /\ seenHistory' \in Lists /\ crdFresh' \in BOOLEAN
      /\ crdFresh' => seenHistory' = history
  <2>1. CASE seenHistory' = history /\ crdFresh' = TRUE
    BY <2>1, TypesOfBasics
  <2>2. CASE UNCHANGED <<seenHistory, crdFresh>>
    BY <2>2, TypesOfBasics DEF Basics
  <2> QED BY <2>1, <2>2
<1>3. TypeOK'
  BY <1>1, <1>2, TypesOfBasics DEF TypeOK, Lists
<1> QED BY <1>1, <1>2, <1>3 DEF Basics

(* Every step keeps the basics.                                            *)
LEMMA BasicsStep ==
    ASSUME Basics, Next
    PROVE  Basics'
<1> USE ConstantTypes, TypesOfBasics
<1>0. NewJob \in Jobs /\ NewJob.start = 0
  BY DEF NewJob, Jobs
<1>1. CASE ReconcileActive
  <2> DEFINE list == UpdateJobStatus(seenHistory, seenJob.start)
  <2>1. /\ UpdateStatus(list)
        /\ UNCHANGED <<worldVars, seenJob, seenHistory, claim, job, used>>
    BY <1>1 DEF ReconcileActive, Reconciling
  <2>2. list \in Lists
    BY UpdateJobStatusList
  <2>3. ASSUME crdFresh, NEW k \in 1..Len(list) PROVE list[k] <= now
    <3>1. seenHistory = history /\ seenJob.start <= now /\ Len(history) \in Nat
      BY <2>3, ListType DEF Basics
    <3>2. /\ Len(list) = Len(history) /\ (Len(history) > 0 => list[1] = seenJob.start)
          /\ \A j \in 2..Len(history) : list[j] = history[j]
      BY <3>1, UpdateJobStatusList
    <3> HIDE DEF list
    <3>3. CASE k = 1
      BY <2>3, <3>1, <3>2, <3>3
    <3>4. CASE k # 1
      <4>1. k \in 2..Len(history) /\ k \in 1..Len(history)
        BY <2>3, <3>1, <3>2, <3>4
      <4> QED BY <3>2, <4>1 DEF Basics
    <3> QED BY <3>3, <3>4
  <2> HIDE DEF list
  <2> QED BY <2>1, <2>2, <2>3, WriteKeepsBasics DEF Basics
<1>2. CASE ReconcileIdle
  <2>1. /\ UpdateStatus(seenHistory) /\ UNCHANGED <<worldVars, seenJob, seenHistory>>
        /\ UNCHANGED <<job, used>> /\ claim' \in {"none", "present", "deleting"}
    BY <1>2, DeletePVCsType DEF ReconcileIdle, Reconciling
  <2> QED BY <2>1, WriteKeepsBasics DEF Basics
<1>3. CASE CreateFails
  <2>1. UpdateStatus(seenHistory) /\ UNCHANGED <<worldVars, seenJob, seenHistory>>
    BY <1>3 DEF CreateFails, Creating, Reconciling
  <2>2. /\ job' \in Jobs /\ job'.start <= now /\ used' \in BOOLEAN
        /\ claim' \in {"none", "present", "deleting"}
    <3>1. job.start <= now /\ 0 <= now
      BY DEF Basics
    <3>2. CASE UNCHANGED <<job, used>>
      BY <1>3, <3>1, <3>2, CreateFailsLeaves
    <3>3. CASE used' = FALSE /\ UNCHANGED job
      BY <1>3, <3>1, <3>3, CreateFailsLeaves
    <3>4. CASE used' = FALSE /\ job' = NewJob
      BY <1>0, <1>3, <3>1, <3>4, CreateFailsLeaves
    <3> QED BY <1>3, <3>2, <3>3, <3>4, CreateFailsLeaves
  <2> QED BY <2>1, <2>2, WriteKeepsBasics DEF Basics
<1>4. CASE CreateResources
  <2> DEFINE list == AddJobStatus(seenHistory)
  <2>1. /\ UpdateStatus(list) /\ UNCHANGED <<worldVars, seenJob, seenHistory>>
        /\ claim' = "present" /\ used' = FALSE /\ job' = NewJob
    BY <1>4 DEF CreateResources, Creating, Reconciling
  <2>2. list \in Lists
    BY AddJobStatusList
  <2>3. ASSUME crdFresh, NEW k \in 1..Len(list) PROVE list[k] <= now
    <3>1. /\ Len(list) \in Nat /\ Len(list) <= Len(history) + 1 /\ list[1] = 0
          /\ Len(history) \in Nat
          /\ \A j \in 2..Len(list) : list[j] = history[j - 1]
      BY <2>2, <2>3, AddJobStatusList, ListType DEF Basics
    <3> HIDE DEF list
    <3>2. CASE k = 1
      BY <3>1, <3>2
    <3>3. CASE k # 1
      <4>1. k \in 2..Len(list) /\ k - 1 \in 1..Len(history)
        BY <2>3, <3>1, <3>3
      <4> QED BY <3>1, <4>1 DEF Basics
    <3> QED BY <3>2, <3>3
  <2> HIDE DEF list
  <2>4. job' \in Jobs /\ job'.start <= now /\ used' \in BOOLEAN
    <3>1. job' \in Jobs /\ job'.start = 0
      BY <1>0, <2>1
    <3>2. used' \in BOOLEAN
      BY <2>1
    <3> QED BY <3>1, <3>2
  <2> QED BY <2>1, <2>2, <2>3, <2>4, WriteKeepsBasics
<1>5. CASE \/ ReconcilePanics \/ OperatorRestarts \/ InstallCRDs
           \/ JobInformerSync \/ CRDInformerSync
  <2>1. /\ UNCHANGED <<now, snapshot, apiHealthy, job, history, used>>
        /\ missingCRD' \in BOOLEAN
        /\ claim' \in {"none", "present", "deleting"}
        /\ seenJob' = JobShown \/ UNCHANGED seenJob
        /\ (seenHistory' = history /\ crdFresh' = TRUE) \/ UNCHANGED <<seenHistory, crdFresh>>
    BY <1>5, DeletePVCsType DEF ReconcilePanics, OperatorRestarts, InstallCRDs,
          JobInformerSync, CRDInformerSync, InformersList, worldVars
  <2> QED BY <2>1, ListingKeepsBasics
<1>6. CASE JobLifecycle \/ JobDeleted
  <2>1. UNCHANGED <<worldVars, claim, history, informerVars>> /\ used' \in BOOLEAN
    BY <1>6 DEF JobLifecycle, JobStarts, PodRuns, JobFinishes, JobDeleted
  <2>2. UNCHANGED <<now, snapshot, apiHealthy, missingCRD, claim, history, seenJob,
                    seenHistory, crdFresh>>
    BY <2>1 DEF worldVars, informerVars
  <2>3. job' \in Jobs /\ job'.start <= now
    <3>1. CASE JobStarts
      BY <3>1 DEF JobStarts, Jobs, Basics
    <3>2. CASE PodRuns
      BY <3>2 DEF PodRuns, Jobs, Basics
    <3>3. CASE JobFinishes
      BY <3>3 DEF JobFinishes, Jobs, Basics
    <3>4. CASE JobDeleted
      BY <3>4 DEF JobDeleted, NoJob, Jobs
    <3> QED BY <1>6, <3>1, <3>2, <3>3, <3>4 DEF JobLifecycle
  <2>4. TypeOK'
    BY <2>1, <2>2, <2>3 DEF TypeOK, Lists
  <2> QED BY <2>2, <2>3, <2>4 DEF Basics
<1>7. CASE ClaimGone \/ SnapshotReady \/ APIServerHeals \/ Tick
  <2>1. UNCHANGED <<job, history, informerVars, used>>
    BY <1>7 DEF ClaimGone, SnapshotReady, APIServerHeals, Tick
  <2>2. UNCHANGED <<job, history, seenJob, seenHistory, crdFresh, used>>
    BY <2>1 DEF informerVars
  <2>3. /\ claim' \in {"none", "present", "deleting"} /\ now' \in Times /\ now <= now'
        /\ snapshot' \in BOOLEAN /\ apiHealthy' \in BOOLEAN /\ missingCRD' \in BOOLEAN
    <3>1. CASE ClaimGone
      BY <3>1 DEF ClaimGone, worldVars
    <3>2. CASE SnapshotReady
      BY <3>2 DEF SnapshotReady
    <3>3. CASE APIServerHeals
      BY <3>3 DEF APIServerHeals
    <3>4. CASE Tick
      BY <3>4 DEF Tick, Times
    <3> QED BY <1>7, <3>1, <3>2, <3>3, <3>4
  <2>4. TypeOK'
    BY <2>2, <2>3 DEF TypeOK, Lists
  <2>5. \A k \in 1..Len(history) : history[k] <= now'
    <3> SUFFICES ASSUME NEW k \in 1..Len(history) PROVE history[k] <= now'
      OBVIOUS
    <3>1. history[k] \in Nat /\ history[k] <= now
      BY ListType DEF Basics
    <3>2. now \in Nat /\ now' \in Nat
      BY <2>3
    <3> QED BY <2>3, <3>1, <3>2
  <2>6. job.start <= now' /\ seenJob.start <= now'
    BY <2>3 DEF Basics, Times
  <2> QED BY <2>2, <2>4, <2>5, <2>6 DEF Basics
<1> QED BY <1>1, <1>2, <1>3, <1>4, <1>5, <1>6, <1>7 DEF Next, Reconcile

(* UpdateJobStatus keeps the entries apart when the job it records started *)
(* an interval after the older ones.                                       *)
LEMMA UpdateJobStatusSpaced ==
    ASSUME NEW list \in Lists, Spaced(list), NEW start \in Starts,
           start # 0 => \A k \in 2..Len(list) : list[k] + Interval <= start
    PROVE  Spaced(UpdateJobStatus(list, start))
<1> DEFINE new == UpdateJobStatus(list, start)
<1>1. /\ Len(list) \in Nat /\ Len(new) = Len(list)
      /\ Len(list) > 0 => new[1] = start
      /\ \A k \in 2..Len(list) : new[k] = list[k]
  BY ListType, UpdateJobStatusList
<1> HIDE DEF new
<1>2. ASSUME NEW i \in 1..Len(new), NEW j \in 1..Len(new), i < j
      PROVE  new[j] # 0 /\ (new[i] # 0 => new[i] >= new[j] + Interval)
  <2>1. j \in 2..Len(list) /\ i \in 1..Len(list) /\ j \in 1..Len(list)
    BY <1>1, <1>2
  <2>2. new[j] = list[j] /\ list[j] # 0
    BY <1>1, <1>2, <2>1 DEF Spaced
  <2>3. list[j] \in Nat /\ start \in Nat /\ Interval \in Nat
    BY <2>1, ListType, ConstantTypes
  <2>4. CASE i = 1
    BY <1>1, <2>1, <2>2, <2>3, <2>4
  <2>5. CASE i # 1
    <3>1. new[i] = list[i]
      BY <1>1, <2>1, <2>5
    <3> QED BY <1>2, <2>1, <2>2, <3>1 DEF Spaced
  <2> QED BY <2>4, <2>5
<1> QED BY <1>2 DEF Spaced, new

(* So does AddJobStatus when the head has a start time.                    *)
LEMMA AddJobStatusSpaced ==
    ASSUME NEW list \in Lists, Spaced(list), Len(list) > 0 => list[1] # 0
    PROVE  Spaced(AddJobStatus(list))
<1> DEFINE new == AddJobStatus(list)
<1>1. /\ Len(list) \in Nat /\ Len(new) \in Nat /\ Len(new) <= Len(list) + 1
      /\ new[1] = 0
      /\ \A k \in 2..Len(new) : new[k] = list[k - 1]
  BY AddJobStatusList, ListType
<1> HIDE DEF new
<1>2. ASSUME NEW i \in 1..Len(new), NEW j \in 1..Len(new), i < j
      PROVE  new[j] # 0 /\ (new[i] # 0 => new[i] >= new[j] + Interval)
  <2>1. /\ j \in 2..Len(new) /\ j - 1 \in 1..Len(list)
        /\ new[j] = list[j - 1]
    BY <1>1, <1>2
  <2>2. list[j - 1] # 0
    <3>1. CASE j - 1 = 1
      BY <1>1, <2>1, <3>1
    <3>2. CASE j - 1 # 1
      <4>1. 1 \in 1..Len(list) /\ 1 < j - 1
        BY <1>1, <2>1, <3>2
      <4> QED BY <2>1, <4>1 DEF Spaced
    <3> QED BY <3>1, <3>2
  <2>3. CASE i = 1
    BY <1>1, <2>1, <2>2, <2>3
  <2>4. CASE i # 1
    <3>1. /\ i \in 2..Len(new) /\ i - 1 \in 1..Len(list) /\ i - 1 < j - 1
          /\ new[i] = list[i - 1]
      BY <1>1, <1>2, <2>4
    <3> QED BY <2>1, <2>2, <3>1 DEF Spaced
  <2> QED BY <2>3, <2>4
<1> QED BY <1>2 DEF Spaced, new

(* The distances in the history are kept by every step.                    *)
LEMMA SpacedStep ==
    ASSUME Basics, Basics', Spaced(history), Older, Next
    PROVE  Spaced(history') /\ Older'
<1>0. /\ Len(history) \in Nat /\ history \in Lists /\ seenHistory \in Lists
      /\ now \in Nat /\ Interval \in Nat
  BY TypesOfBasics, ListType, ConstantTypes
<1>1. CASE /\ UNCHANGED <<now, history>>
           /\ UNCHANGED job \/ job' = NewJob
           /\ UNCHANGED seenJob \/ seenJob' = JobShown
  <2>1. NewJob.start = 0
    BY DEF NewJob
  <2>2. Older'
    BY <1>1, <2>1, ShownType DEF Older
  <2> QED BY <1>1, <2>2
<1>2. CASE ReconcileActive
  <2>1. /\ UNCHANGED <<now, seenJob, job>> /\ seenJob.found
        /\ UpdateStatus(UpdateJobStatus(seenHistory, seenJob.start))
    BY <1>2 DEF ReconcileActive, Reconciling, worldVars
  <2>2. CASE UNCHANGED history
    BY <1>1, <2>1, <2>2
  <2>3. CASE crdFresh /\ history' = UpdateJobStatus(history, seenJob.start)
    <3>1. /\ Len(history') = Len(history)
          /\ \A k \in 2..Len(history) : history'[k] = history[k]
      BY <1>0, <2>3, UpdateJobStatusList, TypesOfBasics
    <3>2. Spaced(history')
      BY <1>0, <2>1, <2>3, TypesOfBasics, UpdateJobStatusSpaced DEF Older
    <3>3. Older'
      BY <2>1, <3>1 DEF Older
    <3> QED BY <3>2, <3>3
  <2> QED BY <2>1, <2>2, <2>3 DEF UpdateStatus, Basics
<1>3. CASE ReconcileIdle
  <2>1. UNCHANGED <<now, seenJob, job>> /\ UpdateStatus(seenHistory)
    BY <1>3 DEF ReconcileIdle, Reconciling, worldVars
  <2>2. history' = history
    BY <2>1 DEF UpdateStatus, Basics
  <2> QED BY <1>1, <2>1, <2>2
<1>4. CASE CreateFails
  <2>1. UNCHANGED <<now, seenJob>> /\ UpdateStatus(seenHistory)
    BY <1>4 DEF CreateFails, Creating, Reconciling, worldVars
  <2>2. history' = history
    BY <2>1 DEF UpdateStatus, Basics
  <2>3. UNCHANGED job \/ job' = NewJob
    BY <1>4, CreateFailsLeaves
  <2> QED BY <1>1, <2>1, <2>2, <2>3
<1>5. CASE CreateResources
  <2>1. /\ UNCHANGED <<now, seenJob>> /\ ~seenJob.found
        /\ ~StartTimeMissing(seenHistory) /\ ReadyForSnapshot(seenHistory)
        /\ UpdateStatus(AddJobStatus(seenHistory))
        /\ job' = NewJob
    BY <1>5 DEF CreateResources, Creating, Reconciling, worldVars
  <2>2. CASE UNCHANGED history
    BY <1>1, <2>1, <2>2
  <2>3. CASE crdFresh /\ history' = AddJobStatus(history)
    <3>1. Len(history) > 0 => history[1] # 0 /\ now - history[1] >= Interval
      BY <1>0, <2>1, <2>3, HeadOfList DEF Basics
    <3>2. Spaced(history')
      BY <1>0, <2>3, <3>1, AddJobStatusSpaced
    <3>3. /\ Len(history') \in Nat /\ Len(history') <= Len(history) + 1
          /\ \A k \in 2..Len(history') : history'[k] = history[k - 1]
      BY <1>0, <2>3, AddJobStatusList, ListType
    <3>4. ASSUME NEW k \in 2..Len(history') PROVE history'[k] + Interval <= now
      <4>1. k - 1 \in 1..Len(history) /\ history'[k] = history[k - 1]
        BY <1>0, <3>3, <3>4
      <4>2. CASE k - 1 = 1
        <5>1. history[1] \in Nat
          BY <1>0, <4>1, <4>2, ListType, ConstantTypes
        <5> QED BY <1>0, <3>1, <4>1, <4>2, <5>1
      <4>3. CASE k - 1 # 1
        <5>1. k - 1 \in 2..Len(history)
          BY <1>0, <4>1, <4>3
        <5> QED BY <4>1, <5>1 DEF Older
      <4> QED BY <4>2, <4>3
    <3>5. job'.start = 0
      BY <2>1 DEF NewJob
    <3>6. Older'
      BY <2>1, <3>4, <3>5 DEF Older
    <3> QED BY <3>2, <3>6
  <2> QED BY <2>1, <2>2, <2>3 DEF UpdateStatus, Basics
<1>6. CASE \/ ReconcilePanics \/ OperatorRestarts \/ InstallCRDs
           \/ JobInformerSync \/ CRDInformerSync
  BY <1>1, <1>6 DEF ReconcilePanics, OperatorRestarts, InstallCRDs, JobInformerSync,
                    CRDInformerSync, InformersList, worldVars
<1>7. CASE JobLifecycle \/ JobDeleted
  <2>1. UNCHANGED <<now, history, seenJob>>
    BY <1>7 DEF JobLifecycle, JobStarts, PodRuns, JobFinishes, JobDeleted, informerVars,
                worldVars
  <2>2. job'.start \in {job.start, now, 0}
    BY <1>7, TypesOfBasics DEF JobLifecycle, JobStarts, PodRuns, JobFinishes, JobDeleted,
                               NoJob, Jobs
  <2>3. Older'
    BY <2>1, <2>2 DEF Older
  <2> QED BY <2>1, <2>3
<1>8. CASE ClaimGone \/ SnapshotReady \/ APIServerHeals \/ Tick
  <2>1. /\ UNCHANGED <<history, job, seenJob>>
        /\ now' \in Nat /\ now <= now'
    BY <1>0, <1>8 DEF ClaimGone, SnapshotReady, APIServerHeals, Tick, informerVars, worldVars
  <2>2. \A k \in 2..Len(history) : history[k] + Interval <= now'
    <3> SUFFICES ASSUME NEW k \in 2..Len(history) PROVE history[k] + Interval <= now'
      OBVIOUS
    <3>1. history[k] \in Nat /\ history[k] + Interval <= now
      <4>1. k \in 1..Len(history)
        BY <1>0
      <4>2. history[k] \in Nat
        BY <1>0, <4>1, ListType, ConstantTypes
      <4> QED BY <4>2 DEF Older
    <3> QED BY <1>0, <2>1, <3>1
  <2>3. Older'
    BY <2>1, <2>2 DEF Older
  <2> QED BY <2>1, <2>3
<1> QED BY <1>2, <1>3, <1>4, <1>5, <1>6, <1>7, <1>8 DEF Next, Reconcile

(* A claim that a pod has run on is never the claim of a job to come.      *)
LEMMA UntouchedStep ==
    ASSUME Basics, Untouched, Next
    PROVE  Untouched'
<1>1. CASE Reconcile
  <2>1. CASE CreateFails
    BY <2>1, CreateFailsLeaves DEF Untouched
  <2>2. CASE ReconcileActive \/ ReconcileIdle \/ CreateResources \/ ReconcilePanics
    BY <2>2 DEF ReconcileActive, ReconcileIdle, CreateResources, ReconcilePanics, Untouched
  <2> QED BY <1>1, <2>1, <2>2 DEF Reconcile
<1>2. CASE JobLifecycle \/ JobDeleted
  <2>1. CASE JobStarts
    BY <2>1, TypesOfBasics DEF JobStarts, Untouched, Jobs
  <2>2. CASE PodRuns \/ JobFinishes \/ JobDeleted
    BY <2>2, TypesOfBasics DEF PodRuns, JobFinishes, JobDeleted, NoJob, Untouched, Jobs
  <2> QED BY <1>2, <2>1, <2>2 DEF JobLifecycle
<1>3. CASE \/ OperatorRestarts \/ InstallCRDs \/ JobInformerSync \/ CRDInformerSync
           \/ ClaimGone \/ SnapshotReady \/ APIServerHeals \/ Tick
  BY <1>3 DEF OperatorRestarts, InstallCRDs, JobInformerSync, CRDInformerSync,
              ClaimGone, SnapshotReady, APIServerHeals, Tick, Untouched
<1> QED BY <1>1, <1>2, <1>3 DEF Next

(* The invariant is inductive.                                             *)
LEMMA InvNext == Inv /\ [Next]_vars => Inv'
<1>1. ASSUME Inv, Next PROVE Inv'
  <2>1. Basics'
    BY <1>1, BasicsStep DEF Inv
  <2> QED BY <1>1, <2>1, SpacedStep, UntouchedStep DEF Inv
<1>2. ASSUME Inv, UNCHANGED vars PROVE Inv'
  BY <1>2 DEF vars, Inv, Basics, TypeOK, Spaced, Older, Untouched
<1> QED BY <1>1, <1>2

-----------------------------------------------------------------------------
(***************************************************************************)
(* Theorems                                                                *)
(***************************************************************************)

(* The controller's state keeps its type, and AddJobStatus the history its *)
(* size.                                                                   *)
THEOREM TypeCorrect == Spec => []TypeOK
<1>1. Inv => TypeOK
  BY DEF Inv, Basics
<1> QED BY <1>1, InvInit, InvNext, PTL DEF Spec

(* What the invariant says of the history.                                 *)
LEMMA InvHistory == Inv => HistorySorted /\ HistorySpaced
<1> SUFFICES ASSUME Inv, NEW i \in DOMAIN history, NEW j \in DOMAIN history, i < j
             PROVE  /\ history[j] # 0
                    /\ history[i] # 0 => /\ history[i] >= history[j]
                                         /\ history[i] >= history[j] + Interval
  BY DEF HistorySorted, HistorySpaced
<1>1. DOMAIN history = 1..Len(history) /\ history[i] \in Nat /\ history[j] \in Nat
  BY TypesOfBasics, ListType, ConstantTypes DEF Inv
<1>2. history[j] # 0 /\ (history[i] # 0 => history[i] >= history[j] + Interval)
  BY <1>1 DEF Inv, Spaced
<1> QED BY <1>1, <1>2, ConstantTypes

(* AddJobStatus and UpdateJobStatus keep the most recent job first,        *)
(* whatever writes of the status are lost.                                 *)
THEOREM HistoryIsSorted == Spec => []HistorySorted
<1> QED BY InvHistory, InvInit, InvNext, PTL DEF Spec

(* ReadyForSnapshot keeps the recorded starts an interval apart, whatever  *)
(* writes are lost and whichever jobs are created without a record.        *)
THEOREM HistoryIsSpaced == Spec => []HistorySpaced
<1> QED BY InvHistory, InvInit, InvNext, PTL DEF Spec

(* deletePVCs and createResources give every job that runs a claim of its  *)
(* own.                                                                    *)
THEOREM ClaimIsUsedOnce == Spec => ClaimUsedOnce
<1>1. Inv /\ [Next]_vars => [ClaimUsedOnceStep]_vars
  BY DEF Inv, Untouched, ClaimUsedOnceStep
<1> QED BY <1>1, InvInit, InvNext, PTL DEF Spec, ClaimUsedOnce

=============================================================================
