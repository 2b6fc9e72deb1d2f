------------------------------ MODULE TaskPool ------------------------------
(***************************************************************************)
(* The background tasks of the master: rows in table tasks, one goroutine  *)
(* per submitted job, and worker tokens in the channel idleWorker.  A      *)
(* restart loses the goroutines; Resume submits the unfinished rows again. *)
(* Pools_proofs extends this module and NodePool, hence names with Task.   *)
(***************************************************************************)
EXTENDS Naturals, FiniteSets

CONSTANTS
  Task,         \* rows of table tasks
  Decompress,   \* those of type DecompressTask, whose SetError and GetError panic
  MaxWorker,    \* setting max_worker_num
  MaxCrashes,   \* bound of the crashes
  Panics,       \* jobs may panic
  DbFaults,     \* rows whose updates may fail, which is never looked at
  UserFaults,   \* tasks whose users may be gone or banned when they are resumed
  Deletions     \* the administration deletes tasks

ASSUME TaskFinite == IsFiniteSet(Task) /\ Decompress \subseteq Task
ASSUME WorkersPositive == MaxWorker \in Nat \ {0}
ASSUME CrashesNat == MaxCrashes \in Nat
ASSUME SwitchesOk == {Panics, Deletions} \subseteq BOOLEAN
ASSUME FaultsOk == DbFaults \subseteq Task /\ UserFaults \subseteq Task

VARIABLES
  status,   \* status column, "none" before the row exists
  go,       \* goroutine of each task
  tokens,   \* tokens in the channel idleWorker
  phase,    \* of the server
  resume,   \* rows that Resume still has to submit
  crashes   \* number of crashes so far

taskVars == <<status, go, tokens, phase, resume, crashes>>

Status  == {"none", "queued", "processing", "error", "complete", "deleted"}
Started == {"held", "doing", "failed", "panicked", "finished", "freeing"}

TaskInit ==
  /\ status = [t \in Task |-> "none"]
  /\ go = [t \in Task |-> "none"]
  /\ tokens = 0
  /\ phase = "down"
  /\ resume = {}
  /\ crashes = 0

Goto(t, pc) == go' = [go EXCEPT ![t] = pc]

(* Task.SetStatus: by id, among the rows that are not deleted; its error is *)
(* dropped.                                                                 *)
SetStatus(t, s) ==
  \/ status' = IF status[t] = "deleted" THEN status ELSE [status EXCEPT ![t] = s]
  \/ t \in DbFaults /\ UNCHANGED status

-----------------------------------------------------------------------------
(* Variant: the pool starts with a token too many.                          *)
BootPool_OneMore ==
  /\ phase = "down"
  /\ phase' = "resuming"
  /\ tokens' = MaxWorker + 1
  /\ resume' = {t \in Task : status[t] \in {"queued", "processing"}}
  /\ UNCHANGED <<status, go, crashes>>

(* Variant: Resume reads every row.                                         *)
BootPool_All ==
  /\ phase = "down"
  /\ phase' = "resuming"
  /\ tokens' = MaxWorker
  /\ resume' = {t \in Task : status[t] # "none"}
  /\ UNCHANGED <<status, go, crashes>>

(* Variant: Resume reads the queued rows only.                              *)
BootPool_Queued ==
  /\ phase = "down"
  /\ phase' = "resuming"
  /\ tokens' = MaxWorker
  /\ resume' = {t \in Task : status[t] = "queued"}
  /\ UNCHANGED <<status, go, crashes>>

(* task.Init: the tokens, and the rows Resume reads.  Nothing can submit    *)
(* anything before Resume has returned.                                     *)
BootPool ==
  /\ phase = "down"
  /\ phase' = "resuming"
  /\ tokens' = MaxWorker
  /\ resume' = {t \in Task : status[t] \in {"queued", "processing"}}
  /\ UNCHANGED <<status, go, crashes>>

(* Resume: GetJobFromModel fails without an active user, else Submit.       *)
ResumeTask(t) ==
  /\ phase = "resuming"
  /\ t \in resume
  /\ resume' = resume \ {t}
  /\ Goto(t, "waiting") \/ (t \in UserFaults /\ UNCHANGED go)
  /\ UNCHANGED <<status, tokens, phase, crashes>>

(* The later initialisers and the router run.                               *)
ServeRequests ==
  /\ phase = "resuming"
  /\ resume = {}
  /\ phase' = "up"
  /\ UNCHANGED <<status, go, tokens, resume, crashes>>

(* Record of a new job: a request, or a monitor whose download completed.   *)
Record(t) ==
  /\ phase = "up"
  /\ status[t] = "none"
  /\ status' = [status EXCEPT ![t] = "queued"]
  /\ Goto(t, "recorded")
  /\ UNCHANGED <<tokens, phase, resume, crashes>>

Submit(t) ==
  /\ go[t] = "recorded"
  /\ Goto(t, "waiting")
  /\ UNCHANGED <<status, tokens, phase, resume, crashes>>

ObtainWorker(t) ==
  /\ go[t] = "waiting"
  /\ tokens > 0
  /\ tokens' = tokens - 1
  /\ Goto(t, "held")
  /\ UNCHANGED <<status, phase, resume, crashes>>

-----------------------------------------------------------------------------
(* GeneralWorker.Do.                                                        *)

BeginJob(t) ==
  /\ go[t] = "held"
  /\ SetStatus(t, "processing")
  /\ Goto(t, "doing")
  /\ UNCHANGED <<tokens, phase, resume, crashes>>

(* job.Do returns, with or without an error set, or panics.  A              *)
(* decompression panics when it sets an error.                              *)
DoJob(t) ==
  /\ go[t] = "doing"
  /\ \/ Goto(t, "finished")
     \/ Goto(t, IF t \in Decompress THEN "panicked" ELSE "failed")
     \/ Panics /\ Goto(t, "panicked")
  /\ UNCHANGED <<status, tokens, phase, resume, crashes>>

(* GetError decides; it panics for a decompression.                         *)
EndJob(t) ==
  /\ go[t] \in {"finished", "failed"}
  /\ IF t \in Decompress
       THEN Goto(t, "panicked") /\ UNCHANGED status
       ELSE /\ SetStatus(t, IF go[t] = "failed" THEN "error" ELSE "complete")
            /\ Goto(t, "freeing")
  /\ UNCHANGED <<tokens, phase, resume, crashes>>

(* Variant: the deferred function does not recover; the goroutine is lost.  *)
RecoverPanic_Lost(t) ==
  /\ go[t] = "panicked"
  /\ t \notin Decompress
  /\ Goto(t, "none")
  /\ UNCHANGED <<status, tokens, phase, resume, crashes>>

(* The deferred function: SetError, SetStatus(Error).                       *)
RecoverPanic(t) ==
  /\ go[t] = "panicked"
  /\ t \notin Decompress
  /\ SetStatus(t, "error")
  /\ Goto(t, "freeing")
  /\ UNCHANGED <<tokens, phase, resume, crashes>>

FreeWorker(t) ==
  /\ go[t] = "freeing"
  /\ tokens' = tokens + 1
  /\ Goto(t, "none")
  /\ UNCHANGED <<status, phase, resume, crashes>>

-----------------------------------------------------------------------------
(* TaskBatchService.DeleteGeneral: the goroutine is not told.               *)
DeleteGeneral(t) ==
  /\ Deletions
  /\ phase = "up"
  /\ status[t] # "none"
  /\ status' = [status EXCEPT ![t] = "deleted"]
  /\ UNCHANGED <<go, tokens, phase, resume, crashes>>

(* The process ends; the rows are all that is left.                         *)
GoDown ==
  /\ phase' = "down"
  /\ go' = [t \in Task |-> "none"]
  /\ tokens' = 0
  /\ resume' = {}
  /\ UNCHANGED status

Crash ==
  /\ phase # "down"
  /\ crashes < MaxCrashes
  /\ crashes' = crashes + 1
  /\ GoDown

(* SetError of a decompression panics inside the deferred function.         *)
FatalPanic(t) ==
  /\ go[t] = "panicked"
  /\ t \in Decompress
  /\ GoDown
  /\ UNCHANGED crashes

JobStep(t) ==
  \/ ResumeTask(t) \/ Submit(t) \/ BeginJob(t) \/ DoJob(t) \/ EndJob(t)
  \/ RecoverPanic(t) \/ FatalPanic(t) \/ FreeWorker(t)

TaskNext ==
  \/ BootPool \/ ServeRequests \/ Crash
  \/ \E t \in Task : Record(t) \/ ObtainWorker(t) \/ JobStep(t) \/ DeleteGeneral(t)

TaskSpec == TaskInit /\ [][TaskNext]_taskVars

(* The server is started again, goroutines run on, and a goroutine that     *)
(* waits for a token is served in its turn (receivers of a Go channel       *)
(* queue).  Requests and deletions are not fair.                            *)
FairTaskSpec ==
  /\ TaskSpec
  /\ WF_taskVars(BootPool) /\ WF_taskVars(ServeRequests)
  /\ \A t \in Task : WF_taskVars(JobStep(t)) /\ SF_taskVars(ObtainWorker(t))

-----------------------------------------------------------------------------
TaskTypeOK ==
  /\ status \in [Task -> Status]
  /\ go \in [Task -> Started \cup {"none", "recorded", "waiting"}]
  /\ tokens \in 0..MaxWorker
  /\ phase \in {"down", "resuming", "up"}
  /\ resume \subseteq Task
  /\ crashes \in 0..MaxCrashes

(* Worker tokens are neither lost nor made, however a job ends: with every  *)
(* recovered panic the token comes back, or the pool would shrink for good. *)
Holders == {t \in Task : go[t] \in Started}
TokensConserved == phase # "down" => tokens + Cardinality(Holders) = MaxWorker

(* The pool implements the abstract queue: bounded parallelism, one         *)
(* goroutine per task although Resume and requests both submit, no second   *)
(* run of a task whose end was recorded.                                    *)
Running == {t \in Task : go[t] \in {"doing", "failed", "panicked", "finished"}}
Queue == INSTANCE TaskQueue WITH Workers <- MaxWorker, running <- Running
QueueSpec == Queue!Spec

(* When the server stays up at last, every recorded task is ended or        *)
(* deleted, whatever jobs do and however often the server has stopped; not  *)
(* the tasks whose updates fail or whose users are gone.                    *)
TaskEnds ==
  <>[](phase # "down") =>
    \A t \in Task \ (DbFaults \cup UserFaults) :
      status[t] \in {"queued", "processing"} ~> status[t] \in {"error", "complete", "deleted"}
=============================================================================
