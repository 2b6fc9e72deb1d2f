----------------------------- MODULE Downloads -----------------------------
(***************************************************************************)
(* Offline downloads: rows of table downloads, the aria2 daemon that makes *)
(* them, and one monitor goroutine per unfinished row, which polls the     *)
(* daemon, saves what it says and hands a complete download to a transfer  *)
(* task.  A restart loses the monitors; aria2.Init starts new ones.        *)
(*                                                                         *)
(* A notification of the daemon only makes the next poll come early, so    *)
(* that polls at any time stand for both.                                  *)
(***************************************************************************)
EXTENDS Naturals, FiniteSets

CONSTANTS
  Download,     \* rows of table downloads of one user
  Valid,        \* those whose URL the daemon accepts
  Magnet,       \* those whose first GID only fetches the metadata
  Request,      \* HTTP handlers that may be adding a URL at the same time
  Limit,        \* Aria2BatchSize of the user's group
  MaxRetry,     \* MAX_RETRY of the monitor
  Websocket,    \* the daemon is reached over a websocket, else over HTTP
  DbFaults,     \* rows whose saves may fail
  Orphaned,     \* rows whose owner may be gone or banned
  MaxCrashes    \* bound of the crashes

ASSUME DownloadsFinite == IsFiniteSet(Download) /\ IsFiniteSet(Request)
ASSUME KindsOk == Valid \cup Magnet \cup DbFaults \cup Orphaned \subseteq Download
ASSUME BoundsOk == {Limit, MaxRetry, MaxCrashes} \subseteq Nat /\ Websocket \in BOOLEAN

VARIABLES
  row,        \* table downloads
  mon,        \* the monitor goroutine of each row and its copy of the row
  aria2,      \* status of the current GID of each download in the daemon
  fetched,    \* downloads whose metadata is complete, so that GID 2 is current
  transfers,  \* transfer tasks recorded for each download
  reqs,       \* progress of each handler
  server,     \* phase of the server
  resume,     \* rows for which aria2.Init still has to start a monitor
  crashes,    \* number of crashes so far
  excused     \* history: downloads added without a count, or deleted unfinished

vars == <<row, mon, aria2, fetched, transfers, reqs, server, resume, crashes, excused>>

-----------------------------------------------------------------------------
Unfinished == {"ready", "downloading", "paused"}
Ended      == {"error", "complete", "canceled", "unknown"}

(* GID 0 is the empty string, 1 the one aria2.addUri returned, 2 the one    *)
(* that FollowedBy names.                                                   *)
Copy == [status : {"none", "deleted"} \cup Unfinished \cup Ended,
         gid    : 0..2,
         sized  : BOOLEAN,
         task   : BOOLEAN]

NoCopy == [status |-> "none", gid |-> 0, sized |-> FALSE, task |-> FALSE]

Monitor == [pc : {"none", "loop", "follow", "save", "validate", "giveUp",
                  "cancel", "record", "link"},
            task : Copy, retried : 0..MaxRetry, resized : BOOLEAN]

NoMonitor == [pc |-> "none", task |-> NoCopy, retried |-> 0, resized |-> FALSE]

(* A running download waits, is active or is paused as the daemon likes.    *)
Daemon == {"none", "running", "complete", "error", "removed", "forgotten"}

UnfinishedRows == {d \in Download : row[d].status \in Unfinished}

Goto(d, pc) == mon' = [mon EXCEPT ![d].pc = pc]
End(d)      == mon' = [mon EXCEPT ![d] = NoMonitor]

(* Download.Save.  For a row that was deleted in the meantime gorm updates  *)
(* nothing and then inserts it again, which may be refused for its key.  An *)
(* error is for the caller to look at.                                      *)
Save(d, copy) ==
  \/ row' = [row EXCEPT ![d] = copy]
  \/ row[d].status = "deleted" /\ UNCHANGED row
SaveFails(d) == (d \in DbFaults \/ row[d].status = "deleted") /\ UNCHANGED row

Init ==
  /\ row = [d \in Download |-> NoCopy]
  /\ mon = [d \in Download |-> NoMonitor]
  /\ aria2 = [d \in Download |-> "none"]
  /\ fetched = {}
  /\ transfers = [d \in Download |-> 0]
  /\ reqs = [r \in Request |-> <<"idle">>]
  /\ server = "down"
  /\ resume = {}
  /\ crashes = 0
  /\ excused = {}

-----------------------------------------------------------------------------
(* Calls of the daemon.                                                     *)

(* A call fails when the answer does not come in time, 16 calls are queued, *)
(* or the node has no initialised client (DummyAria2).                      *)
Refusal == "refused"

(* The daemon answers with an error: the websocket client drops it with the *)
(* result of the decoder, and its caller sees an empty reply and no error.  *)
Rejection == IF Websocket THEN "blank" ELSE Refusal

(* aria2.tellStatus: once more after an error, which changes nothing here.  *)
Answers(d, gid) ==
  {Refusal} \cup (IF gid = 0 \/ aria2[d] = "forgotten" THEN {Rejection}
                   ELSE IF aria2[d] = "running" THEN {"waiting", "active", "paused"}
                   ELSE {aria2[d]})

Followed(d, gid) == gid = 1 /\ d \in fetched /\ aria2[d] # "forgotten"

(* aria2.remove, whose error is dropped.                                    *)
CancelInDaemon(d, gid) ==
  \/ /\ aria2[d] = "running"
     /\ gid = IF d \in fetched THEN 2 ELSE 1
     /\ aria2' = [aria2 EXCEPT ![d] = "removed"]
  \/ UNCHANGED aria2

GetStatus(answer) ==
  CASE answer = "active"  -> "downloading"
    [] answer = "waiting" -> "ready"
    [] answer = "removed" -> "canceled"
    [] answer = "blank"   -> "unknown"
    [] OTHER              -> answer

-----------------------------------------------------------------------------
(* Adding a URL.                                                            *)

(* Variant: downloads that have not started are not counted.                *)
CountDownloads_Started(r) ==
  /\ reqs[r] = <<"idle">>
  /\ server = "up"
  /\ Limit > 0 =>
       Cardinality({d \in Download : row[d].status = "downloading"}) + 1 <= Limit
  /\ reqs' = [reqs EXCEPT ![r] = <<"call">>]
  /\ UNCHANGED <<row, mon, aria2, fetched, transfers, server, resume, crashes, excused>>

(* AddURLService.Add counts the unfinished rows of the user ...             *)
CountDownloads(r) ==
  /\ reqs[r] = <<"idle">>
  /\ server = "up"
  /\ Limit > 0 => Cardinality(UnfinishedRows) + 1 <= Limit
  /\ reqs' = [reqs EXCEPT ![r] = <<"call">>]
  /\ UNCHANGED <<row, mon, aria2, fetched, transfers, server, resume, crashes, excused>>

(* ... and finds none when the query fails: GetDownloadsByStatusAndUser     *)
(* drops the error and returns an empty list.                               *)
CountFails(r) ==
  /\ reqs[r] = <<"idle">>
  /\ server = "up"
  /\ reqs' = [reqs EXCEPT ![r] = <<"blind">>]
  /\ UNCHANGED <<row, mon, aria2, fetched, transfers, server, resume, crashes, excused>>

(* It asks the daemon, which may accept the URL although the call fails, or *)
(* reject it: over a websocket that is an empty GID and no error.  A slave  *)
(* node panics here, which ends the request alone.                          *)
CreateTask(r, d) ==
  LET Accepted == d \in Valid /\ aria2' = [aria2 EXCEPT ![d] = "running"]
      Added(gid) ==
        /\ reqs' = [reqs EXCEPT ![r] = <<"create", d, gid>>]
        /\ excused' = IF reqs[r] = <<"blind">> THEN excused \cup {d} ELSE excused \ {d}
      Failed == reqs' = [reqs EXCEPT ![r] = <<"idle">>] /\ UNCHANGED excused
  IN  /\ reqs[r] \in {<<"call">>, <<"blind">>}
      /\ row[d].status = "none" /\ aria2[d] = "none"
      /\ \A q \in Request : reqs[q] \notin {<<"create", d, 0>>, <<"create", d, 1>>}
      /\ \/ Accepted /\ (Added(1) \/ Failed)
         \/ Rejection = "blank" /\ Added(0) /\ UNCHANGED aria2
         \/ Failed /\ UNCHANGED aria2
      /\ UNCHANGED <<row, mon, fetched, transfers, server, resume, crashes>>

(* ... and inserts the row.                                                 *)
CreateRow(r, d, gid) ==
  /\ reqs[r] = <<"create", d, gid>>
  /\ \/ /\ row' = [row EXCEPT ![d] = [NoCopy EXCEPT !.status = "ready", !.gid = gid]]
        /\ reqs' = [reqs EXCEPT ![r] = <<"watch", d, gid>>]
     \/ /\ d \in DbFaults
        /\ reqs' = [reqs EXCEPT ![r] = <<"idle">>]
        /\ UNCHANGED row
  /\ UNCHANGED <<mon, aria2, fetched, transfers, server, resume, crashes, excused>>

(* NewMonitor with a copy of the row and the node it names.                 *)
NewMonitor(d, copy) ==
  mon' = [mon EXCEPT ![d] = [NoMonitor EXCEPT !.pc = "loop", !.task = copy]]

(* The handler's own copy, whatever has become of the row.                  *)
WatchNew(r, d, gid) ==
  /\ reqs[r] = <<"watch", d, gid>>
  /\ NewMonitor(d, [NoCopy EXCEPT !.status = "ready", !.gid = gid])
  /\ reqs' = [reqs EXCEPT ![r] = <<"idle">>]
  /\ UNCHANGED <<row, aria2, fetched, transfers, server, resume, crashes, excused>>

(* DownloadTaskService.Delete: an ended row goes, any other download is     *)
(* canceled in the daemon.  A row without a GID is not found.               *)
DeleteRow(d) ==
  /\ server = "up"
  /\ row[d].status \in Ended /\ row[d].gid # 0
  /\ row' = [row EXCEPT ![d] = [NoCopy EXCEPT !.status = "deleted"]]
  /\ UNCHANGED <<mon, aria2, fetched, transfers, reqs, server, resume, crashes, excused>>

(* TaskBatchService.Delete of an administrator: the rows go whatever their  *)
(* status; daemon and monitor are not told.                                 *)
DeleteByAdmin(ids) ==
  /\ server = "up"
  /\ ids # {}
  /\ \A d \in ids : row[d].status \in Unfinished \cup Ended
  /\ row' = [d \in Download |->
               IF d \in ids THEN [NoCopy EXCEPT !.status = "deleted"] ELSE row[d]]
  /\ excused' = excused \cup (ids \cap UnfinishedRows)
  /\ UNCHANGED <<mon, aria2, fetched, transfers, reqs, server, resume, crashes>>

CancelDownload(d) ==
  /\ server = "up"
  /\ row[d].status \in Unfinished /\ row[d].gid # 0
  /\ CancelInDaemon(d, row[d].gid)
  /\ UNCHANGED <<row, mon, fetched, transfers, reqs, server, resume, crashes, excused>>

-----------------------------------------------------------------------------
(* Monitor.Update.                                                          *)

(* Variant: the count is compared before it is increased.                   *)
PollRefused_Late(d) ==
  /\ mon[d].pc = "loop"
  /\ mon' = IF mon[d].retried > MaxRetry
              THEN [mon EXCEPT ![d].pc = "giveUp"]
              ELSE [mon EXCEPT ![d].retried = @ + 1]
  /\ UNCHANGED <<row, aria2, fetched, transfers, reqs, server, resume, crashes, excused>>

(* Status fails: after MAX_RETRY failures in a row the monitor gives up.    *)
PollRefused(d) ==
  /\ mon[d].pc = "loop"
  /\ Refusal \in Answers(d, mon[d].task.gid)
  /\ mon' = IF mon[d].retried + 1 > MaxRetry
              THEN [mon EXCEPT ![d].pc = "giveUp"]
              ELSE [mon EXCEPT ![d].retried = @ + 1]
  /\ UNCHANGED <<row, aria2, fetched, transfers, reqs, server, resume, crashes, excused>>

(* FollowedBy: the row gets the GID of the download proper, whether or not  *)
(* that can be saved.                                                       *)
PollFollowed(d) ==
  /\ mon[d].pc = "loop"
  /\ Followed(d, mon[d].task.gid)
  /\ mon' = [mon EXCEPT ![d].pc = "follow", ![d].task.gid = 2, ![d].retried = 0]
  /\ UNCHANGED <<row, aria2, fetched, transfers, reqs, server, resume, crashes, excused>>

SaveGid(d) ==
  /\ mon[d].pc = "follow"
  /\ Save(d, mon[d].task) \/ SaveFails(d)
  /\ Goto(d, "loop")
  /\ UNCHANGED <<aria2, fetched, transfers, reqs, server, resume, crashes, excused>>

(* UpdateTaskInfo takes over status, GID and length of the answer, which    *)
(* may be another one at each poll ...                                      *)
Poll(d) ==
  /\ mon[d].pc = "loop"
  /\ ~Followed(d, mon[d].task.gid)
  /\ \E answer \in Answers(d, mon[d].task.gid) \ {Refusal}, known \in BOOLEAN :
       LET new == [mon[d].task EXCEPT
                     !.status = GetStatus(answer),
                     !.gid    = IF answer = "blank" THEN 0 ELSE @,
                     !.sized  = answer # "blank" /\ known]
       IN  mon' = [mon EXCEPT ![d] = [pc |-> "save", task |-> new, retried |-> 0,
                                      resized |-> new.sized # mon[d].task.sized]]
  /\ UNCHANGED <<row, aria2, fetched, transfers, reqs, server, resume, crashes, excused>>

(* The switch on the status.  An error of the daemon is "error", the case   *)
(* is "err": like an unknown status it ends the monitor and nothing else.   *)
NextPc(d) ==
  CASE mon[d].resized                      -> "validate"
    [] mon[d].task.status = "complete"     -> "record"
    [] mon[d].task.status = "canceled"     -> "cancel"
    [] mon[d].task.status \in Unfinished   -> "loop"
    [] OTHER                               -> "none"

(* ... and saves the row.                                                   *)
SaveInfo(d) ==
  /\ mon[d].pc = "save"
  /\ \/ /\ Save(d, mon[d].task)
        /\ IF NextPc(d) = "none" THEN End(d) ELSE Goto(d, NextPc(d))
     \/ /\ SaveFails(d)
        /\ Goto(d, "giveUp")
  /\ UNCHANGED <<aria2, fetched, transfers, reqs, server, resume, crashes, excused>>

(* ValidateFile when the length has changed.  GetOwner has its condition    *)
(* the wrong way round: it returns nil for an owner who is found, and for   *)
(* one who is not an empty user, whose policy has no handler: an error      *)
(* either way.                                                              *)
ValidateFile(d) ==
  /\ mon[d].pc = "validate"
  /\ CancelInDaemon(d, mon[d].task.gid)
  /\ Goto(d, "giveUp")
  /\ UNCHANGED <<row, fetched, transfers, reqs, server, resume, crashes, excused>>

(* Variant: the monitor ends without a word.                                *)
SetErrorStatus_Unsaved(d) ==
  /\ mon[d].pc = "giveUp"
  /\ End(d)
  /\ UNCHANGED <<row, aria2, fetched, transfers, reqs, server, resume, crashes, excused>>

(* setErrorStatus, and the end of the monitor.                              *)
SetErrorStatus(d) ==
  /\ mon[d].pc = "giveUp"
  /\ Save(d, [mon[d].task EXCEPT !.status = "error"]) \/ SaveFails(d)
  /\ End(d)
  /\ UNCHANGED <<aria2, fetched, transfers, reqs, server, resume, crashes, excused>>

SaveCanceled(d) ==
  /\ mon[d].pc = "cancel"
  /\ Save(d, mon[d].task) \/ SaveFails(d)
  /\ End(d)
  /\ UNCHANGED <<aria2, fetched, transfers, reqs, server, resume, crashes, excused>>

(* Complete: NewTransferTask needs an active owner and inserts the task,    *)
(* which the task pool runs, and resumes, from then on.                     *)
RecordTransfer(d) ==
  /\ mon[d].pc = "record"
  /\ \/ /\ transfers' = [transfers EXCEPT ![d] = @ + 1]
        /\ Goto(d, "link")
     \/ /\ d \in Orphaned \cup DbFaults
        /\ Goto(d, "giveUp")
        /\ UNCHANGED transfers
  /\ UNCHANGED <<row, aria2, fetched, reqs, server, resume, crashes, excused>>

LinkTransfer(d) ==
  /\ mon[d].pc = "link"
  /\ Save(d, [mon[d].task EXCEPT !.task = TRUE]) \/ SaveFails(d)
  /\ End(d)
  /\ UNCHANGED <<aria2, fetched, transfers, reqs, server, resume, crashes, excused>>

-----------------------------------------------------------------------------
(* The server: aria2.Init before the first request.                         *)

(* Variant: paused downloads are not resumed.                               *)
BootDownloads_NotPaused ==
  /\ server = "down"
  /\ server' = "booting"
  /\ resume' = {d \in Download : row[d].status \in {"ready", "downloading"}}
  /\ UNCHANGED <<row, mon, aria2, fetched, transfers, reqs, crashes, excused>>

BootDownloads ==
  /\ server = "down"
  /\ server' = "booting"
  /\ resume' = UnfinishedRows
  /\ UNCHANGED <<row, mon, aria2, fetched, transfers, reqs, crashes, excused>>

ResumeMonitor(d) ==
  /\ d \in resume
  /\ resume' = resume \ {d}
  /\ NewMonitor(d, row[d])
  /\ UNCHANGED <<row, aria2, fetched, transfers, reqs, server, crashes, excused>>

ServeRequests ==
  /\ server = "booting" /\ resume = {}
  /\ server' = "up"
  /\ UNCHANGED <<row, mon, aria2, fetched, transfers, reqs, resume, crashes, excused>>

Crash ==
  /\ server # "down" /\ crashes < MaxCrashes
  /\ server' = "down"
  /\ crashes' = crashes + 1
  /\ resume' = {}
  /\ mon' = [d \in Download |-> NoMonitor]
  /\ reqs' = [r \in Request |-> <<"idle">>]
  /\ UNCHANGED <<row, aria2, fetched, transfers, excused>>

-----------------------------------------------------------------------------
(* The daemon.                                                              *)
(* The metadata is complete: the download proper begins.                    *)
FetchMetadata(d) ==
  /\ d \in Magnet \ fetched /\ aria2[d] = "running"
  /\ fetched' = fetched \cup {d}
  /\ UNCHANGED <<row, mon, aria2, transfers, reqs, server, resume, crashes, excused>>

Settle(d) ==
  /\ aria2[d] = "running"
  /\ \E s \in {"complete", "error", "removed", "forgotten"} :
       /\ s = "complete" => d \notin Magnet \ fetched
       /\ aria2' = [aria2 EXCEPT ![d] = s]
  /\ UNCHANGED <<row, mon, fetched, transfers, reqs, server, resume, crashes, excused>>

MonitorStep(d) ==
  \/ PollRefused(d) \/ PollFollowed(d) \/ SaveGid(d) \/ Poll(d) \/ SaveInfo(d)
  \/ ValidateFile(d) \/ SetErrorStatus(d) \/ SaveCanceled(d)
  \/ RecordTransfer(d) \/ LinkTransfer(d)

AddStep(r) ==
  \/ \E d \in Download : CreateTask(r, d)
  \/ \E d \in Download, gid \in {0, 1} : CreateRow(r, d, gid) \/ WatchNew(r, d, gid)

Next ==
  \/ \E r \in Request : CountDownloads(r) \/ CountFails(r) \/ AddStep(r)
  \/ \E d \in Download : \/ MonitorStep(d) \/ ResumeMonitor(d)
                         \/ DeleteRow(d) \/ CancelDownload(d)
                         \/ FetchMetadata(d) \/ Settle(d)
  \/ \E ids \in SUBSET Download : DeleteByAdmin(ids)
  \/ BootDownloads \/ ServeRequests \/ Crash

Spec == Init /\ [][Next]_vars

BootStep == BootDownloads \/ ServeRequests \/ \E d \in Download : ResumeMonitor(d)

(* Handlers, monitors and the boot are scheduled; the daemon brings every   *)
(* download to an end.                                                      *)
FairSpec ==
  /\ Spec
  /\ WF_vars(BootStep)
  /\ \A r \in Request : WF_vars(AddStep(r))
  /\ \A d \in Download : WF_vars(MonitorStep(d)) /\ WF_vars(Settle(d))

-----------------------------------------------------------------------------
TypeOK ==
  /\ row \in [Download -> Copy]
  /\ mon \in [Download -> Monitor]
  /\ aria2 \in [Download -> Daemon]
  /\ fetched \subseteq Magnet
  /\ transfers \in [Download -> Nat]
  /\ reqs \in [Request -> {<<"idle">>, <<"call">>, <<"blind">>}
                           \cup ({"create", "watch"} \X Download \X {0, 1})]
  /\ server \in {"down", "booting", "up"}
  /\ resume \subseteq Download
  /\ crashes \in 0..MaxCrashes
  /\ excused \subseteq Download

(* While the server is up every unfinished download has a monitor, or a     *)
(* handler about to start it, through crashes, cancellations and deletions; *)
(* a failing save may leave one without until the next restart.  Yet it is  *)
(* transferred once at most: the status is saved before the transfer is     *)
(* recorded (UpdateTaskInfo before Complete), so that no crash, failing     *)
(* save or early poll makes a second monitor record it again.               *)
Monitored ==
  /\ server = "up" =>
       \A d \in UnfinishedRows \ DbFaults :
         \/ mon[d].pc # "none"
         \/ \E r \in Request, gid \in {0, 1} : reqs[r] = <<"watch", d, gid>>
  /\ \A d \in Download : transfers[d] <= 1

(* Add counts, asks the daemon and inserts in separate steps, so that the   *)
(* count is old when the row is inserted: the unfinished downloads and      *)
(* those being added exceed the batch size by one for every other handler   *)
(* at most.  Downloads whose count failed are not limited at all, nor are   *)
(* those an administrator deleted before their end, which their monitor may *)
(* insert again.                                                            *)
Adding == {r \in Request :
             \/ reqs[r] = <<"call">>
             \/ \E d \in Download \ excused, gid \in {0, 1} : reqs[r] = <<"create", d, gid>>}

BatchBound ==
  Limit > 0 => Cardinality(UnfinishedRows \ excused) + Cardinality(Adding)
                 <= Limit + Cardinality(Request) - 1

(* An unfinished download ends, across crashes, refused calls, and a daemon *)
(* that has forgotten it.                                                   *)
DownloadsEnd ==
  \A d \in Download \ DbFaults :
    row[d].status \in Unfinished ~> row[d].status \notin Unfinished
=============================================================================
