-------------------------- MODULE Downloads_proofs --------------------------
(***************************************************************************)
(* Proofs about Downloads: that its invariants hold for every number of    *)
(* downloads, handlers and crashes.                                        *)
(*                                                                         *)
(* None of them is inductive.  What keeps a row from being resumed after   *)
(* its transfer, and the number of unfinished rows from growing, is that a *)
(* monitor saves nothing unfinished into a row that has ended, unless an   *)
(* administrator deleted it before; so the inductive invariant follows     *)
(* each row together with the monitor's copy of it, and counts the         *)
(* handlers that have passed the check of the batch size with the rows.    *)
(***************************************************************************)
EXTENDS Downloads, FiniteSetTheorems, TLAPS

Over == Ended \cup {"deleted"}

(* A download that has not ended, unless for an administrator.              *)
Awaited(d) == row[d].status \in Unfinished \/ (d \in excused /\ row[d].status = "deleted")

(* What the monitor of a download is about to save, and its row.            *)
Following(d) ==
  /\ mon[d].pc \in {"loop", "follow"} => mon[d].task.status \in Unfinished
  /\ mon[d].pc \in {"loop", "follow", "save"} => Awaited(d)
  /\ mon[d].pc = "save" => mon[d].task.status \in Unfinished \cup Ended
  /\ mon[d].pc = "cancel" => mon[d].task.status = "canceled"
  /\ mon[d].pc \in {"record", "link"} =>
       mon[d].task.status = "complete" /\ row[d].status \in Over
  /\ mon[d].pc # "none" => row[d].status # "none"
  /\ mon[d].task.gid # 0 \/ row[d].gid # 0 => aria2[d] # "none"

Watching(d, r) == reqs[r] \in {<<"watch", d, 0>>, <<"watch", d, 1>>}
Creating(d, r) == reqs[r] \in {<<"create", d, 0>>, <<"create", d, 1>>}
Asked(d, r)    == reqs[r] \in {<<"create", d, 1>>, <<"watch", d, 1>>}

Watched(d) ==
  /\ d \in resume => server = "booting" /\ mon[d].pc = "none" /\ row[d].status \in Unfinished
  /\ server # "down" /\ d \notin DbFaults /\ row[d].status \in Unfinished =>
       mon[d].pc # "none" \/ d \in resume \/ \E r \in Request : Watching(d, r)

Transferred(d) ==
  /\ transfers[d] <= 1
  /\ transfers[d] = 1 => mon[d].pc \in {"none", "link"} /\ row[d].status \in Over

Added(d) == \A r \in Request :
  /\ Watching(d, r) => mon[d].pc = "none" /\ Awaited(d) /\ transfers[d] # 1
  /\ Creating(d, r) => row[d].status = "none"
  /\ Asked(d, r) => aria2[d] # "none"
  /\ \A q \in Request : q # r =>
       ~(Watching(d, r) /\ Watching(d, q)) /\ ~(Creating(d, r) /\ Creating(d, q))

(* Only a server that is up has handlers, only one that runs has monitors.  *)
Idle ==
  /\ server # "up" => \A r \in Request : reqs[r] = <<"idle">>
  /\ server = "down" => \A d \in Download : mon[d].pc = "none"

Limited == UnfinishedRows \ excused
Pending == {r \in Request :
              reqs[r] = <<"call">> \/ \E d \in Download \ excused : Creating(d, r)}

Counted ==
  Limit > 0 => Cardinality(Limited) + Cardinality(Pending)
                 <= Limit + Cardinality(Request) - 1

Tracked(d) == Following(d) /\ Watched(d) /\ Transferred(d) /\ Added(d)

Inv ==
  /\ TypeOK
  /\ \A d \in Download : Tracked(d)
  /\ Idle
  /\ Counted
-----------------------------------------------------------------------------
(* Type correctness.                                                        *)

Pcs == {"none", "loop", "follow", "save", "validate", "giveUp", "cancel", "record", "link"}

LEMMA NothingYet == NoCopy \in Copy /\ NoMonitor \in Monitor
<1>1. NoCopy \in Copy
  BY DEF NoCopy, Copy
<1>2. QED
  BY <1>1, BoundsOk DEF NoMonitor, Monitor

LEMMA CopyFields ==
  ASSUME NEW c \in Copy
  PROVE  /\ [c EXCEPT !.gid = 2] \in Copy
         /\ [c EXCEPT !.status = "error"] \in Copy
         /\ [c EXCEPT !.task = TRUE] \in Copy
<1>1. /\ [c EXCEPT !.gid = 2] \in Copy
      /\ [c EXCEPT !.status = "error"] \in Copy
  BY DEF Copy, Ended
<1>2. [c EXCEPT !.task = TRUE] \in Copy
  BY Zenon DEF Copy
<1>3. QED
  BY <1>1, <1>2

(* What becomes of the copy with the answer of a poll.                      *)
Told(d, answer, known) == [mon[d].task EXCEPT
                             !.status = GetStatus(answer),
                             !.gid    = IF answer = "blank" THEN 0 ELSE @,
                             !.sized  = answer # "blank" /\ known]

Polled(d, new) == [pc |-> "save", task |-> new, retried |-> 0,
                   resized |-> new.sized # mon[d].task.sized]

LEMMA AnswerKinds ==
  ASSUME TypeOK, NEW d \in Download, NEW gid, NEW answer \in Answers(d, gid) \ {Refusal}
  PROVE  /\ GetStatus(answer) \in {"none"} \cup Unfinished \cup Ended
         /\ GetStatus(answer) = "none" => gid # 0 /\ aria2[d] = "none"
         /\ gid = 0 => answer = "blank"
  BY SMTT(30) DEF Answers, Rejection, Refusal, GetStatus, TypeOK, Daemon, Unfinished, Ended

LEMMA PolledType ==
  ASSUME TypeOK, NEW d \in Download, NEW known \in BOOLEAN,
         NEW answer \in Answers(d, mon[d].task.gid) \ {Refusal}
  PROVE  /\ Told(d, answer, known) \in Copy
         /\ Told(d, answer, known).status = GetStatus(answer)
         /\ Told(d, answer, known).gid = IF answer = "blank" THEN 0 ELSE mon[d].task.gid
         /\ Polled(d, Told(d, answer, known)) \in Monitor
<1> DEFINE z     == answer # "blank" /\ known
           g     == IF answer = "blank" THEN 0 ELSE mon[d].task.gid
           t     == mon[d].task
           n     == Told(d, answer, known)
<1>0. t \in Copy /\ g \in 0..2
  BY DEF TypeOK, Monitor, Copy
<1>1. t \in Copy /\ g \in 0..2 /\ z \in BOOLEAN
  BY <1>0, Zenon
<1>2. GetStatus(answer) \in {"none", "deleted"} \cup Unfinished \cup Ended
  BY AnswerKinds
<1>3. n = [t EXCEPT !.status = GetStatus(answer), !.gid = g, !.sized = z]
  BY Zenon DEF Told
<1> HIDE DEF n, t, g, z
<1>4. n = [status |-> GetStatus(answer), gid |-> g, sized |-> z, task |-> t.task]
  BY <1>1, <1>3 DEF Copy
<1>5. t.task \in BOOLEAN
  BY <1>1 DEF Copy
<1>6. n \in Copy
  BY <1>1, <1>2, <1>4, <1>5, Zenon DEF Copy
<1>7. n.status = GetStatus(answer) /\ n.gid = g
  BY <1>4
<1>8. (n.sized # mon[d].task.sized) \in BOOLEAN
  OBVIOUS
<1>9. Polled(d, n) \in Monitor
  BY <1>6, <1>8, BoundsOk DEF Polled, Monitor
<1>10. QED
  BY <1>6, <1>7, <1>9 DEF n, g
(* The variables one step of a monitor can change, for every other download. *)
Others(d) == \A e \in Download \ {d} :
  /\ row'[e] = row[e] /\ mon'[e] = mon[e]
  /\ aria2'[e] = aria2[e] /\ transfers'[e] = transfers[e]

(* What a save leaves in the row.                                           *)
Saved(d, copy) ==
  \/ row'[d] = copy
  \/ row'[d] = row[d] /\ (d \in DbFaults \/ row[d].status = "deleted")

LEMMA Saves ==
  ASSUME TypeOK, NEW d \in Download, NEW copy \in Copy, Save(d, copy) \/ SaveFails(d)
  PROVE  /\ row' \in [Download -> Copy]
         /\ Saved(d, copy)
         /\ \A e \in Download \ {d} : row'[e] = row[e]
  BY DEF Save, SaveFails, TypeOK, Saved

LEMMA Becomes ==
  ASSUME TypeOK, NEW d \in Download, NEW m \in Monitor, mon' = [mon EXCEPT ![d] = m]
  PROVE  /\ mon' \in [Download -> Monitor]
         /\ mon'[d] = m
         /\ \A e \in Download \ {d} : mon'[e] = mon[e]
  BY DEF TypeOK

LEMMA Goes ==
  ASSUME TypeOK, NEW d \in Download, NEW pc \in Pcs, Goto(d, pc)
  PROVE  /\ mon' \in [Download -> Monitor]
         /\ mon'[d].pc = pc /\ mon'[d].task = mon[d].task
         /\ \A e \in Download \ {d} : mon'[e] = mon[e]
<1>1. mon' = [mon EXCEPT ![d] = [mon[d] EXCEPT !.pc = pc]]
  BY Zenon DEF Goto
<1>2. mon[d] \in Monitor
  BY DEF TypeOK
<1>3. [mon[d] EXCEPT !.pc = pc] \in Monitor
  BY <1>2, BoundsOk DEF Monitor, Pcs
<1>4. [mon[d] EXCEPT !.pc = pc].pc = pc /\ [mon[d] EXCEPT !.pc = pc].task = mon[d].task
  BY <1>2 DEF Monitor
<1>5. QED
  BY <1>1, <1>3, <1>4, Becomes

LEMMA Ends ==
  ASSUME TypeOK, NEW d \in Download, End(d)
  PROVE  /\ mon' \in [Download -> Monitor]
         /\ mon'[d].pc = "none" /\ mon'[d].task.gid = 0
         /\ \A e \in Download \ {d} : mon'[e] = mon[e]
  BY NothingYet, Becomes DEF End, NoMonitor, NoCopy

-----------------------------------------------------------------------------
(* What each step of a monitor does to its download.                        *)

(* What no step of a monitor changes.                                       *)
Elsewhere == UNCHANGED <<reqs, server, resume, excused>>

LEMMA PollRefusedDoes ==
  ASSUME TypeOK, NEW d \in Download, PollRefused(d)
  PROVE  /\ TypeOK' /\ Others(d) /\ Elsewhere
         /\ UNCHANGED <<row, aria2, transfers>>
         /\ mon[d].pc = "loop" /\ mon'[d].pc \in {"loop", "giveUp"}
         /\ mon'[d].task.status = mon[d].task.status
         /\ mon'[d].task.gid = mon[d].task.gid
<1>1. mon[d] \in Monitor /\ mon[d].retried \in 0..MaxRetry /\ MaxRetry \in Nat
  BY BoundsOk DEF TypeOK, Monitor
<1>2. CASE mon[d].retried + 1 > MaxRetry
  <2>1. Goto(d, "giveUp") /\ "giveUp" \in Pcs
    BY <1>2 DEF PollRefused, Goto, Pcs
  <2>2. QED
    BY <2>1, Goes DEF PollRefused, TypeOK, Others, Elsewhere
<1>3. CASE ~(mon[d].retried + 1 > MaxRetry)
  <2> DEFINE m == [mon[d] EXCEPT !.retried = @ + 1]
  <2>1. mon' = [mon EXCEPT ![d] = m]
    BY <1>3 DEF PollRefused
  <2>2. m \in Monitor /\ m.pc = mon[d].pc /\ m.task = mon[d].task
    BY <1>1, <1>3 DEF Monitor
  <2> HIDE DEF m
  <2>3. QED
    BY <2>1, <2>2, Becomes DEF PollRefused, TypeOK, Others, Elsewhere
<1>4. QED
  BY <1>2, <1>3

LEMMA PollFollowedDoes ==
  ASSUME TypeOK, NEW d \in Download, PollFollowed(d)
  PROVE  /\ TypeOK' /\ Others(d) /\ Elsewhere
         /\ UNCHANGED <<row, aria2, transfers>>
         /\ mon[d].pc = "loop" /\ mon'[d].pc = "follow"
         /\ mon'[d].task.status = mon[d].task.status
         /\ mon[d].task.gid # 0
<1> DEFINE c == [mon[d].task EXCEPT !.gid = 2]
           m == [mon[d] EXCEPT !.pc = "follow", !.task = c, !.retried = 0]
<1>1. mon' = [mon EXCEPT ![d] = m]
  BY Zenon DEF PollFollowed
<1>2. mon[d] \in Monitor /\ mon[d].task \in Copy
  BY DEF TypeOK, Monitor
<1>3. c \in Copy /\ c.status = mon[d].task.status
  BY <1>2 DEF Copy
<1> HIDE DEF c
<1>4. m \in Monitor /\ m.pc = "follow" /\ m.task = c
  <2>1. 0 \in 0..MaxRetry
    BY BoundsOk
  <2> DEFINE n == [mon[d] EXCEPT !.pc = "follow", !.task = c]
  <2>2. n \in Monitor /\ n.pc = "follow" /\ n.task = c
    BY <1>2, <1>3 DEF Monitor
  <2>3. m = [n EXCEPT !.retried = 0]
    BY Zenon
  <2> HIDE DEF n, m
  <2>4. QED
    BY <2>1, <2>2, <2>3 DEF Monitor
<1> HIDE DEF m
<1>5. mon[d].task.gid # 0
  BY <1>2 DEF PollFollowed, Followed, Copy
<1>6. QED
  BY <1>1, <1>3, <1>4, <1>5, Becomes DEF PollFollowed, TypeOK, Others, Elsewhere

LEMMA SaveGidDoes ==
  ASSUME TypeOK, NEW d \in Download, SaveGid(d)
  PROVE  /\ TypeOK' /\ Others(d) /\ Elsewhere
         /\ UNCHANGED <<aria2, transfers>>
         /\ mon[d].pc = "follow" /\ mon'[d].pc = "loop"
         /\ mon'[d].task = mon[d].task
         /\ Saved(d, mon[d].task)
<1>1. mon[d].task \in Copy
  BY DEF TypeOK, Monitor
<1>2. Goto(d, "loop") /\ "loop" \in Pcs
  BY DEF SaveGid, Pcs
<1>3. QED
  BY <1>1, <1>2, Saves, Goes DEF SaveGid, TypeOK, Others, Elsewhere

LEMMA PollDoes ==
  ASSUME TypeOK, NEW d \in Download, Poll(d)
  PROVE  /\ TypeOK' /\ Others(d) /\ Elsewhere
         /\ UNCHANGED <<row, aria2, transfers>>
         /\ mon[d].pc = "loop" /\ mon'[d].pc = "save"
         /\ mon'[d].task.status \in {"none"} \cup Unfinished \cup Ended
         /\ mon'[d].task.status = "none" => mon[d].task.gid # 0 /\ aria2[d] = "none"
         /\ mon'[d].task.gid # 0 => mon[d].task.gid # 0
<1>1. PICK answer \in Answers(d, mon[d].task.gid) \ {Refusal}, known \in BOOLEAN :
        mon' = [mon EXCEPT ![d] = Polled(d, Told(d, answer, known))]
  BY Zenon DEF Poll, Polled, Told
<1>2. /\ Polled(d, Told(d, answer, known)).pc = "save"
      /\ Polled(d, Told(d, answer, known)).task = Told(d, answer, known)
  BY DEF Polled
<1>3. QED
  BY <1>1, <1>2, PolledType, AnswerKinds, Becomes DEF Poll, TypeOK, Others, Elsewhere

(* A row is saved, or the monitor gives up.                                 *)
LEMMA SaveInfoDoes ==
  ASSUME TypeOK, NEW d \in Download, SaveInfo(d)
  PROVE  /\ TypeOK' /\ Others(d) /\ Elsewhere
         /\ UNCHANGED <<aria2, transfers>>
         /\ mon[d].pc = "save"
         /\ \/ /\ Saved(d, mon[d].task)
               /\ row'[d] = mon[d].task \/ row[d].status = "deleted"
               /\ mon'[d].task = mon[d].task
               /\ \/ mon'[d].pc = "validate"
                  \/ mon'[d].pc = "record" /\ mon[d].task.status = "complete"
                  \/ mon'[d].pc = "cancel" /\ mon[d].task.status = "canceled"
                  \/ mon'[d].pc = "loop" /\ mon[d].task.status \in Unfinished
            \/ /\ Saved(d, mon[d].task)
               /\ row'[d] = mon[d].task \/ row[d].status = "deleted"
               /\ mon'[d].pc = "none" /\ mon'[d].task.gid = 0
               /\ mon[d].task.status \notin Unfinished
            \/ /\ row' = row
               /\ d \in DbFaults \/ row[d].status = "deleted"
               /\ mon'[d].pc = "giveUp"
               /\ mon'[d].task.status = mon[d].task.status
               /\ mon'[d].task.gid = mon[d].task.gid
<1>1. mon[d].task \in Copy
  BY DEF TypeOK, Monitor
<1>2. CASE /\ Save(d, mon[d].task)
           /\ IF NextPc(d) = "none" THEN End(d) ELSE Goto(d, NextPc(d))
  <2>1. /\ row' \in [Download -> Copy] /\ Saved(d, mon[d].task)
        /\ \A e \in Download \ {d} : row'[e] = row[e]
    BY <1>1, <1>2, Saves
  <2>2. row'[d] = mon[d].task \/ row[d].status = "deleted"
    BY <1>2, <1>1 DEF Save, TypeOK
  <2>3. CASE NextPc(d) = "none"
    <3>1. End(d) /\ mon[d].task.status \notin Unfinished
      BY <1>2, <2>3 DEF NextPc
    <3>2. QED
      BY <2>1, <2>2, <3>1, Ends DEF SaveInfo, TypeOK, Others, Elsewhere
  <2>4. CASE NextPc(d) # "none"
    <3>1. /\ Goto(d, NextPc(d)) /\ NextPc(d) \in Pcs
          /\ \/ NextPc(d) = "validate"
             \/ NextPc(d) = "record" /\ mon[d].task.status = "complete"
             \/ NextPc(d) = "cancel" /\ mon[d].task.status = "canceled"
             \/ NextPc(d) = "loop" /\ mon[d].task.status \in Unfinished
      BY <1>2, <2>4 DEF NextPc, Pcs
    <3>2. QED
      BY <2>1, <2>2, <3>1, Goes DEF SaveInfo, TypeOK, Others, Elsewhere
  <2>5. QED
    BY <2>3, <2>4
<1>3. CASE SaveFails(d) /\ Goto(d, "giveUp")
  BY <1>3, Goes DEF SaveInfo, SaveFails, TypeOK, Others, Elsewhere, Pcs
<1>4. QED
  BY <1>2, <1>3 DEF SaveInfo

(* The daemon drops the download at most.                                   *)
LEMMA CancelType ==
  ASSUME TypeOK, NEW d \in Download, NEW gid, CancelInDaemon(d, gid)
  PROVE  /\ aria2' \in [Download -> Daemon]
         /\ aria2[d] # "none" => aria2'[d] # "none"
         /\ \A e \in Download \ {d} : aria2'[e] = aria2[e]
  BY DEF CancelInDaemon, TypeOK, Daemon

LEMMA ValidateFileDoes ==
  ASSUME TypeOK, NEW d \in Download, ValidateFile(d)
  PROVE  /\ TypeOK' /\ Others(d) /\ Elsewhere
         /\ UNCHANGED <<row, transfers>>
         /\ mon[d].pc = "validate" /\ mon'[d].pc = "giveUp"
         /\ aria2[d] # "none" => aria2'[d] # "none"
         /\ mon'[d].task.status = mon[d].task.status
         /\ mon'[d].task.gid = mon[d].task.gid
<1>1. Goto(d, "giveUp") /\ "giveUp" \in Pcs
  BY DEF ValidateFile, Pcs
<1>2. QED
  BY <1>1, Goes, CancelType, ZenonT(90) DEF ValidateFile, TypeOK, Others, Elsewhere

(* The ends of a monitor.                                                   *)
LEMMA SetErrorStatusDoes ==
  ASSUME TypeOK, NEW d \in Download, SetErrorStatus(d)
  PROVE  /\ TypeOK' /\ Others(d) /\ Elsewhere
         /\ UNCHANGED <<aria2, transfers>>
         /\ mon[d].pc = "giveUp" /\ mon'[d].pc = "none" /\ mon'[d].task.gid = 0
         /\ \E c \in Copy : Saved(d, c) /\ c.status = "error" /\ c.gid = mon[d].task.gid
<1>1. mon[d].task \in Copy
  BY DEF TypeOK, Monitor
<1> DEFINE c == [mon[d].task EXCEPT !.status = "error"]
<1>2. c \in Copy /\ c.status = "error" /\ c.gid = mon[d].task.gid
  BY <1>1 DEF Copy, Ended
<1>3. Save(d, c) \/ SaveFails(d)
  BY DEF SetErrorStatus
<1> HIDE DEF c
<1>4. QED
  BY <1>2, <1>3, Saves, Ends DEF SetErrorStatus, TypeOK, Others, Elsewhere

LEMMA SaveCanceledDoes ==
  ASSUME TypeOK, NEW d \in Download, SaveCanceled(d)
  PROVE  /\ TypeOK' /\ Others(d) /\ Elsewhere
         /\ UNCHANGED <<aria2, transfers>>
         /\ mon[d].pc = "cancel" /\ mon'[d].pc = "none" /\ mon'[d].task.gid = 0
         /\ Saved(d, mon[d].task)
<1>1. mon[d].task \in Copy
  BY DEF TypeOK, Monitor
<1>2. QED
  BY <1>1, Saves, Ends DEF SaveCanceled, TypeOK, Others, Elsewhere

LEMMA LinkTransferDoes ==
  ASSUME TypeOK, NEW d \in Download, LinkTransfer(d)
  PROVE  /\ TypeOK' /\ Others(d) /\ Elsewhere
         /\ UNCHANGED <<aria2, transfers>>
         /\ mon[d].pc = "link" /\ mon'[d].pc = "none" /\ mon'[d].task.gid = 0
         /\ \E c \in Copy : Saved(d, c) /\ c.status = mon[d].task.status
                                        /\ c.gid = mon[d].task.gid
<1>1. mon[d].task \in Copy
  BY DEF TypeOK, Monitor
<1> DEFINE c == [mon[d].task EXCEPT !.task = TRUE]
<1>2. c \in Copy
  BY <1>1, CopyFields
<1>3. c.status = mon[d].task.status /\ c.gid = mon[d].task.gid
  BY <1>1, Zenon DEF Copy
<1>4. Save(d, c) \/ SaveFails(d)
  BY Zenon DEF LinkTransfer
<1> HIDE DEF c
<1>5. QED
  BY <1>2, <1>3, <1>4, Saves, Ends DEF LinkTransfer, TypeOK, Others, Elsewhere

LEMMA RecordTransferDoes ==
  ASSUME TypeOK, NEW d \in Download, RecordTransfer(d)
  PROVE  /\ TypeOK' /\ Others(d) /\ Elsewhere
         /\ UNCHANGED <<row, aria2>>
         /\ mon[d].pc = "record"
         /\ \/ /\ mon'[d].pc = "link" /\ mon'[d].task = mon[d].task
               /\ transfers'[d] = transfers[d] + 1
            \/ /\ mon'[d].pc = "giveUp" /\ transfers' = transfers
               /\ mon'[d].task.status = mon[d].task.status
               /\ mon'[d].task.gid = mon[d].task.gid
<1>1. CASE transfers' = [transfers EXCEPT ![d] = @ + 1] /\ Goto(d, "link")
  <2>1. "link" \in Pcs
    BY DEF Pcs
  <2>2. QED
    BY <1>1, <2>1, Goes DEF RecordTransfer, TypeOK, Others, Elsewhere
<1>2. CASE Goto(d, "giveUp") /\ UNCHANGED transfers
  BY <1>2, Goes DEF RecordTransfer, TypeOK, Others, Elsewhere, Pcs
<1>3. QED
  BY <1>1, <1>2 DEF RecordTransfer
-----------------------------------------------------------------------------
(* A download is tracked through every step of its monitor.                 *)

LEMMA OthersTracked ==
  ASSUME NEW d \in Download, Others(d), Elsewhere,
         NEW e \in Download \ {d}, Tracked(e)
  PROVE  Tracked(e)'
  BY DEF Others, Elsewhere, Tracked, Following, Watched, Transferred, Added,
         Watching, Creating, Asked, Awaited

LEMMA MonitorTracks ==
  ASSUME TypeOK, Idle, NEW d \in Download, Tracked(d), MonitorStep(d)
  PROVE  /\ TypeOK' /\ Others(d) /\ Elsewhere /\ Tracked(d)'
         /\ row'[d].status \in Unfinished => row[d].status \in Unfinished \/ d \in excused
         /\ mon[d].pc # "none"
<1> USE DEF Tracked
<1>0. \A r \in Request : mon[d].pc # "none" => ~Watching(d, r) /\ ~Creating(d, r)
  BY DEF Following, Added
<1>1. mon[d].pc # "none" /\ d \in resume => FALSE
  BY DEF Watched
<1>t. row \in [Download -> Copy] /\ transfers[d] \in Nat
  BY DEF TypeOK
<1>2. CASE PollRefused(d)
  BY <1>0, <1>1, <1>2, PollRefusedDoes
  DEF Elsewhere, Following, Watched, Transferred, Added, Watching, Creating, Asked, Awaited
<1>3. CASE PollFollowed(d)
  BY <1>0, <1>1, <1>3, PollFollowedDoes
  DEF Elsewhere, Following, Watched, Transferred, Added, Watching, Creating, Asked, Awaited
<1>4. CASE SaveGid(d)
  BY <1>0, <1>1, <1>4, SaveGidDoes
  DEF Elsewhere, Following, Watched, Transferred, Added, Watching, Creating, Asked, Awaited, Saved,
      Over, Unfinished, Ended
<1>5. CASE Poll(d)
  BY <1>0, <1>1, <1>5, PollDoes
  DEF Elsewhere, Following, Watched, Transferred, Added, Watching, Creating, Asked, Awaited
<1>6. CASE SaveInfo(d)
  BY <1>0, <1>1, <1>6, SaveInfoDoes
  DEF Elsewhere, Following, Watched, Transferred, Added, Watching, Creating, Asked, Awaited, Saved,
      Over, Unfinished, Ended
<1>7. CASE ValidateFile(d)
  BY <1>0, <1>1, <1>7, ValidateFileDoes
  DEF Elsewhere, Following, Watched, Transferred, Added, Watching, Creating, Asked, Awaited
<1>8. CASE SetErrorStatus(d)
  BY <1>0, <1>1, <1>8, SetErrorStatusDoes
  DEF Elsewhere, Following, Watched, Transferred, Added, Watching, Creating, Asked, Awaited, Saved,
      Over, Unfinished, Ended
<1>9. CASE SaveCanceled(d)
  BY <1>0, <1>1, <1>9, SaveCanceledDoes
  DEF Elsewhere, Following, Watched, Transferred, Added, Watching, Creating, Asked, Awaited, Saved,
      Over, Unfinished, Ended
<1>10. CASE RecordTransfer(d)
  BY <1>0, <1>1, <1>t, <1>10, RecordTransferDoes
  DEF Elsewhere, Following, Watched, Transferred, Added, Watching, Creating, Asked, Awaited
<1>11. CASE LinkTransfer(d)
  BY <1>0, <1>1, <1>11, LinkTransferDoes
  DEF Elsewhere, Following, Watched, Transferred, Added, Watching, Creating, Asked, Awaited, Saved,
      Over, Unfinished, Ended
<1>12. QED
  BY <1>2, <1>3, <1>4, <1>5, <1>6, <1>7, <1>8, <1>9, <1>10, <1>11 DEF MonitorStep
-----------------------------------------------------------------------------
(* The batch size.                                                          *)

LEMMA Finite ==
  /\ IsFiniteSet(Limited) /\ Cardinality(Limited) \in Nat
  /\ IsFiniteSet(Pending) /\ Cardinality(Pending) \in Nat
  /\ Cardinality(Pending) <= Cardinality(Request)
  /\ Cardinality(Request) \in Nat
<1>1. Limited \subseteq Download /\ Pending \subseteq Request
  BY DEF UnfinishedRows, Limited, Pending
<1>2. QED
  BY <1>1, DownloadsFinite, FS_Subset, FS_CardinalityType

LEMMA CountsNoMore ==
  ASSUME Counted, Limited' \subseteq Limited, Pending' \subseteq Pending
  PROVE  Counted'
<1>1. /\ Cardinality(Limited') <= Cardinality(Limited)
      /\ Cardinality(Limited') \in Nat
      /\ Cardinality(Pending') <= Cardinality(Pending)
      /\ Cardinality(Pending') \in Nat
  BY Finite, FS_Subset, FS_CardinalityType
<1> DEFINE u == Cardinality(Limited)  v == Cardinality(Limited')
           p == Cardinality(Pending)         q == Cardinality(Pending')
           n == Cardinality(Request)
<1>2. n \in Nat /\ u \in Nat /\ p \in Nat /\ v \in Nat /\ q \in Nat /\ v <= u /\ q <= p
  BY <1>1, Finite
<1>3. Limit > 0 => u + p <= Limit + n - 1
  BY DEF Counted
<1>4. Limit \in Nat
  BY BoundsOk
<1> HIDE DEF u, v, p, q, n
<1>5. Limit > 0 => v + q <= Limit + n - 1
  BY <1>2, <1>3, <1>4
<1>6. QED
  BY <1>5 DEF Counted, v, q, n

(* Nothing that matters to the counts changes.                              *)
LEMMA CountsSame ==
  ASSUME Counted, UNCHANGED <<row, reqs, excused>>
  PROVE  Counted'
<1>1. Limited' \subseteq Limited /\ Pending' \subseteq Pending
  BY DEF UnfinishedRows, Limited, Pending, Creating
<1>2. QED
  BY <1>1, CountsNoMore

LEMMA MonitorCounts ==
  ASSUME Inv, NEW d \in Download, MonitorStep(d)
  PROVE  Inv'
<1> USE DEF Inv
<1>1. /\ TypeOK' /\ Others(d) /\ Elsewhere /\ Tracked(d)'
      /\ row'[d].status \in Unfinished => row[d].status \in Unfinished \/ d \in excused
      /\ mon[d].pc # "none"
  BY MonitorTracks
<1>2. \A e \in Download : Tracked(e)'
  BY <1>1, OthersTracked
<1>3. Idle'
  BY <1>1 DEF Idle, Elsewhere
<1>4. Limited' \subseteq Limited
  BY <1>1 DEF UnfinishedRows, Limited, Others, Elsewhere
<1>5. Pending' \subseteq Pending
  BY <1>1 DEF Pending, Creating, Elsewhere
<1>6. QED
  BY <1>1, <1>2, <1>3, <1>4, <1>5, CountsNoMore

(* A handler counts one row fewer than the batch size, before it adds one.  *)
LEMMA CountDownloadsStep ==
  ASSUME Inv, NEW r \in Request, CountDownloads(r)
  PROVE  Inv'
<1> USE DEF Inv
<1>1. TypeOK'
  BY DEF CountDownloads, TypeOK
<1>2. \A q \in Request : reqs'[q] = IF q = r THEN <<"call">> ELSE reqs[q]
  BY DEF CountDownloads, TypeOK
<1>3. ASSUME NEW e \in Download PROVE Tracked(e)'
  <2>1. \A q \in Request : /\ Watching(e, q)' <=> Watching(e, q)
                           /\ Creating(e, q)' <=> Creating(e, q)
                           /\ Asked(e, q)' <=> Asked(e, q)
    BY <1>2 DEF CountDownloads, Watching, Creating, Asked
  <2>2. QED
    BY <2>1 DEF CountDownloads, Tracked, Following, Watched, Transferred, Added, Awaited
<1>4. Idle'
  BY DEF CountDownloads, Idle
<1>5. Counted'
  <2>1. /\ Cardinality(Pending') <= Cardinality(Request) /\ Cardinality(Pending') \in Nat
        /\ Cardinality(Request) \in Nat
    <3>1. Pending' \subseteq Request
      BY DEF Pending
    <3>2. QED
      BY <3>1, DownloadsFinite, FS_Subset, FS_CardinalityType
  <2>2. Limited' = Limited
    BY DEF CountDownloads, UnfinishedRows, Limited
  <2>3. Limit > 0 => Cardinality(Limited) + 1 <= Limit
    <3>1. /\ IsFiniteSet(UnfinishedRows) /\ Cardinality(UnfinishedRows) \in Nat
          /\ Cardinality(Limited) <= Cardinality(UnfinishedRows)
      <4>1. UnfinishedRows \subseteq Download /\ Limited \subseteq UnfinishedRows
        BY DEF UnfinishedRows, Limited
      <4>2. QED
        BY <4>1, DownloadsFinite, FS_Subset, FS_CardinalityType
    <3>2. Limit > 0 => Cardinality(UnfinishedRows) + 1 <= Limit
      BY DEF CountDownloads
    <3>3. QED
      BY <3>1, <3>2, Finite, BoundsOk
  <2>4. QED
    BY <2>1, <2>2, <2>3, Finite, BoundsOk DEF Counted
<1>6. QED
  BY <1>1, <1>3, <1>4, <1>5

(* A handler that could not count is not pending.                           *)
LEMMA CountFailsStep ==
  ASSUME Inv, NEW r \in Request, CountFails(r)
  PROVE  Inv'
<1> USE DEF Inv
<1>1. TypeOK'
  BY DEF CountFails, TypeOK
<1>2. /\ \A q \in Request : reqs'[q] = IF q = r THEN <<"blind">> ELSE reqs[q]
      /\ reqs[r] = <<"idle">> /\ server = "up"
      /\ UNCHANGED <<row, mon, aria2, transfers, server, resume, excused>>
  BY DEF CountFails, TypeOK
<1>3. ASSUME NEW e \in Download PROVE Tracked(e)'
  <2>1. \A q \in Request : /\ Watching(e, q)' <=> Watching(e, q)
                           /\ Creating(e, q)' <=> Creating(e, q)
                           /\ Asked(e, q)' <=> Asked(e, q)
    BY <1>2 DEF Watching, Creating, Asked
  <2>2. QED
    BY <1>2, <2>1 DEF Tracked, Following, Watched, Transferred, Added, Awaited
<1>4. Idle'
  BY <1>2 DEF Idle
<1>5. Limited' \subseteq Limited /\ Pending' \subseteq Pending
  BY <1>2 DEF UnfinishedRows, Limited, Pending, Creating
<1>6. QED
  BY <1>1, <1>3, <1>4, <1>5, CountsNoMore

(* What CreateTask does to the handler and to the download: only a handler  *)
(* that has counted makes the download one that counts.                     *)
LEMMA CreateTaskDoes ==
  ASSUME TypeOK, NEW r \in Request, NEW d \in Download, CreateTask(r, d)
  PROVE  /\ TypeOK'
         /\ \A e \in Download : aria2[e] # "none" => aria2'[e] # "none"
         /\ \A q \in Request : q # r => reqs'[q] = reqs[q]
         /\ reqs[r] \in {<<"call">>, <<"blind">>}
         /\ row[d].status = "none"
         /\ \A q \in Request : ~Creating(d, q)
         /\ \A e \in Download \ {d} : e \in excused' <=> e \in excused
         /\ \/ reqs'[r] = <<"idle">> /\ excused' = excused
            \/ /\ \/ reqs'[r] = <<"create", d, 0>>
                  \/ reqs'[r] = <<"create", d, 1>> /\ aria2'[d] # "none"
               /\ reqs[r] = <<"blind">> => d \in excused'
         /\ UNCHANGED <<row, mon, transfers, server, resume>>
<1> DEFINE Idles == reqs' = [reqs EXCEPT ![r] = <<"idle">>] /\ UNCHANGED excused
           Asks(gid) == /\ reqs' = [reqs EXCEPT ![r] = <<"create", d, gid>>]
                        /\ excused' = IF reqs[r] = <<"blind">> THEN excused \cup {d}
                                                              ELSE excused \ {d}
           Runs == aria2' = [aria2 EXCEPT ![d] = "running"]
<1>1. \/ Runs /\ Asks(1)
      \/ Runs /\ Idles
      \/ Asks(0) /\ UNCHANGED aria2
      \/ Idles /\ UNCHANGED aria2
  BY Zenon DEF CreateTask
<1>2. /\ reqs[r] \in {<<"call">>, <<"blind">>}
      /\ row[d].status = "none" /\ aria2[d] = "none"
      /\ \A q \in Request : ~Creating(d, q)
      /\ UNCHANGED <<row, mon, fetched, transfers, server, resume, crashes>>
  BY DEF CreateTask, Creating
<1>3. /\ aria2 \in [Download -> Daemon]
      /\ reqs \in [Request -> {<<"idle">>, <<"call">>, <<"blind">>}
                                \cup ({"create", "watch"} \X Download \X {0, 1})]
      /\ excused \subseteq Download
  BY DEF TypeOK
<1>4. Runs => /\ aria2' \in [Download -> Daemon] /\ aria2'[d] # "none"
              /\ \A e \in Download : aria2[e] # "none" => aria2'[e] # "none"
  BY <1>3 DEF Daemon
<1>5. UNCHANGED aria2 => /\ aria2' \in [Download -> Daemon]
                         /\ \A e \in Download : aria2[e] # "none" => aria2'[e] # "none"
  BY <1>3
<1>6. ASSUME NEW gid \in {0, 1}, Asks(gid)
      PROVE  /\ reqs' \in [Request -> {<<"idle">>, <<"call">>, <<"blind">>}
                                \cup ({"create", "watch"} \X Download \X {0, 1})]
             /\ reqs'[r] = <<"create", d, gid>>
             /\ \A q \in Request : q # r => reqs'[q] = reqs[q]
             /\ excused' \subseteq Download
             /\ \A e \in Download \ {d} : e \in excused' <=> e \in excused
             /\ reqs[r] = <<"blind">> => d \in excused'
  BY <1>3, <1>6
<1>7. Idles => /\ reqs' \in [Request -> {<<"idle">>, <<"call">>, <<"blind">>}
                                \cup ({"create", "watch"} \X Download \X {0, 1})]
               /\ reqs'[r] = <<"idle">>
               /\ \A q \in Request : q # r => reqs'[q] = reqs[q]
               /\ excused' \subseteq Download
  BY <1>3
<1>8. CASE Runs /\ Asks(1)
  BY <1>2, <1>4, <1>6, <1>8 DEF TypeOK
<1>9. CASE Runs /\ Idles
  BY <1>2, <1>4, <1>7, <1>9 DEF TypeOK
<1>10. CASE Asks(0) /\ UNCHANGED aria2
  BY <1>2, <1>5, <1>6, <1>10 DEF TypeOK
<1>11. CASE Idles /\ UNCHANGED aria2
  BY <1>2, <1>5, <1>7, <1>11 DEF TypeOK
<1>12. QED
  BY <1>1, <1>8, <1>9, <1>10, <1>11

LEMMA CreateTaskStep ==
  ASSUME Inv, NEW r \in Request, NEW d \in Download, CreateTask(r, d)
  PROVE  Inv'
<1> USE DEF Inv
<1>2. /\ TypeOK'
      /\ \A e \in Download : aria2[e] # "none" => aria2'[e] # "none"
      /\ \A q \in Request : q # r => reqs'[q] = reqs[q]
      /\ reqs[r] \in {<<"call">>, <<"blind">>}
      /\ row[d].status = "none"
      /\ \A q \in Request : ~Creating(d, q)
      /\ \A e \in Download \ {d} : e \in excused' <=> e \in excused
      /\ \/ reqs'[r] = <<"idle">> /\ excused' = excused
         \/ /\ \/ reqs'[r] = <<"create", d, 0>>
               \/ reqs'[r] = <<"create", d, 1>> /\ aria2'[d] # "none"
            /\ reqs[r] = <<"blind">> => d \in excused'
      /\ UNCHANGED <<row, mon, transfers, server, resume>>
  BY CreateTaskDoes
<1>3. ASSUME NEW e \in Download PROVE Tracked(e)'
  <2>1. \A q \in Request : Watching(e, q)' <=> Watching(e, q)
    BY <1>2 DEF Watching
  <2>2. \A q \in Request : Creating(e, q)' <=> \/ Creating(e, q)
                                               \/ e = d /\ q = r /\ Creating(d, r)'
    BY <1>2 DEF Creating
  <2>3. \A q \in Request : Asked(e, q)' => Asked(e, q) \/ (e = d /\ aria2'[d] # "none")
    BY <1>2 DEF Asked
  <2>4. row[e].status = "deleted" => e # d
    BY <1>2
  <2>5. Awaited(e)' <=> Awaited(e)
    BY <1>2, <2>4 DEF Awaited
  <2>6. Following(e)'
    BY <1>2, <2>5 DEF Tracked, Following
  <2>7. Watched(e)' /\ Transferred(e)'
    BY <1>2, <2>1 DEF Tracked, Watched, Transferred
  <2>8. Added(e)'
    BY <1>2, <2>1, <2>2, <2>3, <2>5 DEF Tracked, Added
  <2>9. QED
    BY <2>6, <2>7, <2>8 DEF Tracked
<1>4. Idle'
  BY <1>2 DEF Idle
<1>5. Limited' \subseteq Limited
  <2>1. d \notin UnfinishedRows
    BY <1>2 DEF UnfinishedRows, Unfinished
  <2>2. UnfinishedRows' = UnfinishedRows
    BY <1>2 DEF UnfinishedRows
  <2>3. QED
    BY <1>2, <2>1, <2>2 DEF Limited, UnfinishedRows
<1>6. Pending' \subseteq Pending
  <2>1. ASSUME NEW q \in Pending' PROVE q \in Pending
    <3>1. CASE q = r
      BY <1>2, <2>1, <3>1 DEF Pending, Creating
    <3>2. CASE q # r
      BY <1>2, <2>1, <3>2 DEF Pending, Creating
    <3>3. QED
      BY <3>1, <3>2
  <2>2. QED
    BY <2>1
<1>7. QED
  BY <1>2, <1>3, <1>4, <1>5, <1>6, CountsNoMore

LEMMA NewRow ==
  ASSUME NEW c \in Copy, NEW gid \in 0..2
  PROVE  /\ [c EXCEPT !.status = "ready", !.gid = gid] \in Copy
         /\ [c EXCEPT !.status = "ready", !.gid = gid].status = "ready"
         /\ [c EXCEPT !.status = "ready", !.gid = gid].gid = gid
  BY DEF Copy, Unfinished

(* One more row, one handler fewer.                                         *)
LEMMA CreateRowStep ==
  ASSUME Inv, NEW r \in Request, NEW d \in Download, NEW gid \in {0, 1}, CreateRow(r, d, gid)
  PROVE  Inv'
<1> USE DEF Inv
<1>1. Creating(d, r) /\ reqs[r] = <<"create", d, gid>>
  BY DEF CreateRow, Creating
<1>2. CASE /\ row' = [row EXCEPT ![d] = [NoCopy EXCEPT !.status = "ready", !.gid = gid]]
           /\ reqs' = [reqs EXCEPT ![r] = <<"watch", d, gid>>]
  <2> DEFINE c == [NoCopy EXCEPT !.status = "ready", !.gid = gid]
  <2>1. c \in Copy /\ c.status = "ready" /\ c.gid = gid
    <3>1. gid \in 0..2
      OBVIOUS
    <3>2. QED
      BY <3>1, NothingYet, NewRow
  <2>2. row' = [row EXCEPT ![d] = c]
    BY <1>2
  <2> HIDE DEF c
  <2>3. /\ row' \in [Download -> Copy]
        /\ row'[d] = c
        /\ \A e \in Download \ {d} : row'[e] = row[e]
    BY <2>1, <2>2 DEF TypeOK
  <2>4. TypeOK'
    BY <1>2, <2>3 DEF TypeOK, CreateRow
  <2>5. /\ \A q \in Request : q # r => reqs'[q] = reqs[q]
        /\ reqs'[r] = <<"watch", d, gid>>
        /\ UNCHANGED <<mon, aria2, transfers, server, resume, excused>>
    BY <1>2 DEF CreateRow, TypeOK
  <2>6. /\ row[d].status = "none" /\ mon[d].pc = "none"
        /\ gid # 0 => aria2[d] # "none"
        /\ \A q \in Request : ~Watching(d, q) /\ (q # r => ~Creating(d, q))
        /\ d \notin resume
        /\ transfers[d] # 1
    BY <1>1
    DEF Tracked, Following, Added, Transferred, Watched, Awaited, Asked, Unfinished, Over, Ended
  <2>7. Tracked(d)'
    <3>1. Following(d)'
      BY <2>1, <2>3, <2>5, <2>6 DEF Tracked, Following, Unfinished
    <3>2. Watched(d)' /\ Transferred(d)'
      BY <2>5, <2>6 DEF Tracked, Watched, Transferred, Watching
    <3>3. \A q \in Request : /\ Watching(d, q)' => q = r
                             /\ ~Creating(d, q)'
                             /\ Asked(d, q)' => q = r /\ gid # 0
      BY <2>5, <2>6 DEF Watching, Creating, Asked
    <3>4. Added(d)'
      BY <2>1, <2>3, <2>5, <2>6, <3>3 DEF Added, Awaited, Unfinished
    <3>5. QED
      BY <3>1, <3>2, <3>4 DEF Tracked
  <2>8. ASSUME NEW e \in Download \ {d} PROVE Tracked(e)'
    <3>1. \A q \in Request : /\ Watching(e, q)' <=> Watching(e, q)
                             /\ Creating(e, q)' => Creating(e, q)
                             /\ Asked(e, q)' => Asked(e, q)
      BY <1>1, <2>5 DEF Watching, Creating, Asked
    <3>2. QED
      BY <2>3, <2>5, <3>1 DEF Tracked, Following, Watched, Transferred, Added, Awaited
  <2>9. Idle'
    BY <1>1, <2>5 DEF Idle, Creating
  <2>10. CASE d \notin excused
    <3>1. /\ r \in Pending
          /\ Pending' \subseteq Pending \ {r}
          /\ Limited' \subseteq Limited \cup {d}
      BY <1>1, <2>3, <2>5, <2>10 DEF Pending, Creating, UnfinishedRows, Limited
    <3>2. /\ Cardinality(Pending \ {r}) = Cardinality(Pending) - 1
          /\ IsFiniteSet(Pending \ {r})
      BY <3>1, Finite, FS_RemoveElement
    <3>3. /\ Cardinality(Pending') <= Cardinality(Pending) - 1
          /\ Cardinality(Pending') \in Nat
      BY <3>1, <3>2, FS_Subset, FS_CardinalityType
    <3>4. /\ Cardinality(Limited \cup {d}) = Cardinality(Limited) + 1
          /\ IsFiniteSet(Limited \cup {d})
      <4>1. d \notin Limited
        BY <2>6 DEF UnfinishedRows, Limited, Unfinished
      <4>2. QED
        BY <4>1, Finite, FS_AddElement
    <3>5. /\ Cardinality(Limited') <= Cardinality(Limited \cup {d})
          /\ Cardinality(Limited') \in Nat
          /\ Cardinality(Limited \cup {d}) \in Nat
      BY <3>1, <3>4, FS_Subset, FS_CardinalityType
    <3>6. QED
      BY <2>4, <2>7, <2>8, <2>9, <3>3, <3>4, <3>5, Finite, BoundsOk DEF Counted
  <2>11. CASE d \in excused
    <3>1. Limited' \subseteq Limited
      BY <2>3, <2>5, <2>11 DEF UnfinishedRows, Limited
    <3>2. Pending' \subseteq Pending
      BY <2>5 DEF Pending, Creating
    <3>3. QED
      BY <2>4, <2>7, <2>8, <2>9, <3>1, <3>2, CountsNoMore
  <2>12. QED
    BY <2>10, <2>11
<1>3. CASE reqs' = [reqs EXCEPT ![r] = <<"idle">>] /\ UNCHANGED row
  <2>1. TypeOK'
    BY <1>3 DEF TypeOK, CreateRow
  <2>2. /\ \A q \in Request : q # r => reqs'[q] = reqs[q]
        /\ reqs'[r] = <<"idle">>
        /\ UNCHANGED <<row, mon, aria2, transfers, server, resume, excused>>
    BY <1>3 DEF CreateRow, TypeOK
  <2>3. ASSUME NEW e \in Download PROVE Tracked(e)'
    <3>1. \A q \in Request : /\ Watching(e, q)' <=> Watching(e, q)
                             /\ Creating(e, q)' => Creating(e, q)
                             /\ Asked(e, q)' => Asked(e, q)
      BY <1>1, <2>2 DEF Watching, Creating, Asked
    <3>2. QED
      BY <2>2, <3>1 DEF Tracked, Following, Watched, Transferred, Added, Awaited
  <2>4. Idle' /\ Limited' \subseteq Limited /\ Pending' \subseteq Pending
    BY <2>2 DEF Idle, UnfinishedRows, Limited, Pending, Creating
  <2>5. QED
    BY <2>1, <2>3, <2>4, CountsNoMore
<1>4. QED
  BY <1>2, <1>3 DEF CreateRow

(* A monitor starts with a copy of the row.                                 *)
LEMMA NewMonitorDoes ==
  ASSUME TypeOK, NEW d \in Download, NEW copy \in Copy, NewMonitor(d, copy)
  PROVE  /\ mon' \in [Download -> Monitor]
         /\ mon'[d].pc = "loop" /\ mon'[d].task = copy
         /\ \A e \in Download \ {d} : mon'[e] = mon[e]
<1> DEFINE m == [NoMonitor EXCEPT !.pc = "loop", !.task = copy]
<1>1. m \in Monitor /\ m.pc = "loop" /\ m.task = copy
  BY NothingYet DEF Monitor
<1>2. mon' = [mon EXCEPT ![d] = m]
  BY DEF NewMonitor
<1> HIDE DEF m
<1>3. QED
  BY <1>1, <1>2, Becomes

(* The handler's copy is unfinished, although the row may be deleted.       *)
LEMMA WatchNewStep ==
  ASSUME Inv, NEW r \in Request, NEW d \in Download, NEW gid \in {0, 1}, WatchNew(r, d, gid)
  PROVE  Inv'
<1> USE DEF Inv
<1> DEFINE c == [NoCopy EXCEPT !.status = "ready", !.gid = gid]
<1>1. Watching(d, r) /\ NewMonitor(d, c) /\ (gid # 0 => Asked(d, r))
  BY DEF WatchNew, Watching, Asked
<1>c. c \in Copy /\ c.status = "ready" /\ c.gid = gid
  <2>1. gid \in 0..2
    OBVIOUS
  <2>2. QED
    BY <2>1, NothingYet, NewRow
<1> HIDE DEF c
<1>2. /\ mon' \in [Download -> Monitor]
      /\ mon'[d].pc = "loop" /\ mon'[d].task = c
      /\ \A e \in Download \ {d} : mon'[e] = mon[e]
  BY <1>1, <1>c, NewMonitorDoes
<1>3. TypeOK'
  BY <1>2 DEF TypeOK, WatchNew
<1>4. /\ \A q \in Request : q # r => reqs'[q] = reqs[q]
      /\ reqs'[r] = <<"idle">>
      /\ UNCHANGED <<row, aria2, transfers, server, resume, excused>>
  BY DEF WatchNew, TypeOK
<1>5. /\ Awaited(d)
      /\ \A q \in Request : q # r => ~Watching(d, q)
      /\ transfers[d] # 1 /\ mon[d].pc = "none"
      /\ gid # 0 => aria2[d] # "none"
      /\ server = "up"
  BY <1>1 DEF Tracked, Added, Idle, Watching
<1>6. /\ row[d].status # "none"
      /\ \A q \in Request : ~Creating(d, q)
      /\ d \notin resume
  BY <1>5 DEF Tracked, Added, Watched, Awaited, Unfinished
<1>7. Tracked(d)'
  <2>1. \A q \in Request : ~Watching(d, q)' /\ ~Creating(d, q)' /\ (Asked(d, q)' => Asked(d, q))
    BY <1>4, <1>5, <1>6 DEF Watching, Creating, Asked
  <2>2. Awaited(d)'
    BY <1>4, <1>5 DEF Awaited
  <2>3. Following(d)'
    BY <1>2, <1>c, <1>4, <1>5, <1>6, <2>2 DEF Tracked, Following, Unfinished
  <2>4. Watched(d)' /\ Transferred(d)'
    BY <1>2, <1>4, <1>5, <1>6 DEF Tracked, Watched, Transferred
  <2>5. Added(d)'
    BY <1>4, <2>1 DEF Tracked, Added
  <2>6. QED
    BY <2>3, <2>4, <2>5 DEF Tracked
<1>8. ASSUME NEW e \in Download \ {d} PROVE Tracked(e)'
  <2>1. \A q \in Request : /\ Watching(e, q)' <=> Watching(e, q)
                           /\ Creating(e, q)' <=> Creating(e, q)
                           /\ Asked(e, q)' <=> Asked(e, q)
    BY <1>1, <1>4 DEF Watching, Creating, Asked
  <2>2. QED
    BY <1>2, <1>4, <2>1 DEF Tracked, Following, Watched, Transferred, Added, Awaited
<1>9. Idle' /\ Limited' \subseteq Limited /\ Pending' \subseteq Pending
  BY <1>4, <1>5 DEF Idle, UnfinishedRows, Limited, Pending, Creating
<1>10. QED
  BY <1>3, <1>7, <1>8, <1>9, CountsNoMore

(* A row that ends here has no monitor that would save it unfinished.       *)
LEMMA DeleteRowStep ==
  ASSUME Inv, NEW d \in Download, DeleteRow(d)
  PROVE  Inv'
<1> USE DEF Inv
<1> DEFINE c == [NoCopy EXCEPT !.status = "deleted"]
<1>1. c \in Copy /\ c.status = "deleted" /\ c.gid = 0
  BY NothingYet DEF NoCopy, Copy
<1>2. row' = [row EXCEPT ![d] = c]
  BY DEF DeleteRow
<1> HIDE DEF c
<1>3. /\ row' \in [Download -> Copy] /\ row'[d].status = "deleted" /\ row'[d].gid = 0
      /\ \A e \in Download \ {d} : row'[e] = row[e]
      /\ row[d].status \in Ended
      /\ UNCHANGED <<mon, aria2, fetched, transfers, reqs, server, resume, crashes, excused>>
  BY <1>1, <1>2, ZenonT(90) DEF DeleteRow, TypeOK
<1>4. TypeOK'
  BY <1>3 DEF TypeOK
<1>5. Tracked(d)'
  BY <1>3 DEF Tracked, Following, Watched, Transferred, Added, Watching, Creating, Asked,
              Awaited, Unfinished, Ended, Over
<1>6. ASSUME NEW e \in Download \ {d} PROVE Tracked(e)'
  <2>1. row'[e] = row[e] /\ Tracked(e)
    BY <1>3
  <2>2. UNCHANGED <<mon, aria2, transfers, reqs, server, resume, excused>>
    BY <1>3
  <2>3. QED
    BY <2>1, <2>2
    DEF Tracked, Following, Watched, Transferred, Added, Watching, Creating, Asked, Awaited
<1>7. Idle' /\ Limited' \subseteq Limited /\ Pending' \subseteq Pending
  BY <1>3 DEF Idle, UnfinishedRows, Limited, Pending, Creating, Unfinished
<1>8. QED
  BY <1>4, <1>5, <1>6, <1>7, CountsNoMore

(* A monitor or a handler that still has the row unfinished may bring it    *)
(* back, but then the download is one that does not count.                  *)
LEMMA DeleteByAdminStep ==
  ASSUME Inv, NEW ids \in SUBSET Download, DeleteByAdmin(ids)
  PROVE  Inv'
<1> USE DEF Inv
<1> DEFINE c == [NoCopy EXCEPT !.status = "deleted"]
<1>1. c \in Copy /\ c.status = "deleted" /\ c.gid = 0
  BY NothingYet DEF NoCopy, Copy
<1>2. row' = [e \in Download |-> IF e \in ids THEN c ELSE row[e]]
  BY DEF DeleteByAdmin
<1> HIDE DEF c
<1>3. /\ server = "up"
      /\ \A e \in ids : row[e].status \in Unfinished \cup Ended
      /\ excused' = excused \cup (ids \cap UnfinishedRows)
      /\ UNCHANGED <<mon, aria2, fetched, transfers, reqs, server, resume, crashes>>
  BY DEF DeleteByAdmin
<1>4. row' \in [Download -> Copy]
  BY <1>1, <1>2 DEF TypeOK
<1>5. TypeOK'
  BY <1>3, <1>4 DEF TypeOK
<1>6. \A q \in Request, e \in Download : /\ Watching(e, q)' <=> Watching(e, q)
                                         /\ Creating(e, q)' <=> Creating(e, q)
                                         /\ Asked(e, q)' <=> Asked(e, q)
  BY <1>3 DEF Watching, Creating, Asked
<1>7. ASSUME NEW e \in ids PROVE Tracked(e)'
  <2>1. row'[e].status = "deleted" /\ row'[e].gid = 0 /\ row[e].status \in Unfinished \cup Ended
    BY <1>1, <1>2, <1>3
  <2>2. row[e].status \in Unfinished => e \in excused'
    BY <1>3 DEF UnfinishedRows
  <2>3. Awaited(e) => Awaited(e)'
    BY <2>1, <2>2 DEF Awaited, Unfinished, Ended
  <2>4. Following(e)'
    BY <1>3, <2>1, <2>3 DEF Tracked, Following, Over
  <2>5. Watched(e)' /\ Transferred(e)'
    BY <1>3, <2>1 DEF Tracked, Watched, Transferred, Unfinished, Over
  <2>6. \A q \in Request : ~Creating(e, q)
    BY <2>1 DEF Tracked, Added, Unfinished, Ended
  <2>7. Added(e)'
    BY <1>3, <1>6, <2>3, <2>6 DEF Tracked, Added
  <2>8. QED
    BY <2>4, <2>5, <2>7 DEF Tracked
<1>8. ASSUME NEW e \in Download \ ids PROVE Tracked(e)'
  <2>1. row'[e] = row[e] /\ (e \in excused' <=> e \in excused)
    BY <1>2, <1>3
  <2>2. QED
    BY <1>3, <1>6, <2>1 DEF Tracked, Following, Watched, Transferred, Added, Awaited
<1>9. Idle'
  BY <1>3 DEF Idle
<1>10. Limited' \subseteq Limited
  <2>1. ASSUME NEW e \in Limited' PROVE e \in Limited
    <3>1. e \in Download /\ row'[e].status \in Unfinished /\ e \notin excused'
      BY DEF Limited, UnfinishedRows
    <3>2. e \notin ids
      BY <1>1, <1>2, <3>1 DEF Unfinished
    <3>3. QED
      BY <1>2, <1>3, <3>1, <3>2 DEF Limited, UnfinishedRows
  <2>2. QED
    BY <2>1
<1>11. Pending' \subseteq Pending
  BY <1>3 DEF Pending, Creating
<1>12. QED
  BY <1>5, <1>7, <1>8, <1>9, <1>10, <1>11, CountsNoMore

(* The daemon goes on: nothing but its own state changes.                   *)
LEMMA DaemonStep ==
  ASSUME Inv, TypeOK', UNCHANGED <<row, mon, transfers, reqs, server, resume, excused>>,
         \A d \in Download : aria2[d] # "none" => aria2'[d] # "none"
  PROVE  Inv'
<1> USE DEF Inv
<1>1. ASSUME NEW e \in Download PROVE Tracked(e)'
  BY DEF Tracked, Following, Watched, Transferred, Added, Watching, Creating, Asked, Awaited
<1>2. Idle' /\ Counted'
  BY CountsSame DEF Idle
<1>3. QED
  BY <1>1, <1>2

LEMMA OutsideStep ==
  ASSUME Inv, NEW d \in Download,
         CancelDownload(d) \/ FetchMetadata(d) \/ Settle(d)
  PROVE  Inv'
<1> USE DEF Inv
<1>1. CASE CancelDownload(d)
  <2>1. TypeOK' /\ \A e \in Download : aria2[e] # "none" => aria2'[e] # "none"
    BY <1>1, CancelType DEF CancelDownload, TypeOK
  <2>2. QED
    BY <1>1, <2>1, DaemonStep DEF CancelDownload
<1>3. CASE FetchMetadata(d)
  <2>1. TypeOK'
    BY <1>3 DEF FetchMetadata, TypeOK
  <2>2. QED
    BY <1>3, <2>1, DaemonStep DEF FetchMetadata
<1>4. CASE Settle(d)
  <2>1. TypeOK' /\ \A e \in Download : aria2[e] # "none" => aria2'[e] # "none"
    BY <1>4 DEF Settle, TypeOK, Daemon
  <2>2. QED
    BY <1>4, <2>1, DaemonStep DEF Settle
<1>5. QED
  BY <1>1, <1>3, <1>4

-----------------------------------------------------------------------------
(* Restarts.                                                                *)

LEMMA ResumeMonitorStep ==
  ASSUME Inv, NEW d \in Download, ResumeMonitor(d)
  PROVE  Inv'
<1> USE DEF Inv
<1>1. /\ mon' \in [Download -> Monitor]
      /\ mon'[d].pc = "loop" /\ mon'[d].task = row[d]
      /\ \A e \in Download \ {d} : mon'[e] = mon[e]
  BY NewMonitorDoes DEF ResumeMonitor, TypeOK
<1>2. /\ d \in resume /\ resume' = resume \ {d}
      /\ UNCHANGED <<row, aria2, fetched, transfers, reqs, server, crashes, excused>>
  BY DEF ResumeMonitor
<1>3. TypeOK'
  BY <1>1, <1>2 DEF TypeOK
<1>4. /\ row[d].status \in Unfinished /\ row[d].status # "none"
      /\ server = "booting"
      /\ transfers[d] # 1
      /\ \A q \in Request : reqs[q] = <<"idle">>
  BY <1>2 DEF Tracked, Watched, Transferred, Unfinished, Over, Ended, Idle
<1>5. \A e \in Download, q \in Request :
        ~Watching(e, q)' /\ ~Creating(e, q)' /\ ~Asked(e, q)'
  BY <1>2, <1>4 DEF Watching, Creating, Asked
<1>6. Tracked(d)'
  BY <1>1, <1>2, <1>4, <1>5
  DEF Tracked, Following, Watched, Transferred, Added, Awaited, Unfinished
<1>7. ASSUME NEW e \in Download \ {d} PROVE Tracked(e)'
  BY <1>1, <1>2, <1>4, <1>5 
  DEF Tracked, Following, Watched, Transferred, Added, Awaited, Watching
<1>8. Idle' /\ Counted'
  BY <1>2, <1>4, CountsSame DEF Idle
<1>9. QED
  BY <1>3, <1>6, <1>7, <1>8

LEMMA BootDownloadsStep ==
  ASSUME Inv, BootDownloads
  PROVE  Inv'
<1> USE DEF Inv
<1>1. /\ server = "down" /\ server' = "booting" /\ resume' = UnfinishedRows
      /\ UNCHANGED <<row, mon, aria2, fetched, transfers, reqs, crashes, excused>>
  BY DEF BootDownloads
<1>2. TypeOK'
  BY <1>1 DEF TypeOK, UnfinishedRows
<1>3. ASSUME NEW e \in Download PROVE Tracked(e)'
  <2>1. mon[e].pc = "none"
    BY <1>1 DEF Idle
  <2>2. e \in resume' <=> row[e].status \in Unfinished
    BY <1>1 DEF UnfinishedRows
  <2>3. QED
    BY <1>1, <2>1, <2>2
    DEF Tracked, Following, Watched, Transferred, Added, Watching, Creating, Asked, Awaited
<1>4. Idle' /\ Counted'
  BY <1>1, CountsSame DEF Idle
<1>5. QED
  BY <1>2, <1>3, <1>4

LEMMA ServeRequestsStep ==
  ASSUME Inv, ServeRequests
  PROVE  Inv'
<1> USE DEF Inv
<1>1. /\ server = "booting" /\ server' = "up" /\ resume = {}
      /\ UNCHANGED <<row, mon, aria2, fetched, transfers, reqs, resume, crashes, excused>>
  BY DEF ServeRequests
<1>2. TypeOK'
  BY <1>1 DEF TypeOK
<1>3. ASSUME NEW e \in Download PROVE Tracked(e)'
  BY <1>1
  DEF Tracked, Following, Watched, Transferred, Added, Watching, Creating, Asked, Awaited
<1>4. Idle' /\ Counted'
  BY <1>1, CountsSame DEF Idle
<1>5. QED
  BY <1>2, <1>3, <1>4

LEMMA CrashStep ==
  ASSUME Inv, Crash
  PROVE  Inv'
<1> USE DEF Inv
<1>1. /\ server' = "down" /\ resume' = {}
      /\ mon' = [d \in Download |-> NoMonitor]
      /\ reqs' = [r \in Request |-> <<"idle">>]
      /\ UNCHANGED <<row, aria2, fetched, transfers, excused>>
  BY DEF Crash
<1>2. TypeOK'
  BY <1>1, NothingYet, BoundsOk DEF Crash, TypeOK
<1>3. NoMonitor.pc = "none" /\ NoMonitor.task.gid = 0
  BY DEF NoMonitor, NoCopy
<1>4. \A e \in Download, q \in Request :
        ~Watching(e, q)' /\ ~Creating(e, q)' /\ ~Asked(e, q)'
  BY <1>1 DEF Watching, Creating, Asked
<1>5. ASSUME NEW e \in Download PROVE Tracked(e)'
  <2>1. mon'[e] = NoMonitor
    BY <1>1
  <2>2. QED
    BY <1>1, <1>3, <1>4, <2>1 DEF Tracked, Following, Watched, Transferred, Added, Awaited
<1>6. Idle'
  BY <1>1, <1>3 DEF Idle
<1>7. Limited' \subseteq Limited /\ Pending' \subseteq Pending
  BY <1>1 DEF UnfinishedRows, Limited, Pending, Creating
<1>8. QED
  BY <1>2, <1>5, <1>6, <1>7, CountsNoMore

-----------------------------------------------------------------------------
LEMMA InvInit == Init => Inv
<1> SUFFICES ASSUME Init PROVE Inv
  OBVIOUS
<1> USE DEF Init
<1>1. TypeOK
  BY NothingYet, BoundsOk DEF TypeOK, Daemon
<1>2. NoMonitor.pc = "none" /\ NoMonitor.task.gid = 0 /\ NoCopy.gid = 0 /\ NoCopy.status = "none"
  BY DEF NoMonitor, NoCopy
<1>3. ASSUME NEW d \in Download PROVE Tracked(d)
  BY <1>2 DEF Tracked, Following, Watched, Transferred, Added, Watching, Creating, Asked, Awaited,
              Unfinished
<1>4. Idle
  BY <1>2 DEF Idle
<1>5. Counted
  <2>1. Limited = {} /\ Pending = {}
    BY <1>2 DEF UnfinishedRows, Limited, Unfinished, Pending, Creating
  <2>2. Cardinality({}) = 0
    BY FS_EmptySet
  <2>3. QED
    BY <2>1, <2>2, Finite, BoundsOk DEF Counted
<1>6. QED
  BY <1>1, <1>3, <1>4, <1>5 DEF Inv

LEMMA InvNext == Inv /\ [Next]_vars => Inv'
<1> SUFFICES ASSUME Inv, [Next]_vars PROVE Inv'
  OBVIOUS
<1>1. CASE \E r \in Request : CountDownloads(r) \/ CountFails(r) \/ AddStep(r)
  BY <1>1, CountDownloadsStep, CountFailsStep, CreateTaskStep, CreateRowStep, WatchNewStep DEF AddStep
<1>2. CASE \E d \in Download : MonitorStep(d)
  BY <1>2, MonitorCounts
<1>3. CASE \E d \in Download : ResumeMonitor(d) \/ DeleteRow(d)
  BY <1>3, ResumeMonitorStep, DeleteRowStep
<1>4. CASE \E d \in Download :
             CancelDownload(d) \/ FetchMetadata(d) \/ Settle(d)
  BY <1>4, OutsideStep
<1>5. CASE BootDownloads \/ ServeRequests \/ Crash \/ \E ids \in SUBSET Download : DeleteByAdmin(ids)
  BY <1>5, DeleteByAdminStep, BootDownloadsStep, ServeRequestsStep, CrashStep
<1>6. CASE UNCHANGED vars
  <2>1. TypeOK'
    BY <1>6 DEF vars, TypeOK, Inv
  <2>2. QED
    BY <1>6, <2>1, DaemonStep DEF vars
<1>7. QED
  BY <1>1, <1>2, <1>3, <1>4, <1>5, <1>6 DEF Next

LEMMA Invariance == Spec => []Inv
  BY InvInit, InvNext, PTL DEF Spec

(* The types of the rows, of the monitors and of the handlers' progress.    *)
THEOREM TypeCorrect == Spec => []TypeOK
<1>1. Inv => TypeOK
  BY DEF Inv
<1>2. QED
  BY <1>1, Invariance, PTL

(* Through crashes, deletions and failing calls, every unfinished download  *)
(* of a running server has a monitor or a handler about to start it         *)
(* (monitor.go, aria2.Init), and no download is transferred twice.          *)
THEOREM AlwaysMonitored == Spec => []Monitored
<1>1. Inv => Monitored
  <2> SUFFICES ASSUME Inv PROVE Monitored
    OBVIOUS
  <2>1. ASSUME server = "up", NEW d \in UnfinishedRows \ DbFaults
        PROVE  \/ mon[d].pc # "none"
               \/ \E r \in Request, gid \in {0, 1} : reqs[r] = <<"watch", d, gid>>
    BY <2>1 DEF Inv, Tracked, Watched, Watching, UnfinishedRows
  <2>2. \A d \in Download : transfers[d] <= 1
    BY DEF Inv, Tracked, Transferred
  <2>3. QED
    BY <2>1, <2>2 DEF Monitored
<1>2. QED
  BY <1>1, Invariance, PTL

(* The check of the batch size and the insert of the row are two steps of   *)
(* AddURLService.Add, between which other handlers run: for every number of *)
(* handlers the downloads that were counted exceed the limit by one row of  *)
(* each other handler at most, whatever an administrator deletes.           *)
THEOREM BatchBounded == Spec => []BatchBound
<1>1. Inv => BatchBound
  <2>1. Adding = Pending
    BY DEF Adding, Pending, Creating
  <2>2. QED
    BY <2>1 DEF Inv, Counted, BatchBound, Limited
<1>2. QED
  BY <1>1, Invariance, PTL
=============================================================================
