----------------------------- MODULE TaskQueue -----------------------------
(***************************************************************************)
(* What the background task queue promises, without goroutines, tokens and *)
(* restarts: at most Workers tasks run at a time, no task runs twice at    *)
(* the same time, and a task whose end has been recorded never runs again. *)
(* An interrupted task may run again: execution is at least once.          *)
(***************************************************************************)
EXTENDS Naturals, FiniteSets

CONSTANTS Task, Workers

VARIABLES
  status,  \* what is recorded of each task
  running  \* tasks that are being worked on

vars == <<status, running>>

Status == {"none", "queued", "processing", "error", "complete", "deleted"}
Ended  == {"error", "complete"}

Init == status = [t \in Task |-> "none"] /\ running = {}

Create(t) ==
  /\ status[t] = "none"
  /\ status' = [status EXCEPT ![t] = "queued"]
  /\ UNCHANGED running

(* A status is recorded, unless the database fails or the row was deleted.  *)
Report(t, s) ==
  status' \in {status, IF status[t] = "deleted" THEN status
                                               ELSE [status EXCEPT ![t] = s]}

Begin(t) ==
  /\ t \notin running
  /\ status[t] \notin Ended \cup {"none"}
  /\ Cardinality(running) < Workers
  /\ running' = running \cup {t}
  /\ Report(t, "processing")

End(t) ==
  /\ t \in running
  /\ running' = running \ {t}
  /\ \E s \in Ended : Report(t, s)

Interrupt == running' = {} /\ UNCHANGED status

Delete(t) ==
  /\ status[t] # "none"
  /\ status' = [status EXCEPT ![t] = "deleted"]
  /\ UNCHANGED running

Next ==
  \/ \E t \in Task : Create(t) \/ Begin(t) \/ End(t) \/ Delete(t)
  \/ Interrupt

Spec == Init /\ [][Next]_vars
=============================================================================
