------------------------------ MODULE NodePool ------------------------------
(***************************************************************************)
(* The master's pool of slave nodes: two maps of node objects by id, an    *)
(* index of the active ones with aria2, and one goroutine per node that    *)
(* pings the slave and reports changes of its status.  The administration  *)
(* adds, edits and removes nodes meanwhile.                                *)
(*                                                                         *)
(* Node 1, the master itself, has no goroutine and cannot be removed; it   *)
(* is left out.                                                            *)
(***************************************************************************)
EXTENDS Naturals, FiniteSets

CONSTANTS
  Id,      \* ids of slave nodes
  Obj,     \* SlaveNode objects, each made once
  Loop,    \* ping loops, each started once; also names the channel it makes
  Admin,   \* requests of the administration that may be running
  Absent,  \* "no such key"
  Nil,     \* a nil Node, a nil channel
  Retry    \* setting slave_node_retry

ASSUME NullsOk == {Absent, Nil} \cap (Id \cup Obj \cup Loop) = {} /\ Absent # Nil
ASSUME RetryOk == Retry \in Nat /\ Retry >= 2

VARIABLES
  active, inactive,  \* the maps of the pool
  index,             \* featureMap["aria2"]
  home,              \* Model.ID of each object, Absent before it is made
  feature, up,       \* Model.Aria2Enabled, Active
  close,             \* channel in the field close
  closed,            \* channels that have been closed
  loops,             \* progress of the ping loops
  admin,             \* progress of the requests and of the Inits they start
  server,            \* "up", or "dead" after a panic outside HTTP handlers
  calm               \* never changes: see Undisturbed

maps  == <<active, inactive, index>>
nodes == <<home, feature, up, close, closed>>
vars  == <<maps, nodes, loops, admin, server, calm>>

LoopState == [pc     : {"unborn", "start", "top", "select", "ping", "set",
                        "callback", "index", "done"},
              node   : Obj \cup {Nil},
              waits  : Loop \cup {Nil},   \* channel of the select statement
              retry  : 0..Retry,
              answer : BOOLEAN]           \* status to change to
Unborn == [pc |-> "unborn", node |-> Nil, waits |-> Nil, retry |-> 0, answer |-> FALSE]

AdminState == [pc   : {"idle", "index"},                      \* the handler
               init : {"none", "model", "send", "sending"},   \* go old.Init
               id   : Id \cup {Nil},
               node : Obj \cup {Nil},
               new  : BOOLEAN,           \* Aria2Enabled to set
               chan : Loop \cup {Nil}]   \* channel it sends on
Idle == [pc |-> "idle", init |-> "none", id |-> Nil, node |-> Nil, new |-> FALSE,
         chan |-> Nil]

Init ==
  /\ active = [i \in Id |-> Absent]
  /\ inactive = [i \in Id |-> Absent]
  /\ index = {}
  /\ home = [o \in Obj |-> Absent]
  /\ feature = [o \in Obj |-> FALSE]
  /\ up = [o \in Obj |-> FALSE]
  /\ close = [o \in Obj |-> Nil]
  /\ closed = {}
  /\ loops = [l \in Loop |-> Unborn]
  /\ admin = [r \in Admin |-> Idle]
  /\ server = "up"
  /\ calm \in BOOLEAN

(* What a loop no longer needs is cleared.                                  *)
LoopTo(l, pc)  == loops' = [loops EXCEPT ![l].pc = pc, ![l].waits = Nil]
Stopped(l)     == [Unborn EXCEPT !.pc = "done", !.node = loops[l].node]
RequestDone(r) == IF admin[r].init = "none" THEN Idle ELSE [admin[r] EXCEPT !.pc = "idle"]
InitDone(r)    == IF admin[r].pc = "idle" THEN Idle
                  ELSE [Idle EXCEPT !.pc = "index", !.id = admin[r].id]
Working(r)     == admin[r].pc # "idle" \/ admin[r].init # "none"
LoopsOf(i)     == {l \in Loop : loops[l].pc \notin {"unborn", "done"}
                                /\ home[loops[l].node] = i}

(* In a calm environment the administration and the timers of one node keep *)
(* out of each other's way: a request starts while the loop sleeps and no   *)
(* other request is at work, the loop sleeps until it has ended, and an     *)
(* edit leaves Aria2Enabled alone.  Ticks are minutes apart.                *)
Undisturbed(i) == calm => /\ \A r \in Admin : Working(r) => admin[r].id # i
                          /\ \A l \in LoopsOf(i) : /\ loops[l].pc = "select"
                                                   /\ loops[l].waits \notin closed

-----------------------------------------------------------------------------
(* NodePool.Add, called by AddNodeService.Add and ToggleNodeService.Toggle. *)

Registered(i) == IF active[i] # Absent THEN active[i] ELSE inactive[i]

SpawnLoop(l, o) == loops[l].pc = "unborn"
                   /\ loops' = [loops EXCEPT ![l] = [Unborn EXCEPT !.pc = "start", !.node = o]]

(* Bound: every Init that runs finds a loop to start.                       *)
Spare == Cardinality({r \in Admin : admin[r].init # "none"})
           < Cardinality({l \in Loop : loops[l].pc = "unborn"})

(* An unknown node: NewNodeFromDBModel, Init and add under the lock.        *)
AddNode(r, i, f, o, l) ==
  /\ ~Working(r) /\ Undisturbed(i) /\ Spare
  /\ Registered(i) \in {Absent, Nil}
  /\ home[o] = Absent
  /\ home' = [home EXCEPT ![o] = i]
  /\ feature' = [feature EXCEPT ![o] = f]
  /\ up' = [up EXCEPT ![o] = TRUE]
  /\ SpawnLoop(l, o)
  /\ active' = [active EXCEPT ![i] = o]
  /\ admin' = [admin EXCEPT ![r] = [Idle EXCEPT !.pc = "index", !.id = i]]
  /\ UNCHANGED <<inactive, index, close, closed, server, calm>>

(* A known node: Init runs in a goroutine of its own.                       *)
EditNode(r, i, f) ==
  /\ ~Working(r) /\ Undisturbed(i) /\ Spare
  /\ Registered(i) \in Obj
  /\ calm => f = feature[Registered(i)]
  /\ admin' = [admin EXCEPT ![r] = [Idle EXCEPT !.pc = "index", !.init = "model",
                              !.id = i, !.node = Registered(i), !.new = f]]
  /\ UNCHANGED <<maps, nodes, loops, server, calm>>

(* SlaveNode.Init up to the unlock.                                         *)
SetModel(r, l) ==
  LET o == admin[r].node IN
  /\ admin[r].init = "model"
  /\ feature' = [feature EXCEPT ![o] = admin[r].new]
  /\ IF close[o] # Nil
       THEN /\ admin' = [admin EXCEPT ![r].init = "send"]
            /\ UNCHANGED <<up, loops>>
       ELSE /\ up' = [up EXCEPT ![o] = TRUE]
            /\ SpawnLoop(l, o)
            /\ admin' = [admin EXCEPT ![r] = InitDone(r)]
  /\ UNCHANGED <<maps, home, close, closed, server, calm>>

(* Variant: the signal has a channel of its own, which nobody reads.        *)
SendClose_Other(r) ==
  /\ admin[r].init = "send"
  /\ admin' = [admin EXCEPT ![r].init = "sending", ![r].chan = Nil]
  /\ UNCHANGED <<maps, nodes, loops, server, calm>>

(* node.close <- true: the field is read without the lock.                  *)
SendClose(r) ==
  /\ admin[r].init = "send"
  /\ admin' = [admin EXCEPT ![r].init = "sending", ![r].chan = close[admin[r].node]]
  /\ UNCHANGED <<maps, nodes, loops, server, calm>>

(* A loop that waits on the channel takes the value and ends; Init goes on  *)
(* to start another one.                                                    *)
AcceptClose(r, l, m) ==
  /\ admin[r].init = "sending"
  /\ admin[r].chan \notin closed
  /\ loops[l].pc = "select" /\ loops[l].waits = admin[r].chan
  /\ loops[m].pc = "unborn"
  /\ loops' = [loops EXCEPT ![l] = Stopped(l),
                            ![m] = [Unborn EXCEPT !.pc = "start", !.node = admin[r].node]]
  /\ admin' = [admin EXCEPT ![r] = InitDone(r)]
  /\ UNCHANGED <<maps, nodes, server, calm>>

(* A send on a closed channel panics.                                       *)
SendPanics(r) ==
  /\ admin[r].init = "sending"
  /\ admin[r].chan \in closed
  /\ server' = "dead"
  /\ UNCHANGED <<maps, nodes, loops, admin, calm>>

(* Variant: Kill closes nothing.                                            *)
KillNode_Silent(o) == UNCHANGED nodes

(* Variant: Kill does not look whether there is a channel yet.              *)
KillNode_Unchecked(o) ==
  /\ closed' = closed \cup {close[o]}
  /\ UNCHANGED <<home, feature, up, close>>

(* NodePool.Delete.  A nil node makes Kill panic; gin recovers, and the     *)
(* deferred calls run.                                                      *)
KillNode(o) ==
  /\ closed' = IF close[o] = Nil THEN closed ELSE closed \cup {close[o]}
  /\ UNCHANGED <<home, feature, up, close>>

DeleteNode(r, i) ==
  /\ ~Working(r) /\ Undisturbed(i)
  /\ \/ /\ active[i] \in Obj
        /\ KillNode(active[i])
        /\ active' = [active EXCEPT ![i] = Absent]
        /\ UNCHANGED inactive
     \/ /\ active[i] = Absent /\ inactive[i] \in Obj
        /\ KillNode(inactive[i])
        /\ inactive' = [inactive EXCEPT ![i] = Absent]
        /\ UNCHANGED active
     \/ /\ Registered(i) \in {Absent, Nil}
        /\ UNCHANGED <<nodes, active, inactive>>
  /\ admin' = [admin EXCEPT ![r] = [Idle EXCEPT !.pc = "index", !.id = i]]
  /\ UNCHANGED <<index, loops, server, calm>>

(* buildIndexMap takes the lock anew.  A nil node makes it panic: in a      *)
(* goroutine that ends the process, in a handler the lock stays taken.      *)
BuildIndex ==
  IF \E i \in Id : active[i] = Nil
    THEN server' = "dead" /\ UNCHANGED index
    ELSE /\ index' = {o \in Obj : feature[o] /\ \E i \in Id : active[i] = o}
         /\ UNCHANGED server

RebuildIndex(r) ==
  /\ admin[r].pc = "index"
  /\ BuildIndex
  /\ admin' = [admin EXCEPT ![r] = RequestDone(r)]
  /\ UNCHANGED <<active, inactive, nodes, loops, calm>>

-----------------------------------------------------------------------------
(* SlaveNode.StartPingLoop.                                                 *)

MakeChannel(l) ==
  /\ loops[l].pc = "start"
  /\ close' = [close EXCEPT ![loops[l].node] = l]
  /\ LoopTo(l, "top")
  /\ UNCHANGED <<maps, home, feature, up, closed, admin, server, calm>>

(* select evaluates node.close anew in every round.                         *)
Select(l) ==
  /\ loops[l].pc = "top"
  /\ loops' = [loops EXCEPT ![l].pc = "select", ![l].waits = close[loops[l].node]]
  /\ UNCHANGED <<maps, nodes, admin, server, calm>>

Tick(l) ==
  /\ loops[l].pc = "select"
  /\ Undisturbed(home[loops[l].node])
  /\ LoopTo(l, "ping")
  /\ UNCHANGED <<maps, nodes, admin, server, calm>>

StopLoop(l) ==
  /\ loops[l].pc = "select" /\ loops[l].waits \in closed
  /\ loops' = [loops EXCEPT ![l] = Stopped(l)]
  /\ UNCHANGED <<maps, nodes, admin, server, calm>>

(* The outcome of the ping, and the comparison at the top of changeStatus.  *)
Outcome(l, answer, retry) ==
  LET changed == answer # up[loops[l].node] /\ (answer \/ retry = Retry)
  IN  /\ loops' = [loops EXCEPT ![l].retry = retry, ![l].answer = changed /\ answer,
                                ![l].pc = IF changed THEN "set" ELSE "top"]
      /\ UNCHANGED <<maps, nodes, admin, server, calm>>

PingAnswered(l) ==
  /\ loops[l].pc = "ping"
  /\ Outcome(l, TRUE, 0)

PingFailed(l) ==
  /\ loops[l].pc = "ping"
  /\ Outcome(l, FALSE, IF loops[l].retry < Retry THEN loops[l].retry + 1 ELSE Retry)

SetActive(l) ==
  /\ loops[l].pc = "set"
  /\ up' = [up EXCEPT ![loops[l].node] = loops[l].answer]
  /\ LoopTo(l, "callback")
  /\ UNCHANGED <<maps, home, feature, close, closed, admin, server, calm>>

(* Variant: the loop puts its own node, without looking for it.             *)
NodeStatusChange_Own(l) ==
  LET i == home[loops[l].node]
      put(map, here) == [map EXCEPT ![i] = IF here THEN loops[l].node ELSE Absent]
  IN  /\ loops[l].pc = "callback"
      /\ active' = put(active, loops[l].answer)
      /\ inactive' = put(inactive, ~loops[l].answer)
      /\ loops' = [loops EXCEPT ![l].pc = "index", ![l].answer = FALSE]
      /\ UNCHANGED <<index, nodes, admin, server, calm>>

(* nodeStatusChange: by id; a key that is in neither map yields a nil node. *)
NodeStatusChange(l) ==
  LET i == home[loops[l].node]
      found == inactive[i] # Absent
      node == IF found THEN inactive[i] ELSE IF active[i] = Absent THEN Nil ELSE active[i]
      rest(map, mine) == IF mine THEN Absent ELSE map[i]
  IN  /\ loops[l].pc = "callback"
      /\ active' = [active EXCEPT ![i] = IF loops[l].answer THEN node
                                         ELSE rest(active, ~found)]
      /\ inactive' = [inactive EXCEPT ![i] = IF loops[l].answer
                                         THEN rest(inactive, found) ELSE node]
      /\ loops' = [loops EXCEPT ![l].pc = "index", ![l].answer = FALSE]
      /\ UNCHANGED <<index, nodes, admin, server, calm>>

(* Variant: the index is left as it is after a change of status.            *)
LoopIndex_Skipped(l) ==
  /\ loops[l].pc = "index"
  /\ LoopTo(l, "top")
  /\ UNCHANGED <<maps, nodes, admin, server, calm>>

LoopIndex(l) ==
  /\ loops[l].pc = "index"
  /\ BuildIndex
  /\ LoopTo(l, "top")
  /\ UNCHANGED <<active, inactive, nodes, admin, calm>>

-----------------------------------------------------------------------------
LoopStep(l) ==
  \/ MakeChannel(l) \/ Select(l) \/ StopLoop(l) \/ PingAnswered(l) \/ PingFailed(l)
  \/ SetActive(l) \/ NodeStatusChange(l) \/ LoopIndex(l)

AdminStep(r) ==
  \/ RebuildIndex(r) \/ SendClose(r) \/ SendPanics(r)
  \/ \E l \in Loop : SetModel(r, l)
  \/ \E l, m \in Loop : AcceptClose(r, l, m)

Request(r) ==
  \E i \in Id :
    \/ \E f \in BOOLEAN, o \in Obj, l \in Loop : AddNode(r, i, f, o, l)
    \/ \E f \in BOOLEAN : EditNode(r, i, f)
    \/ DeleteNode(r, i)

Next ==
  /\ server = "up"
  /\ \/ \E l \in Loop : Tick(l) \/ LoopStep(l)
     \/ \E r \in Admin : Request(r) \/ AdminStep(r)

Spec == Init /\ [][Next]_vars

(* Goroutines run on; requests and ticks are not fair.                      *)
FairSpec ==
  /\ Spec
  /\ \A l \in Loop : WF_vars(server = "up" /\ LoopStep(l))
  /\ \A r \in Admin : WF_vars(server = "up" /\ AdminStep(r))

-----------------------------------------------------------------------------
TypeOK ==
  /\ active \in [Id -> Obj \cup {Absent, Nil}]
  /\ inactive \in [Id -> Obj \cup {Absent, Nil}]
  /\ index \subseteq Obj
  /\ home \in [Obj -> Id \cup {Absent}]
  /\ feature \in [Obj -> BOOLEAN]
  /\ up \in [Obj -> BOOLEAN]
  /\ close \in [Obj -> Loop \cup {Nil}]
  /\ closed \subseteq Loop
  /\ loops \in [Loop -> LoopState]
  /\ admin \in [Admin -> AdminState]
  /\ server \in {"up", "dead"}
  /\ calm \in BOOLEAN

Pooled == {o \in Obj : \E i \in Id : o \in {active[i], inactive[i]}}

(* A removed node does not come back, however its ping loop and the         *)
(* administration interleave: nodeStatusChange looks nodes up by id.        *)
RemovedForGood ==
  [][\A o \in Obj : home[o] # Absent /\ o \notin Pooled => o \notin Pooled']_vars

Reporting(i) == \E l \in LoopsOf(i) : loops[l].pc = "callback"
Rebuilding == \/ \E r \in Admin : admin[r].pc = "index"
              \/ \E l \in Loop : loops[l].pc = "index"

(* Without disturbance no goroutine panics; the maps and the nodes agree on *)
(* who is active, except while SlaveNode.Active is set and the callback has *)
(* not moved the node yet; and the index lists the active nodes that have   *)
(* aria2, except between the change of a map and the rebuild after it.      *)
StatusAgrees ==
  calm => /\ server = "up"
          /\ \A i \in Id : ~Reporting(i) =>
               /\ active[i] = Absent \/ inactive[i] = Absent
               /\ active[i] # Absent => active[i] \in Obj /\ up[active[i]]
               /\ inactive[i] # Absent => inactive[i] \in Obj /\ ~up[inactive[i]]
          /\ ~Rebuilding => index = {o \in Obj : feature[o] /\ \E i \in Id : active[i] = o}

(* Without disturbance a node is pinged by one loop, also after edits, and  *)
(* a removed one by none once its loop has seen the closed channel.         *)
LoopOf(o) == {l \in Loop : loops[l].pc \notin {"unborn", "done"} /\ loops[l].node = o}

OneLoop ==
  calm => \A o \in Obj :
    /\ Cardinality(LoopOf(o)) <= 1
    /\ o \in Pooled => LoopOf(o) # {}
    /\ home[o] # Absent /\ o \notin Pooled
         => \A l \in LoopOf(o) : loops[l].pc = "select" /\ loops[l].waits \in closed

(* Without disturbance an edit ends (Init gets its close signal through)    *)
(* and the loop of a removed node stops.                                    *)
EditsEnd ==
  /\ \A r \in Admin : calm /\ admin[r].init # "none" ~> admin[r].init = "none"
  /\ \A l \in Loop : calm /\ loops[l].pc # "unborn" /\ loops[l].node \notin Pooled
                       ~> loops[l].pc = "done"
=============================================================================
