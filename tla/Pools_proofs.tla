---------------------------- MODULE Pools_proofs ----------------------------
(***************************************************************************)
(* Proofs about the two pools of the server.                               *)
(*                                                                         *)
(* NodePool, for every number of slave nodes, objects, ping loops and      *)
(* requests, and every sequence of answers of the slaves.  A removed node  *)
(* never comes back in any environment.  That statuses agree and that each *)
(* node has one loop rests, without disturbance, on one invariant (Tidy):  *)
(* the channel in a node is that of its only loop, the map a node is in    *)
(* says what the loop has reported, and a node that is being edited has    *)
(* its loop asleep.                                                        *)
(*                                                                         *)
(* TaskPool, for every number of tasks, workers and crashes: worker tokens *)
(* are conserved, and the task pool implements the abstract queue.         *)
(***************************************************************************)
EXTENDS NodePool, TaskPool, FiniteSetTheorems, TLAPS

(* A loop that runs, and what it knows of its node.                         *)
Runs(l) == loops[l].pc \notin {"unborn", "done"}

MapsTidy == \A i \in Id :
  /\ active[i] = Absent \/ inactive[i] = Absent
  /\ active[i] # Absent => active[i] \in Obj /\ home[active[i]] = i
  /\ inactive[i] # Absent => inactive[i] \in Obj /\ home[inactive[i]] = i

LoopTidy(l) ==
  LET o == loops[l].node
  IN  /\ loops[l].pc = "unborn" => l \notin closed
      /\ Runs(l) =>
           /\ o \in Obj /\ home[o] \in Id
           /\ loops[l].pc # "start" => close[o] = l
           /\ loops[l].pc = "select" => loops[l].waits = l
           /\ l \in closed => o \notin Pooled
           /\ o \notin Pooled => loops[l].pc = "select" /\ l \in closed
           /\ loops[l].pc = "set" => loops[l].answer # up[o]
           /\ loops[l].pc = "callback" => loops[l].answer = up[o]
           /\ o \in Pooled => (active[home[o]] = o <=> up[o] # (loops[l].pc = "callback"))

OneEach == \A l, m \in Loop : Runs(l) /\ Runs(m) /\ loops[l].node = loops[m].node => l = m

AdminTidy(r) == admin[r].init # "none" =>
  LET o == admin[r].node
  IN  /\ o \in Obj /\ o \in Pooled /\ home[o] = admin[r].id
      /\ \A l \in Loop : Runs(l) /\ loops[l].node = o => loops[l].pc = "select"
      /\ admin[r].init = "model" => admin[r].new = feature[o]
      /\ admin[r].init = "sending" => admin[r].chan = close[o]

Apart == \A r, q \in Admin : Working(r) /\ Working(q) /\ admin[r].id = admin[q].id => r = q

Listed == ~Rebuilding => index = {o \in Obj : feature[o] /\ \E i \in Id : active[i] = o}

Tidy ==
  /\ server = "up"
  /\ MapsTidy /\ OneEach /\ Apart /\ Listed
  /\ \A l \in Loop : LoopTidy(l)
  /\ \A o \in Pooled : \E l \in Loop : Runs(l) /\ loops[l].node = o
  /\ \A r \in Admin : AdminTidy(r)

-----------------------------------------------------------------------------
(* Types.                                                                   *)

(* A loop that runs and an Init that runs have a node.                      *)
Bound ==
  /\ \A l \in Loop : Runs(l) => loops[l].node \in Obj
  /\ \A r \in Admin : admin[r].init # "none" => admin[r].node \in Obj

LEMMA Names ==
  /\ Nil \notin Id /\ Absent \notin Id /\ Nil \notin Obj /\ Absent \notin Obj
  /\ Nil \notin Loop /\ Absent \notin Loop /\ Absent # Nil
  BY NullsOk

LEMMA LoopFields ==
  ASSUME TypeOK, NEW l \in Loop
  PROVE  /\ loops[l] \in LoopState
         /\ loops[l].pc \in {"unborn", "start", "top", "select", "ping", "set",
                             "callback", "index", "done"}
         /\ loops[l].node \in Obj \cup {Nil} /\ loops[l].waits \in Loop \cup {Nil}
         /\ loops[l].retry \in 0..Retry /\ loops[l].answer \in BOOLEAN
  BY DEF TypeOK, LoopState

LEMMA AdminFields ==
  ASSUME TypeOK, NEW r \in Admin
  PROVE  /\ admin[r] \in AdminState
         /\ admin[r].pc \in {"idle", "index"}
         /\ admin[r].init \in {"none", "model", "send", "sending"}
         /\ admin[r].id \in Id \cup {Nil} /\ admin[r].node \in Obj \cup {Nil}
         /\ admin[r].new \in BOOLEAN /\ admin[r].chan \in Loop \cup {Nil}
  BY DEF TypeOK, AdminState

LEMMA UnbornType ==
  /\ Unborn \in LoopState /\ Unborn.pc = "unborn" /\ Unborn.node = Nil
  /\ Unborn.waits = Nil /\ Unborn.retry = 0 /\ Unborn.answer = FALSE
  BY RetryOk DEF Unborn, LoopState

LEMMA IdleType ==
  /\ Idle \in AdminState /\ Idle.pc = "idle" /\ Idle.init = "none" /\ Idle.id = Nil
  /\ Idle.node = Nil /\ Idle.new = FALSE /\ Idle.chan = Nil
  BY DEF Idle, AdminState

OtherLoops(l) == \A m \in Loop \ {l} : loops'[m] = loops[m]
OtherAdmin(r) == \A q \in Admin \ {r} : admin'[q] = admin[q]

LEMMA LoopBecomes ==
  ASSUME TypeOK, NEW l \in Loop, NEW h \in LoopState, loops' = [loops EXCEPT ![l] = h]
  PROVE  loops' \in [Loop -> LoopState] /\ loops'[l] = h /\ OtherLoops(l)
  BY DEF TypeOK, OtherLoops

LEMMA AdminBecomes ==
  ASSUME TypeOK, NEW r \in Admin, NEW h \in AdminState, admin' = [admin EXCEPT ![r] = h]
  PROVE  admin' \in [Admin -> AdminState] /\ admin'[r] = h /\ OtherAdmin(r)
  BY DEF TypeOK, OtherAdmin

(* LoopTo, and the start and the end of a loop.                             *)
LEMMA LoopToDoes ==
  ASSUME TypeOK, NEW l \in Loop,
         NEW pc \in {"top", "ping", "callback"}, LoopTo(l, pc)
  PROVE  /\ loops' \in [Loop -> LoopState] /\ OtherLoops(l)
         /\ loops'[l].pc = pc /\ loops'[l].node = loops[l].node
         /\ loops'[l].answer = loops[l].answer
<1> DEFINE h == [loops[l] EXCEPT !.pc = pc, !.waits = Nil]
<1>1. loops' = [loops EXCEPT ![l] = h]
  BY Zenon DEF LoopTo
<1>2. h \in LoopState /\ h.pc = pc /\ h.node = loops[l].node /\ h.answer = loops[l].answer
  BY LoopFields DEF LoopState
<1> HIDE DEF h
<1>3. QED
  BY <1>1, <1>2, LoopBecomes

Begun(o) == [Unborn EXCEPT !.pc = "start", !.node = o]

LEMMA BegunType ==
  ASSUME NEW o \in Obj \cup {Nil}
  PROVE  Begun(o) \in LoopState /\ Begun(o).pc = "start" /\ Begun(o).node = o
  BY UnbornType DEF Begun, LoopState

LEMMA StoppedType ==
  ASSUME TypeOK, NEW l \in Loop
  PROVE  /\ Stopped(l) \in LoopState /\ Stopped(l).pc = "done"
         /\ Stopped(l).node = loops[l].node
  BY UnbornType, LoopFields DEF Stopped, LoopState

LEMMA SpawnLoopDoes ==
  ASSUME TypeOK, NEW l \in Loop, NEW o \in Obj \cup {Nil}, SpawnLoop(l, o)
  PROVE  /\ loops' \in [Loop -> LoopState] /\ OtherLoops(l) /\ loops[l].pc = "unborn"
         /\ loops'[l].pc = "start" /\ loops'[l].node = o
<1>1. loops' = [loops EXCEPT ![l] = Begun(o)] /\ loops[l].pc = "unborn"
  BY Zenon DEF SpawnLoop, Begun
<1>2. QED
  BY <1>1, BegunType, LoopBecomes

(* The requests end in one of these ways.                                   *)
LEMMA InitDoneType ==
  ASSUME TypeOK, NEW r \in Admin
  PROVE  /\ InitDone(r) \in AdminState /\ InitDone(r).init = "none"
         /\ InitDone(r).pc = admin[r].pc
         /\ InitDone(r).pc # "idle" => InitDone(r).id = admin[r].id
<1> DEFINE h == [Idle EXCEPT !.pc = "index", !.id = admin[r].id]
<1>1. h \in AdminState /\ h.init = "none" /\ h.pc = "index" /\ h.id = admin[r].id
  BY IdleType, AdminFields DEF AdminState
<1>2. InitDone(r) = IF admin[r].pc = "idle" THEN Idle ELSE h
  BY Zenon DEF InitDone
<1> HIDE DEF h
<1>3. QED
  BY <1>1, <1>2, IdleType, AdminFields

LEMMA RequestDoneType ==
  ASSUME TypeOK, NEW r \in Admin
  PROVE  /\ RequestDone(r) \in AdminState /\ RequestDone(r).pc = "idle"
         /\ RequestDone(r).init = admin[r].init
         /\ admin[r].init # "none" =>
              /\ RequestDone(r).id = admin[r].id /\ RequestDone(r).node = admin[r].node
              /\ RequestDone(r).new = admin[r].new /\ RequestDone(r).chan = admin[r].chan
<1> DEFINE h == [admin[r] EXCEPT !.pc = "idle"]
<1>1. /\ h \in AdminState /\ h.init = admin[r].init /\ h.pc = "idle" /\ h.id = admin[r].id
      /\ h.node = admin[r].node /\ h.new = admin[r].new /\ h.chan = admin[r].chan
  BY AdminFields DEF AdminState
<1>2. RequestDone(r) = IF admin[r].init = "none" THEN Idle ELSE h
  BY Zenon DEF RequestDone
<1> HIDE DEF h
<1>3. QED
  BY <1>1, <1>2, IdleType

-----------------------------------------------------------------------------
(* What each step does.                                                     *)

(* What ping loops leave alone.                                             *)
Requests == UNCHANGED <<home, feature, closed, admin, calm>>

LEMMA MakeChannelDoes ==
  ASSUME TypeOK, NEW l \in Loop, MakeChannel(l)
  PROVE  /\ loops' \in [Loop -> LoopState] /\ OtherLoops(l) /\ loops[l].pc = "start"
         /\ loops'[l].pc = "top" /\ loops'[l].node = loops[l].node
         /\ Requests /\ UNCHANGED <<maps, up, server>>
         /\ close' = [close EXCEPT ![loops[l].node] = l]
  BY LoopToDoes DEF MakeChannel, Requests

LEMMA SelectDoes ==
  ASSUME TypeOK, Bound, NEW l \in Loop, Select(l)
  PROVE  /\ loops' \in [Loop -> LoopState] /\ OtherLoops(l) /\ loops[l].pc = "top"
         /\ loops'[l].pc = "select" /\ loops'[l].node = loops[l].node
         /\ loops'[l].waits = close[loops[l].node]
         /\ Requests /\ UNCHANGED <<maps, up, close, server>>
<1> DEFINE h == [loops[l] EXCEPT !.pc = "select", !.waits = close[loops[l].node]]
<1>1. loops' = [loops EXCEPT ![l] = h] /\ loops[l].pc = "top"
  BY Zenon DEF Select
<1>2. close[loops[l].node] \in Loop \cup {Nil}
  BY <1>1 DEF Bound, Runs, TypeOK
<1>3. /\ h \in LoopState /\ h.pc = "select" /\ h.node = loops[l].node
      /\ h.waits = close[loops[l].node]
  BY <1>2, LoopFields DEF LoopState
<1> HIDE DEF h
<1>4. QED
  BY <1>1, <1>3, LoopBecomes DEF Select, Requests, nodes

LEMMA TickDoes ==
  ASSUME TypeOK, NEW l \in Loop, Tick(l)
  PROVE  /\ loops' \in [Loop -> LoopState] /\ OtherLoops(l) /\ loops[l].pc = "select"
         /\ Undisturbed(home[loops[l].node])
         /\ loops'[l].pc = "ping" /\ loops'[l].node = loops[l].node
         /\ Requests /\ UNCHANGED <<maps, up, close, server>>
  BY LoopToDoes DEF Tick, Requests, nodes

LEMMA StopLoopDoes ==
  ASSUME TypeOK, NEW l \in Loop, StopLoop(l)
  PROVE  /\ loops' \in [Loop -> LoopState] /\ OtherLoops(l)
         /\ loops[l].pc = "select" /\ loops[l].waits \in closed
         /\ loops'[l].pc = "done" /\ loops'[l].node = loops[l].node
         /\ Requests /\ UNCHANGED <<maps, up, close, server>>
<1>1. loops' = [loops EXCEPT ![l] = Stopped(l)]
  BY Zenon DEF StopLoop
<1>2. QED
  BY <1>1, StoppedType, LoopBecomes DEF StopLoop, Requests, nodes

(* A ping has the loop report a change, or wait again.                      *)
LEMMA PingDoes ==
  ASSUME TypeOK, NEW l \in Loop, PingAnswered(l) \/ PingFailed(l)
  PROVE  /\ loops' \in [Loop -> LoopState] /\ OtherLoops(l) /\ loops[l].pc = "ping"
         /\ loops'[l].node = loops[l].node
         /\ \/ loops'[l].pc = "top"
            \/ loops'[l].pc = "set" /\ loops'[l].answer # up[loops[l].node]
         /\ Requests /\ UNCHANGED <<maps, up, close, server>>
<1>1. ASSUME NEW answer \in BOOLEAN, NEW retry \in 0..Retry, Outcome(l, answer, retry)
      PROVE  /\ loops' \in [Loop -> LoopState] /\ OtherLoops(l)
             /\ loops'[l].node = loops[l].node
             /\ \/ loops'[l].pc = "top"
                \/ loops'[l].pc = "set" /\ loops'[l].answer # up[loops[l].node]
             /\ Requests /\ UNCHANGED <<maps, up, close, server>>
  <2> DEFINE changed == answer # up[loops[l].node] /\ (answer \/ retry = Retry)
             value   == changed /\ answer
             pc      == IF changed THEN "set" ELSE "top"
             h       == [loops[l] EXCEPT !.retry = retry, !.answer = value, !.pc = pc]
  <2>1. loops' = [loops EXCEPT ![l] = h]
    BY <1>1, Zenon DEF Outcome
  <2>2. value \in BOOLEAN /\ pc \in {"set", "top"}
    OBVIOUS
  <2>3. pc = "set" => value # up[loops[l].node]
    <3>1. changed => value = answer
      BY Zenon
    <3>2. pc = "set" => changed
      OBVIOUS
    <3>3. QED
      BY <3>1, <3>2, Zenon
  <2> HIDE DEF value, pc
  <2>4. /\ h \in LoopState /\ h.pc = pc /\ h.node = loops[l].node /\ h.answer = value
    BY <2>2, LoopFields DEF LoopState
  <2> HIDE DEF h
  <2>5. loops' \in [Loop -> LoopState] /\ OtherLoops(l) /\ loops'[l] = h
    BY <2>1, <2>4, LoopBecomes
  <2>6. Requests /\ UNCHANGED <<maps, up, close, server>>
    BY <1>1 DEF Outcome, Requests, nodes
  <2>7. QED
    BY <2>2, <2>3, <2>4, <2>5, <2>6
<1>2. /\ loops[l].pc = "ping"
      /\ \E answer \in BOOLEAN, retry \in 0..Retry : Outcome(l, answer, retry)
  <2>1. /\ 0 \in 0..Retry
        /\ (IF loops[l].retry < Retry THEN loops[l].retry + 1 ELSE Retry) \in 0..Retry
    BY RetryOk, LoopFields
  <2>2. QED
    BY <2>1, Zenon DEF PingAnswered, PingFailed
<1>3. QED
  BY <1>1, <1>2

LEMMA SetActiveDoes ==
  ASSUME TypeOK, NEW l \in Loop, SetActive(l)
  PROVE  /\ loops' \in [Loop -> LoopState] /\ OtherLoops(l) /\ loops[l].pc = "set"
         /\ loops'[l].pc = "callback" /\ loops'[l].node = loops[l].node
         /\ loops'[l].answer = loops[l].answer
         /\ Requests /\ UNCHANGED <<maps, close, server>>
         /\ up' = [up EXCEPT ![loops[l].node] = loops[l].answer]
  BY LoopToDoes DEF SetActive, Requests

LEMMA LoopIndexDoes ==
  ASSUME TypeOK, NEW l \in Loop, LoopIndex(l)
  PROVE  /\ loops' \in [Loop -> LoopState] /\ OtherLoops(l) /\ loops[l].pc = "index"
         /\ loops'[l].pc = "top" /\ loops'[l].node = loops[l].node
         /\ Requests /\ UNCHANGED <<active, inactive, up, close>> /\ BuildIndex
  BY LoopToDoes DEF LoopIndex, Requests, nodes

(* What a node is found as under an id.                                     *)
Found(i) == IF inactive[i] # Absent THEN inactive[i]
            ELSE IF active[i] = Absent THEN Nil ELSE active[i]

(* A change of status puts what is registered under the id in one map.      *)
LEMMA NodeStatusChangeDoes ==
  ASSUME TypeOK, NEW l \in Loop, NodeStatusChange(l)
  PROVE  /\ loops' \in [Loop -> LoopState] /\ OtherLoops(l) /\ loops[l].pc = "callback"
         /\ loops'[l].pc = "index" /\ loops'[l].node = loops[l].node
         /\ Requests /\ UNCHANGED <<index, up, close, server>>
         /\ active' \in [Id -> Obj \cup {Absent, Nil}]
         /\ inactive' \in [Id -> Obj \cup {Absent, Nil}]
         /\ \A i \in Id \ {home[loops[l].node]} :
              active'[i] = active[i] /\ inactive'[i] = inactive[i]
         /\ \A i \in Id : i = home[loops[l].node] =>
              /\ loops[l].answer =>
                   /\ active'[i] = Found(i)
                   /\ inactive'[i] = Absent
              /\ ~loops[l].answer =>
                   /\ inactive'[i] = Found(i)
                   /\ active'[i] = IF inactive[i] # Absent THEN active[i] ELSE Absent
<1> DEFINE i == home[loops[l].node]
           a == IF loops[l].answer THEN Found(i)
                ELSE IF inactive[i] # Absent THEN active[i] ELSE Absent
           b == IF loops[l].answer THEN Absent ELSE Found(i)
           h == [loops[l] EXCEPT !.pc = "index", !.answer = FALSE]
<1>1. loops' = [loops EXCEPT ![l] = h] /\ loops[l].pc = "callback"
  BY Zenon DEF NodeStatusChange
<1>2. h \in LoopState /\ h.pc = "index" /\ h.node = loops[l].node
  BY LoopFields DEF LoopState
<1>3. active' = [active EXCEPT ![i] = a] /\ inactive' = [inactive EXCEPT ![i] = b]
  BY DEF NodeStatusChange, Found
<1>4. i \in Id => a \in Obj \cup {Absent, Nil} /\ b \in Obj \cup {Absent, Nil}
  BY DEF TypeOK, Found
<1>5. Requests /\ UNCHANGED <<index, up, close, server>>
  BY DEF NodeStatusChange, Requests, nodes
<1>6. /\ loops[l].answer => a = Found(i) /\ b = Absent
      /\ ~loops[l].answer => b = Found(i) /\ a = IF inactive[i] # Absent THEN active[i] ELSE Absent
  OBVIOUS
<1> HIDE DEF h, a, b
<1>7. /\ active' \in [Id -> Obj \cup {Absent, Nil}]
      /\ inactive' \in [Id -> Obj \cup {Absent, Nil}]
      /\ \A j \in Id \ {i} : active'[j] = active[j] /\ inactive'[j] = inactive[j]
      /\ i \in Id => active'[i] = a /\ inactive'[i] = b
  BY <1>3, <1>4 DEF TypeOK
<1>8. loops' \in [Loop -> LoopState] /\ OtherLoops(l) /\ loops'[l] = h
  BY <1>1, <1>2, LoopBecomes
<1>9. QED
  BY <1>1, <1>2, <1>5, <1>6, <1>7, <1>8

Adds(r, i, f, o, l) ==
  /\ ~Working(r) /\ Undisturbed(i) /\ Registered(i) \in {Absent, Nil} /\ home[o] = Absent
  /\ home' = [home EXCEPT ![o] = i] /\ feature' = [feature EXCEPT ![o] = f]
  /\ up' = [up EXCEPT ![o] = TRUE] /\ active' = [active EXCEPT ![i] = o]
  /\ UNCHANGED <<inactive, index, close, closed, server, calm>>
  /\ OtherLoops(l) /\ loops[l].pc = "unborn"
  /\ loops'[l].pc = "start" /\ loops'[l].node = o
  /\ OtherAdmin(r) /\ admin'[r].pc = "index" /\ admin'[r].init = "none"
  /\ admin'[r].id = i

LEMMA AddNodeDoes ==
  ASSUME TypeOK, NEW r \in Admin, NEW i \in Id, NEW f \in BOOLEAN, NEW o \in Obj,
         NEW l \in Loop, AddNode(r, i, f, o, l)
  PROVE  TypeOK' /\ Adds(r, i, f, o, l)
<1> DEFINE h == [Idle EXCEPT !.pc = "index", !.id = i]
<1>1. admin' = [admin EXCEPT ![r] = h]
  BY Zenon DEF AddNode
<1>2. h \in AdminState /\ h.pc = "index" /\ h.init = "none" /\ h.id = i
  BY IdleType DEF AdminState
<1> HIDE DEF h
<1>3. admin' \in [Admin -> AdminState] /\ admin'[r] = h /\ OtherAdmin(r)
  BY <1>1, <1>2, AdminBecomes
<1>4. /\ home' = [home EXCEPT ![o] = i] /\ feature' = [feature EXCEPT ![o] = f]
      /\ up' = [up EXCEPT ![o] = TRUE] /\ active' = [active EXCEPT ![i] = o]
      /\ UNCHANGED <<inactive, index, close, closed, server, calm>>
      /\ ~Working(r) /\ Undisturbed(i) /\ Registered(i) \in {Absent, Nil} /\ home[o] = Absent
      /\ SpawnLoop(l, o)
  BY Zenon DEF AddNode
<1>5. /\ loops' \in [Loop -> LoopState] /\ OtherLoops(l) /\ loops[l].pc = "unborn"
      /\ loops'[l].pc = "start" /\ loops'[l].node = o
  BY <1>4, SpawnLoopDoes
<1>6. TypeOK'
  BY <1>3, <1>4, <1>5 DEF TypeOK
<1>7. QED
  BY <1>2, <1>3, <1>4, <1>5, <1>6 DEF Adds

LEMMA EditNodeDoes ==
  ASSUME TypeOK, NEW r \in Admin, NEW i \in Id, NEW f \in BOOLEAN, EditNode(r, i, f)
  PROVE  /\ TypeOK'
         /\ ~Working(r) /\ Undisturbed(i) /\ Registered(i) \in Obj
         /\ calm => f = feature[Registered(i)]
         /\ UNCHANGED <<maps, nodes, loops, server, calm>>
         /\ OtherAdmin(r) /\ admin'[r].pc = "index" /\ admin'[r].init = "model"
         /\ admin'[r].id = i /\ admin'[r].node = Registered(i) /\ admin'[r].new = f
<1> DEFINE o == Registered(i)
           h == [Idle EXCEPT !.pc = "index", !.init = "model", !.id = i, !.node = o, !.new = f]
<1>1. admin' = [admin EXCEPT ![r] = h] /\ o \in Obj
  BY Zenon DEF EditNode
<1>2. /\ ~Working(r) /\ Undisturbed(i) /\ (calm => f = feature[Registered(i)])
      /\ UNCHANGED <<maps, nodes, loops, server, calm>>
  BY Zenon DEF EditNode
<1>0. Registered(i) = o
  OBVIOUS
<1> HIDE DEF o
<1>3. /\ h \in AdminState /\ h.pc = "index" /\ h.init = "model" /\ h.id = i /\ h.node = o
      /\ h.new = f
  BY <1>1, IdleType DEF AdminState
<1> HIDE DEF h
<1>4. admin' \in [Admin -> AdminState] /\ admin'[r] = h /\ OtherAdmin(r)
  BY <1>1, <1>3, AdminBecomes
<1>5. TypeOK'
  BY <1>2, <1>4 DEF TypeOK, maps, nodes
<1>6. QED
  BY <1>0, <1>1, <1>2, <1>3, <1>4, <1>5

(* SlaveNode.Init with a new model, for a node that has a channel or none.  *)
LEMMA SetModelDoes ==
  ASSUME TypeOK, Bound, NEW r \in Admin, NEW l \in Loop, SetModel(r, l)
  PROVE  /\ TypeOK' /\ admin[r].init = "model" /\ OtherAdmin(r)
         /\ feature' = [feature EXCEPT ![admin[r].node] = admin[r].new]
         /\ UNCHANGED <<maps, home, close, closed, server, calm>>
         /\ \/ /\ close[admin[r].node] # Nil /\ UNCHANGED <<up, loops>>
               /\ admin'[r].init = "send" /\ admin'[r].pc = admin[r].pc
               /\ admin'[r].id = admin[r].id /\ admin'[r].node = admin[r].node
            \/ /\ close[admin[r].node] = Nil
               /\ OtherLoops(l) /\ loops'[l].pc = "start" /\ loops'[l].node = admin[r].node
               /\ admin'[r].init = "none"
<1> DEFINE o == admin[r].node
<1>1. /\ admin[r].init = "model" /\ feature' = [feature EXCEPT ![o] = admin[r].new]
      /\ UNCHANGED <<maps, home, close, closed, server, calm>>
  BY Zenon DEF SetModel
<1>2. o \in Obj /\ admin[r].new \in BOOLEAN
  BY <1>1, AdminFields DEF Bound
<1>3. CASE close[o] # Nil
  <2> DEFINE h == [admin[r] EXCEPT !.init = "send"]
  <2>1. admin' = [admin EXCEPT ![r] = h] /\ UNCHANGED <<up, loops>>
    BY <1>3, Zenon DEF SetModel
  <2>2. /\ h \in AdminState /\ h.init = "send" /\ h.pc = admin[r].pc
        /\ h.id = admin[r].id /\ h.node = o
    BY AdminFields DEF AdminState
  <2> HIDE DEF h
  <2>3. admin' \in [Admin -> AdminState] /\ admin'[r] = h /\ OtherAdmin(r)
    BY <2>1, <2>2, AdminBecomes
  <2>4. TypeOK'
    BY <1>1, <1>2, <2>1, <2>3 DEF TypeOK, maps
  <2>5. QED
    BY <1>1, <1>3, <2>1, <2>2, <2>3, <2>4
<1>4. CASE close[o] = Nil
  <2>1. admin' = [admin EXCEPT ![r] = InitDone(r)]
    BY <1>4, Zenon DEF SetModel
  <2>2. up' = [up EXCEPT ![o] = TRUE] /\ SpawnLoop(l, o)
    BY <1>4, Zenon DEF SetModel
  <2>3. admin' \in [Admin -> AdminState] /\ admin'[r] = InitDone(r) /\ OtherAdmin(r)
    BY <2>1, InitDoneType, AdminBecomes
  <2>4. /\ loops' \in [Loop -> LoopState] /\ OtherLoops(l)
        /\ loops'[l].pc = "start" /\ loops'[l].node = o
    BY <1>2, <2>2, SpawnLoopDoes
  <2>5. TypeOK'
    BY <1>1, <1>2, <2>2, <2>3, <2>4 DEF TypeOK, maps
  <2>6. QED
    BY <1>1, <1>4, <2>3, <2>4, <2>5, InitDoneType
<1>5. QED
  BY <1>3, <1>4

LEMMA SendCloseDoes ==
  ASSUME TypeOK, Bound, NEW r \in Admin, SendClose(r)
  PROVE  /\ TypeOK' /\ admin[r].init = "send" /\ OtherAdmin(r)
         /\ admin'[r].init = "sending" /\ admin'[r].chan = close[admin[r].node]
         /\ admin'[r].pc = admin[r].pc /\ admin'[r].id = admin[r].id
         /\ admin'[r].node = admin[r].node
         /\ UNCHANGED <<maps, nodes, loops, server, calm>>
<1> DEFINE c == close[admin[r].node]
           h == [admin[r] EXCEPT !.init = "sending", !.chan = c]
<1>1. /\ admin' = [admin EXCEPT ![r] = h] /\ admin[r].init = "send"
      /\ UNCHANGED <<maps, nodes, loops, server, calm>>
  BY Zenon DEF SendClose
<1>2. c \in Loop \cup {Nil}
  BY <1>1 DEF Bound, TypeOK
<1>3. /\ h \in AdminState /\ h.init = "sending" /\ h.chan = c /\ h.pc = admin[r].pc
      /\ h.id = admin[r].id /\ h.node = admin[r].node
  BY <1>2, AdminFields DEF AdminState
<1> HIDE DEF h
<1>4. admin' \in [Admin -> AdminState] /\ admin'[r] = h /\ OtherAdmin(r)
  BY <1>1, <1>3, AdminBecomes
<1>5. TypeOK'
  BY <1>1, <1>4 DEF TypeOK, maps, nodes
<1>6. QED
  BY <1>1, <1>3, <1>4, <1>5

LEMMA AcceptCloseDoes ==
  ASSUME TypeOK, Bound, NEW r \in Admin, NEW l \in Loop, NEW m \in Loop, AcceptClose(r, l, m)
  PROVE  /\ TypeOK' /\ admin[r].init = "sending" /\ OtherAdmin(r)
         /\ admin[r].chan \notin closed
         /\ loops[l].pc = "select" /\ loops[l].waits = admin[r].chan
         /\ loops[m].pc = "unborn" /\ l # m
         /\ loops'[l].pc = "done" /\ loops'[l].node = loops[l].node
         /\ loops'[m].pc = "start" /\ loops'[m].node = admin[r].node
         /\ \A k \in Loop \ {l, m} : loops'[k] = loops[k]
         /\ admin'[r].init = "none" /\ admin'[r].pc = admin[r].pc
         /\ admin'[r].pc # "idle" => admin'[r].id = admin[r].id
         /\ UNCHANGED <<maps, nodes, server, calm>>
<1> DEFINE o == admin[r].node
<1>1. /\ admin[r].init = "sending" /\ admin[r].chan \notin closed
      /\ loops[l].pc = "select" /\ loops[l].waits = admin[r].chan /\ loops[m].pc = "unborn"
      /\ loops' = [loops EXCEPT ![l] = Stopped(l), ![m] = Begun(o)]
      /\ admin' = [admin EXCEPT ![r] = InitDone(r)]
      /\ UNCHANGED <<maps, nodes, server, calm>>
  BY Zenon DEF AcceptClose, Begun
<1>2. o \in Obj
  BY <1>1 DEF Bound
<1>3. l # m /\ Stopped(l) \in LoopState /\ Begun(o) \in LoopState
  BY <1>1, <1>2, StoppedType, BegunType
<1>4. /\ loops' \in [Loop -> LoopState] /\ loops'[l] = Stopped(l) /\ loops'[m] = Begun(o)
      /\ \A k \in Loop \ {l, m} : loops'[k] = loops[k]
  BY <1>1, <1>3 DEF TypeOK
<1>5. admin' \in [Admin -> AdminState] /\ admin'[r] = InitDone(r) /\ OtherAdmin(r)
  BY <1>1, InitDoneType, AdminBecomes
<1>6. TypeOK'
  BY <1>1, <1>4, <1>5 DEF TypeOK, maps, nodes
<1>7. QED
  BY <1>1, <1>2, <1>3, <1>4, <1>5, <1>6, StoppedType, BegunType, InitDoneType

LEMMA DeleteNodeDoes ==
  ASSUME TypeOK, NEW r \in Admin, NEW i \in Id, DeleteNode(r, i)
  PROVE  /\ TypeOK' /\ ~Working(r) /\ Undisturbed(i) /\ OtherAdmin(r)
         /\ admin'[r].pc = "index" /\ admin'[r].init = "none" /\ admin'[r].id = i
         /\ UNCHANGED <<index, loops, server, calm, home, feature, up, close>>
         /\ \A j \in Id \ {i} : active'[j] = active[j] /\ inactive'[j] = inactive[j]
         /\ \/ /\ active[i] \in Obj /\ active'[i] = Absent /\ inactive' = inactive
               /\ closed' = IF close[active[i]] = Nil THEN closed ELSE closed \cup {close[active[i]]}
            \/ /\ active[i] = Absent /\ inactive[i] \in Obj
               /\ inactive'[i] = Absent /\ active' = active
               /\ closed' = IF close[inactive[i]] = Nil THEN closed
                            ELSE closed \cup {close[inactive[i]]}
            \/ Registered(i) \in {Absent, Nil} /\ UNCHANGED <<active, inactive, closed>>
<1> DEFINE h == [Idle EXCEPT !.pc = "index", !.id = i]
<1>1. /\ admin' = [admin EXCEPT ![r] = h] /\ ~Working(r) /\ Undisturbed(i)
      /\ UNCHANGED <<index, loops, server, calm>>
  BY Zenon DEF DeleteNode
<1>2. h \in AdminState /\ h.pc = "index" /\ h.init = "none" /\ h.id = i
  BY IdleType DEF AdminState
<1> HIDE DEF h
<1>3. admin' \in [Admin -> AdminState] /\ admin'[r] = h /\ OtherAdmin(r)
  BY <1>1, <1>2, AdminBecomes
<1>4. CASE /\ active[i] \in Obj /\ KillNode(active[i])
           /\ active' = [active EXCEPT ![i] = Absent] /\ UNCHANGED inactive
  <2>1. /\ active' \in [Id -> Obj \cup {Absent, Nil}] /\ active'[i] = Absent
        /\ \A j \in Id \ {i} : active'[j] = active[j]
    BY <1>4 DEF TypeOK
  <2>2. closed' \subseteq Loop
    BY <1>4 DEF TypeOK, KillNode
  <2>3. TypeOK'
    BY <1>1, <1>3, <1>4, <2>1, <2>2 DEF TypeOK, KillNode
  <2>4. QED
    BY <1>1, <1>2, <1>3, <1>4, <2>1, <2>3 DEF KillNode
<1>5. CASE /\ active[i] = Absent /\ inactive[i] \in Obj /\ KillNode(inactive[i])
           /\ inactive' = [inactive EXCEPT ![i] = Absent] /\ UNCHANGED active
  <2>1. /\ inactive' \in [Id -> Obj \cup {Absent, Nil}] /\ inactive'[i] = Absent
        /\ \A j \in Id \ {i} : inactive'[j] = inactive[j]
    BY <1>5 DEF TypeOK
  <2>2. closed' \subseteq Loop
    BY <1>5 DEF TypeOK, KillNode
  <2>3. TypeOK'
    BY <1>1, <1>3, <1>5, <2>1, <2>2 DEF TypeOK, KillNode
  <2>4. QED
    BY <1>1, <1>2, <1>3, <1>5, <2>1, <2>3 DEF KillNode
<1>6. CASE Registered(i) \in {Absent, Nil} /\ UNCHANGED <<nodes, active, inactive>>
  <2>1. TypeOK'
    BY <1>1, <1>3, <1>6 DEF TypeOK, nodes
  <2>2. QED
    BY <1>1, <1>2, <1>3, <1>6, <2>1 DEF nodes
<1>7. QED
  BY <1>4, <1>5, <1>6 DEF DeleteNode

LEMMA RebuildIndexDoes ==
  ASSUME TypeOK, NEW r \in Admin, RebuildIndex(r)
  PROVE  /\ TypeOK' /\ OtherAdmin(r) /\ admin[r].pc = "index" /\ BuildIndex
         /\ UNCHANGED <<active, inactive, nodes, loops, calm>>
         /\ admin'[r].pc = "idle" /\ admin'[r].init = admin[r].init
         /\ admin[r].init # "none" =>
              /\ admin'[r].id = admin[r].id /\ admin'[r].node = admin[r].node
              /\ admin'[r].new = admin[r].new /\ admin'[r].chan = admin[r].chan
<1>1. /\ admin' = [admin EXCEPT ![r] = RequestDone(r)] /\ admin[r].pc = "index"
      /\ UNCHANGED <<active, inactive, nodes, loops, calm>> /\ BuildIndex
  BY Zenon DEF RebuildIndex
<1>2. admin' \in [Admin -> AdminState] /\ admin'[r] = RequestDone(r) /\ OtherAdmin(r)
  BY <1>1, RequestDoneType, AdminBecomes
<1>3. TypeOK'
  BY <1>1, <1>2 DEF TypeOK, nodes, BuildIndex
<1>4. QED
  BY <1>1, <1>2, <1>3, RequestDoneType

-----------------------------------------------------------------------------
(* Type correctness.                                                        *)

LEMMA TypesInit == Init => TypeOK /\ Bound
  BY UnbornType, IdleType DEF Init, TypeOK, Bound, Runs

LEMMA LoopTypes ==
  ASSUME TypeOK, Bound, NEW l \in Loop, Tick(l) \/ LoopStep(l)
  PROVE  TypeOK' /\ Bound'
<1>1. /\ loops' \in [Loop -> LoopState] /\ OtherLoops(l) /\ Runs(l)
      /\ loops'[l].node = loops[l].node /\ Requests
  BY MakeChannelDoes, SelectDoes, TickDoes, StopLoopDoes, PingDoes, SetActiveDoes,
     LoopIndexDoes, NodeStatusChangeDoes DEF LoopStep, Runs
<1>2. loops[l].node \in Obj /\ loops[l].answer \in BOOLEAN
  BY <1>1, LoopFields DEF Bound
<1>3. Bound'
  BY <1>1 DEF Bound, OtherLoops, Requests, Runs
<1>4. /\ active' \in [Id -> Obj \cup {Absent, Nil}]
      /\ inactive' \in [Id -> Obj \cup {Absent, Nil}]
  BY MakeChannelDoes, SelectDoes, TickDoes, StopLoopDoes, PingDoes, SetActiveDoes,
     LoopIndexDoes, NodeStatusChangeDoes DEF LoopStep, TypeOK, maps
<1>5. up' \in [Obj -> BOOLEAN] /\ close' \in [Obj -> Loop \cup {Nil}]
  <2>1. CASE MakeChannel(l)
    BY <1>2, <2>1, MakeChannelDoes DEF TypeOK
  <2>2. CASE SetActive(l)
    BY <1>2, <2>2, SetActiveDoes DEF TypeOK
  <2>3. CASE UNCHANGED <<up, close>>
    BY <2>3 DEF TypeOK
  <2>4. QED
    BY <2>1, <2>2, <2>3, SelectDoes, TickDoes, StopLoopDoes, PingDoes,
       LoopIndexDoes, NodeStatusChangeDoes DEF LoopStep
<1>6. index' \subseteq Obj /\ server' \in {"up", "dead"}
  <2>1. CASE LoopIndex(l)
    BY <2>1, LoopIndexDoes DEF TypeOK, BuildIndex
  <2>2. CASE UNCHANGED <<index, server>>
    BY <2>2 DEF TypeOK
  <2>3. QED
    BY <2>1, <2>2, MakeChannelDoes, SelectDoes, TickDoes, StopLoopDoes, PingDoes, SetActiveDoes,
       NodeStatusChangeDoes DEF LoopStep, maps
<1>7. QED
  BY <1>1, <1>3, <1>4, <1>5, <1>6 DEF TypeOK, Requests

LEMMA AdminTypes ==
  ASSUME TypeOK, Bound, NEW r \in Admin, Request(r) \/ AdminStep(r)
  PROVE  TypeOK' /\ Bound'
<1>1. ASSUME NEW i \in Id, NEW f \in BOOLEAN, NEW o \in Obj, NEW l \in Loop, AddNode(r, i, f, o, l)
      PROVE  TypeOK' /\ Bound'
  BY <1>1, AddNodeDoes DEF Adds, Bound, Runs, OtherLoops, OtherAdmin
<1>2. ASSUME NEW i \in Id, NEW f \in BOOLEAN, EditNode(r, i, f) PROVE TypeOK' /\ Bound'
  BY <1>2, EditNodeDoes DEF Bound, Runs, OtherAdmin
<1>3. ASSUME NEW i \in Id, DeleteNode(r, i) PROVE TypeOK' /\ Bound'
  BY <1>3, DeleteNodeDoes DEF Bound, Runs, OtherAdmin
<1>4. CASE RebuildIndex(r)
  BY <1>4, RebuildIndexDoes DEF Bound, Runs, OtherAdmin
<1>5. CASE SendClose(r)
  BY <1>5, SendCloseDoes DEF Bound, Runs, OtherAdmin
<1>6. CASE SendPanics(r)
  BY <1>6 DEF SendPanics, TypeOK, Bound, Runs, maps, nodes
<1>7. ASSUME NEW l \in Loop, SetModel(r, l) PROVE TypeOK' /\ Bound'
  BY <1>7, SetModelDoes DEF Bound, Runs, OtherAdmin, OtherLoops
<1>8. ASSUME NEW l \in Loop, NEW m \in Loop, AcceptClose(r, l, m) PROVE TypeOK' /\ Bound'
  BY <1>8, AcceptCloseDoes DEF Bound, Runs, OtherAdmin
<1>9. QED
  BY <1>1, <1>2, <1>3, <1>4, <1>5, <1>6, <1>7, <1>8, Zenon DEF Request, AdminStep

LEMMA TypesNext == TypeOK /\ Bound /\ [Next]_vars => TypeOK' /\ Bound'
<1> SUFFICES ASSUME TypeOK, Bound, [Next]_vars PROVE TypeOK' /\ Bound'
  OBVIOUS
<1>1. CASE Next
  BY <1>1, LoopTypes, AdminTypes, Zenon DEF Next
<1>2. CASE UNCHANGED vars
  BY <1>2 DEF TypeOK, Bound, Runs, vars, maps, nodes
<1>3. QED
  BY <1>1, <1>2

(* Every variable keeps its type, in any environment: maps hold nodes (or   *)
(* the nil that nodeStatusChange stores), loops and Inits work on a node.   *)
THEOREM TypeCorrect == Spec => []TypeOK
<1>1. TypeOK /\ Bound /\ [Next]_vars => TypeOK' /\ Bound'
  BY TypesNext
<1>2. QED
  BY TypesInit, <1>1, PTL DEF Spec

(* A removed node never comes back, whatever its ping loop reports and the  *)
(* administration does: AddNode makes new objects, and nodeStatusChange     *)
(* moves what it finds under the id.                                        *)
THEOREM NeverReturns == Spec => RemovedForGood
<1> DEFINE Stays == \A o \in Obj : home[o] # Absent /\ o \notin Pooled => o \notin Pooled'
<1>1. TypeOK /\ Bound /\ [Next]_vars => [Stays]_vars
  <2> SUFFICES ASSUME TypeOK, Bound, Next, NEW o \in Obj, home[o] # Absent, o \in Pooled'
               PROVE  o \in Pooled
    BY DEF vars
  <2>1. PICK i \in Id : o \in {active'[i], inactive'[i]}
    BY DEF Pooled
  <2>2. o \in {active[i], inactive[i]} => o \in Pooled
    BY DEF Pooled
  <2>3. ASSUME NEW l \in Loop, Tick(l) \/ LoopStep(l) PROVE o \in {active[i], inactive[i]}
    <3>1. CASE NodeStatusChange(l)
      <4>1. CASE i = home[loops[l].node]
        <5>1. o # Absent /\ o # Nil
          BY Names
        <5>2. CASE loops[l].answer
          BY <2>1, <3>1, <4>1, <5>1, <5>2, NodeStatusChangeDoes DEF Found
        <5>3. CASE ~loops[l].answer
          BY <2>1, <3>1, <4>1, <5>1, <5>3, NodeStatusChangeDoes DEF Found
        <5>4. QED
          BY <5>2, <5>3
      <4>2. CASE i # home[loops[l].node]
        BY <2>1, <3>1, <4>2, NodeStatusChangeDoes
      <4>3. QED
        BY <4>1, <4>2
    <3>2. CASE ~NodeStatusChange(l)
      BY <2>1, <2>3, <3>2, MakeChannelDoes, SelectDoes, TickDoes, StopLoopDoes, PingDoes,
         SetActiveDoes, LoopIndexDoes DEF LoopStep, maps
    <3>3. QED
      BY <3>1, <3>2
  <2>4. ASSUME NEW r \in Admin, Request(r) \/ AdminStep(r) PROVE o \in {active[i], inactive[i]}
    <3>1. ASSUME NEW j \in Id, NEW f \in BOOLEAN, NEW p \in Obj, NEW l \in Loop,
                 AddNode(r, j, f, p, l)
          PROVE  o \in {active[i], inactive[i]}
      <4>1. active' = [active EXCEPT ![j] = p] /\ inactive' = inactive /\ o # p
        BY <3>1, AddNodeDoes DEF Adds
      <4>2. QED
        BY <2>1, <4>1 DEF TypeOK
    <3>2. ASSUME NEW j \in Id, DeleteNode(r, j) PROVE o \in {active[i], inactive[i]}
      BY <2>1, <3>2, Names, DeleteNodeDoes
    <3>3. CASE UNCHANGED <<active, inactive>>
      BY <2>1, <3>3
    <3>4. QED
      BY <2>4, <3>1, <3>2, <3>3, Zenon
         DEF Request, AdminStep, EditNode, RebuildIndex, SendClose, SendPanics, SetModel,
             AcceptClose, maps
  <2>5. QED
    BY <2>2, <2>3, <2>4, Zenon DEF Next
<1>2. TypeOK /\ Bound /\ [Next]_vars => TypeOK' /\ Bound'
  BY TypesNext
<1>3. QED
  BY TypesInit, <1>1, <1>2, PTL DEF Spec, RemovedForGood

-----------------------------------------------------------------------------
(* Without disturbance.                                                     *)

LEMMA PooledTidy ==
  ASSUME TypeOK, MapsTidy, NEW o \in Pooled
  PROVE  /\ o \in Obj /\ home[o] \in Id
         /\ active[home[o]] = o \/ inactive[home[o]] = o
<1>1. o \in Obj /\ \E i \in Id : o \in {active[i], inactive[i]}
  BY DEF Pooled
<1>2. QED
  BY <1>1, Names DEF MapsTidy

(* The other loops do not notice a step of a loop about its own node.       *)
LEMMA LoopSteps ==
  ASSUME TypeOK, Tidy, NEW l \in Loop, OtherLoops(l), Runs(l),
         UNCHANGED <<home, feature, closed, admin, server>>,
         loops'[l].node = loops[l].node,
         Pooled' = Pooled, MapsTidy', Listed', LoopTidy(l)',
         \A o \in Obj \ {loops[l].node} : up'[o] = up[o] /\ close'[o] = close[o],
         \A i \in Id \ {home[loops[l].node]} : active'[i] = active[i],
         \/ Runs(l)' /\ \A r \in Admin : admin[r].init # "none" => admin[r].node # loops[l].node
         \/ loops[l].node \notin Pooled,
         \A o \in Obj \ {loops[l].node} :
           o \in Pooled => (active'[home[o]] = o <=> active[home[o]] = o)
  PROVE  Tidy'
<1>1. \A m \in Loop : Runs(m)' => Runs(m) /\ loops'[m].node = loops[m].node
  BY DEF OtherLoops, Runs
<1>2. OneEach'
  BY <1>1 DEF OneEach, Tidy
<1>3. ASSUME NEW m \in Loop \ {l} PROVE LoopTidy(m)'
  <2>1. LoopTidy(m) /\ loops'[m] = loops[m]
    BY DEF Tidy, OtherLoops
  <2>2. CASE Runs(m)
    <3>1. loops[m].node # loops[l].node /\ loops[m].node \in Obj
      BY <2>1, <2>2 DEF Tidy, OneEach, LoopTidy
    <3>2. QED
      BY <2>1, <2>2, <3>1 DEF LoopTidy, Runs
  <2>3. CASE ~Runs(m)
    BY <2>1, <2>3 DEF LoopTidy, Runs
  <2>4. QED
    BY <2>2, <2>3
<1>4. ASSUME NEW o \in Pooled' PROVE \E m \in Loop : Runs(m)' /\ loops'[m].node = o
  <2>1. PICK m \in Loop : Runs(m) /\ loops[m].node = o
    BY DEF Tidy
  <2>2. CASE m = l
    BY <2>1, <2>2
  <2>3. CASE m # l
    BY <2>1, <2>3 DEF OtherLoops, Runs
  <2>4. QED
    BY <2>2, <2>3
<1>5. ASSUME NEW r \in Admin PROVE AdminTidy(r)'
  <2>1. AdminTidy(r)
    BY DEF Tidy
  <2>2. CASE admin[r].init # "none"
    <3>1. admin[r].node \in Pooled /\ admin[r].node \in Obj /\ admin[r].node # loops[l].node
      BY <2>1, <2>2 DEF AdminTidy
    <3>2. QED
      BY <1>1, <2>1, <2>2, <3>1 DEF AdminTidy, OtherLoops, Runs
  <2>3. CASE admin[r].init = "none"
    BY <2>3 DEF AdminTidy
  <2>4. QED
    BY <2>2, <2>3
<1>6. Apart' /\ server' = "up"
  BY DEF Tidy, Apart, Working
<1>7. QED
  BY <1>2, <1>3, <1>4, <1>5, <1>6 DEF Tidy

(* A loop whose node is being edited sleeps.                                *)
LEMMA NotEdited ==
  ASSUME Tidy, NEW l \in Loop, Runs(l), loops[l].pc # "select", NEW r \in Admin,
         admin[r].init # "none"
  PROVE  admin[r].node # loops[l].node
  BY DEF Tidy, AdminTidy

(* Loops without a step of the maps and nodes.                              *)
LEMMA QuietLoop ==
  ASSUME TypeOK, Tidy, NEW l \in Loop, OtherLoops(l), Runs(l), Requests,
         UNCHANGED <<maps, up, close, server>>, loops'[l].node = loops[l].node,
         loops[l].pc # "index", LoopTidy(l)',
         \/ /\ Runs(l)'
            /\ \A r \in Admin : admin[r].init # "none" => admin[r].node # loops[l].node
         \/ loops[l].node \notin Pooled
  PROVE  Tidy'
<1>1. Pooled' = Pooled /\ MapsTidy'
  BY DEF Tidy, MapsTidy, Pooled, maps, Requests
<1>2. Listed'
  BY DEF Tidy, Listed, Rebuilding, OtherLoops, Requests, maps
<1>3. QED
  BY <1>1, <1>2, LoopSteps DEF Requests, maps

LEMMA RunningTidy ==
  ASSUME Tidy, NEW l \in Loop, Runs(l), loops[l].pc # "select"
  PROVE  /\ loops[l].node \in Obj /\ home[loops[l].node] \in Id
         /\ loops[l].node \in Pooled /\ l \notin closed
         /\ loops[l].pc # "start" => close[loops[l].node] = l
  BY DEF Tidy, LoopTidy

LEMMA TidySelect ==
  ASSUME TypeOK, Bound, Tidy, NEW l \in Loop, Select(l)
  PROVE  Tidy'
<1>1. Runs(l) /\ loops[l].pc # "select" /\ loops[l].pc = "top"
  BY SelectDoes DEF Runs
<1>2. LoopTidy(l)
  BY DEF Tidy
<1>3. Pooled' = Pooled
  BY SelectDoes DEF Pooled, maps
<1>4. LoopTidy(l)'
  BY <1>1, <1>2, <1>3, SelectDoes, RunningTidy DEF LoopTidy, Runs, Requests, maps
<1>5. QED
  BY <1>1, <1>4, SelectDoes, NotEdited, QuietLoop DEF Runs

LEMMA TidyTick ==
  ASSUME calm, TypeOK, Tidy, NEW l \in Loop, Tick(l)
  PROVE  Tidy'
<1>1. Runs(l) /\ loops[l].pc = "select" /\ LoopTidy(l)
  BY TickDoes DEF Runs, Tidy
<1>2. loops[l].node \in Obj /\ loops[l].waits \notin closed /\ loops[l].waits = l
  <2>1. l \in LoopsOf(home[loops[l].node])
    BY <1>1 DEF LoopsOf, Runs
  <2>2. QED
    BY <1>1, <2>1, TickDoes DEF Undisturbed, LoopTidy
<1>3. Pooled' = Pooled
  BY TickDoes DEF Pooled, maps
<1>4. LoopTidy(l)'
  BY <1>1, <1>2, <1>3, TickDoes DEF LoopTidy, Runs, Requests, maps
<1>5. \A r \in Admin : admin[r].init # "none" => admin[r].node # loops[l].node
  BY TickDoes DEF Undisturbed, Working, Tidy, AdminTidy
<1>6. QED
  BY <1>1, <1>4, <1>5, TickDoes, QuietLoop DEF Runs

LEMMA TidyStop ==
  ASSUME TypeOK, Tidy, NEW l \in Loop, StopLoop(l)
  PROVE  Tidy'
<1>1. Runs(l) /\ loops[l].node \notin Pooled
  BY StopLoopDoes DEF Runs, Tidy, LoopTidy
<1>2. LoopTidy(l)'
  BY StopLoopDoes DEF LoopTidy, Runs
<1>3. QED
  BY <1>1, <1>2, StopLoopDoes, QuietLoop

LEMMA TidyPing ==
  ASSUME TypeOK, Tidy, NEW l \in Loop, PingAnswered(l) \/ PingFailed(l)
  PROVE  Tidy'
<1>1. Runs(l) /\ loops[l].pc = "ping" /\ LoopTidy(l)
  BY PingDoes DEF Runs, Tidy
<1>3. Pooled' = Pooled
  BY PingDoes DEF Pooled, maps
<1>4. LoopTidy(l)'
  BY <1>1, <1>3, PingDoes DEF LoopTidy, Runs, Requests, maps
<1>5. QED
  BY <1>1, <1>4, PingDoes, NotEdited, QuietLoop DEF Runs

LEMMA TidyChannel ==
  ASSUME TypeOK, Tidy, NEW l \in Loop, MakeChannel(l)
  PROVE  Tidy'
<1>1. Runs(l) /\ loops[l].pc = "start" /\ LoopTidy(l) /\ loops[l].node \in Obj
  BY MakeChannelDoes, RunningTidy DEF Runs, Tidy
<1>2. Pooled' = Pooled /\ MapsTidy' /\ Listed'
  BY <1>1, MakeChannelDoes
     DEF Pooled, maps, MapsTidy, Listed, Rebuilding, Requests, OtherLoops, Tidy
<1>3. close'[loops[l].node] = l /\ \A o \in Obj \ {loops[l].node} : close'[o] = close[o]
  BY <1>1, MakeChannelDoes DEF TypeOK
<1>4. LoopTidy(l)'
  BY <1>1, <1>2, <1>3, MakeChannelDoes DEF LoopTidy, Runs, Requests, maps
<1>5. Runs(l)' /\ \A r \in Admin : admin[r].init # "none" => admin[r].node # loops[l].node
  BY <1>1, MakeChannelDoes, NotEdited DEF Runs
<1>6. QED
  BY <1>1, <1>2, <1>3, <1>4, <1>5, MakeChannelDoes, LoopSteps DEF Requests, maps

(* A closed loop would not run, and the node of a loop that runs is pooled. *)
LEMMA TidySetActive ==
  ASSUME TypeOK, Tidy, NEW l \in Loop, SetActive(l)
  PROVE  Tidy'
<1> DEFINE o == loops[l].node
<1>1. Runs(l) /\ loops[l].pc = "set" /\ LoopTidy(l) /\ o \in Obj
  BY SetActiveDoes, RunningTidy DEF Runs, Tidy
<1>2. Pooled' = Pooled /\ MapsTidy' /\ Listed'
  BY <1>1, SetActiveDoes
     DEF Pooled, maps, MapsTidy, Listed, Rebuilding, Requests, OtherLoops, Tidy
<1>3. up'[o] = loops[l].answer /\ \A p \in Obj \ {o} : up'[p] = up[p]
  BY <1>1, SetActiveDoes, LoopFields DEF TypeOK
<1>4. up[o] \in BOOLEAN /\ loops[l].answer \in BOOLEAN /\ loops[l].answer # up[o]
  BY <1>1, LoopFields DEF TypeOK, LoopTidy
<1>5. /\ o \in Pooled => (active[home[o]] = o <=> up[o])
  BY <1>1, <1>4 DEF LoopTidy, Runs
<1>6. o \in Pooled => (active[home[o]] = o <=> ~up'[o])
  BY <1>3, <1>4, <1>5
<1>7. LoopTidy(l)'
  BY <1>1, <1>2, <1>3, <1>6, SetActiveDoes DEF LoopTidy, Runs, Requests, maps
<1>8. Runs(l)' /\ \A r \in Admin : admin[r].init # "none" => admin[r].node # o
  BY <1>1, SetActiveDoes, NotEdited DEF Runs
<1>9. QED
  BY <1>1, <1>2, <1>3, <1>7, <1>8, SetActiveDoes, LoopSteps DEF Requests, maps

LEMMA TidyStatusChange ==
  ASSUME TypeOK, Tidy, NEW l \in Loop, NodeStatusChange(l)
  PROVE  Tidy'
<1> DEFINE o == loops[l].node
           i == home[o]
<1>1. /\ Runs(l) /\ loops[l].pc = "callback" /\ LoopTidy(l) /\ o \in Obj /\ i \in Id
      /\ o \in Pooled
  BY NodeStatusChangeDoes, RunningTidy DEF Runs, Tidy
<1>2. /\ active[i] = o \/ inactive[i] = o
      /\ active[i] = Absent \/ inactive[i] = Absent
      /\ o # Absent /\ o # Nil
  BY <1>1, PooledTidy, Names DEF Tidy, MapsTidy
<1>3. Found(i) = o
  BY <1>2 DEF Found
<1>4. loops[l].answer \in BOOLEAN /\ up[o] \in BOOLEAN /\ loops[l].answer = up[o]
  BY <1>1, LoopFields DEF LoopTidy, TypeOK, Runs
<1>5. \/ loops[l].answer /\ active'[i] = o /\ inactive'[i] = Absent
      \/ ~loops[l].answer /\ active'[i] = Absent /\ inactive'[i] = o
  <2>1. CASE loops[l].answer
    BY <1>1, <1>3, <2>1, NodeStatusChangeDoes
  <2>2. CASE ~loops[l].answer
    <3>1. active[i] = o /\ inactive[i] = Absent
      <4>1. up[o] # TRUE
        BY <1>4, <2>2, Zenon
      <4>2. active[i] = o
        BY <1>1, <4>1 DEF LoopTidy, Runs
      <4>3. QED
        BY <1>2, <4>2
    <3>2. QED
      BY <1>1, <1>2, <1>3, <2>2, <3>1, NodeStatusChangeDoes
  <2>3. QED
    BY <2>1, <2>2
<1>6. \A j \in Id \ {i} : active'[j] = active[j] /\ inactive'[j] = inactive[j]
  BY NodeStatusChangeDoes
<1>7. MapsTidy'
  BY <1>1, <1>2, <1>5, <1>6, NodeStatusChangeDoes DEF MapsTidy, Tidy, Requests
<1>8. Pooled' = Pooled
  <2>1. ASSUME NEW p \in Obj PROVE p \in Pooled' <=> p \in Pooled
    <3>1. \A j \in Id : p \in {active'[j], inactive'[j]} <=> p \in {active[j], inactive[j]}
      <4>1. p # Absent
        BY Names
      <4>2. QED
        BY <1>2, <1>5, <1>6, <4>1
    <3>2. QED
      BY <3>1 DEF Pooled
  <2>2. QED
    BY <2>1 DEF Pooled
<1>9. Listed'
  BY NodeStatusChangeDoes DEF Listed, Rebuilding
<1>10. active'[i] = o <=> up[o]
  BY <1>2, <1>4, <1>5
<1>11. LoopTidy(l)'
  BY <1>1, <1>4, <1>8, <1>10, NodeStatusChangeDoes DEF LoopTidy, Runs, Requests
<1>12. \A p \in Obj \ {o} : p \in Pooled => (active'[home[p]] = p <=> active[home[p]] = p)
  <2>1. ASSUME NEW p \in Obj \ {o}, p \in Pooled PROVE active'[home[p]] = p <=> active[home[p]] = p
    <3>1. home[p] \in Id
      BY <2>1, PooledTidy DEF Tidy
    <3>2. CASE home[p] = i
      BY <1>2, <1>5, <2>1, <3>2, Names
    <3>3. CASE home[p] # i
      BY <1>6, <3>1, <3>3
    <3>4. QED
      BY <3>2, <3>3
  <2>2. QED
    BY <2>1
<1>13. Runs(l)' /\ \A r \in Admin : admin[r].init # "none" => admin[r].node # o
  BY <1>1, NodeStatusChangeDoes, NotEdited DEF Runs
<1>14. QED
  BY <1>1, <1>6, <1>7, <1>8, <1>9, <1>11, <1>12, <1>13, NodeStatusChangeDoes, LoopSteps
     DEF Requests

(* No key maps to nil: the index can be built.                              *)
LEMMA IndexBuilt ==
  ASSUME MapsTidy, BuildIndex
  PROVE  /\ index' = {o \in Obj : feature[o] /\ \E i \in Id : active[i] = o}
         /\ server' = server
  BY Names DEF MapsTidy, BuildIndex

LEMMA TidyLoopIndex ==
  ASSUME TypeOK, Tidy, NEW l \in Loop, LoopIndex(l)
  PROVE  Tidy'
<1>1. Runs(l) /\ loops[l].pc = "index" /\ LoopTidy(l)
  BY LoopIndexDoes DEF Runs, Tidy
<1>2. /\ index' = {o \in Obj : feature[o] /\ \E i \in Id : active[i] = o}
      /\ server' = server
  BY LoopIndexDoes, IndexBuilt DEF Tidy
<1>3. Pooled' = Pooled /\ MapsTidy' /\ Listed'
  BY <1>2, LoopIndexDoes DEF Pooled, MapsTidy, Listed, Requests, Tidy
<1>4. LoopTidy(l)'
  BY <1>1, <1>3, LoopIndexDoes DEF LoopTidy, Runs, Requests
<1>5. Runs(l)' /\ \A r \in Admin : admin[r].init # "none" => admin[r].node # loops[l].node
  BY <1>1, LoopIndexDoes, NotEdited DEF Runs
<1>6. QED
  BY <1>1, <1>2, <1>3, <1>4, <1>5, LoopIndexDoes, LoopSteps DEF Requests

(* A request that has started or goes on, without a step of the loops.      *)
LEMMA AdminSteps ==
  ASSUME TypeOK, Tidy, NEW r \in Admin, OtherAdmin(r),
         UNCHANGED <<active, inactive, nodes, loops, server>>,
         Listed', AdminTidy(r)',
         Working(r)' => \A q \in Admin \ {r} : Working(q) => admin[q].id # admin'[r].id
  PROVE  Tidy'
<1>1. /\ MapsTidy' /\ OneEach' /\ server' = "up" /\ Pooled' = Pooled
      /\ \A l \in Loop : LoopTidy(l)'
  BY DEF Tidy, MapsTidy, OneEach, LoopTidy, Runs, Pooled, nodes
<1>2. \A o \in Pooled' : \E l \in Loop : Runs(l)' /\ loops'[l].node = o
  BY <1>1 DEF Tidy, Runs
<1>3. ASSUME NEW q \in Admin \ {r} PROVE AdminTidy(q)'
  <2>1. AdminTidy(q) /\ admin'[q] = admin[q]
    BY DEF Tidy, OtherAdmin
  <2>2. QED
    BY <1>1, <2>1 DEF AdminTidy, Runs, nodes
<1>4. Apart'
  BY DEF Tidy, Apart, Working, OtherAdmin
<1>5. QED
  BY <1>1, <1>2, <1>3, <1>4 DEF Tidy

(* What Undisturbed says of a node that is registered.                      *)
LEMMA Asleep ==
  ASSUME calm, TypeOK, Tidy, NEW i \in Id, Undisturbed(i)
  PROVE  /\ \A r \in Admin : Working(r) => admin[r].id # i
         /\ \A l \in Loop : Runs(l) /\ home[loops[l].node] = i =>
              /\ loops[l].pc = "select" /\ loops[l].waits = l /\ l \notin closed
              /\ loops[l].node \in Pooled /\ close[loops[l].node] = l
<1>1. ASSUME NEW l \in Loop, Runs(l), home[loops[l].node] = i
      PROVE  /\ loops[l].pc = "select" /\ loops[l].waits = l /\ l \notin closed
             /\ loops[l].node \in Pooled /\ close[loops[l].node] = l
  <2>1. l \in LoopsOf(i) /\ LoopTidy(l)
    BY <1>1 DEF LoopsOf, Runs, Tidy
  <2>2. loops[l].pc = "select" /\ loops[l].waits \notin closed
    BY <2>1 DEF Undisturbed
  <2>3. QED
    BY <1>1, <2>1, <2>2 DEF LoopTidy
<1>2. QED
  BY <1>1 DEF Undisturbed

LEMMA TidyEdit ==
  ASSUME calm, TypeOK, Tidy, NEW r \in Admin, NEW i \in Id, NEW f \in BOOLEAN, EditNode(r, i, f)
  PROVE  Tidy'
<1> DEFINE o == Registered(i)
<1>0. /\ ~Working(r) /\ Undisturbed(i) /\ o \in Obj /\ f = feature[o]
      /\ UNCHANGED <<maps, nodes, loops, server, calm>>
      /\ OtherAdmin(r) /\ admin'[r].pc = "index" /\ admin'[r].init = "model"
      /\ admin'[r].id = i /\ admin'[r].node = o /\ admin'[r].new = f
  BY EditNodeDoes, ZenonT(90)
<1>1. o \in Obj /\ o \in Pooled /\ home[o] = i
  <2>1. o \in Obj /\ o \in {active[i], inactive[i]} /\ o # Absent
    BY <1>0, Names DEF Registered
  <2>2. QED
    BY <2>1 DEF Pooled, Tidy, MapsTidy
<1> HIDE DEF o
<1>2. \A l \in Loop : Runs(l) /\ loops[l].node = o => loops[l].pc = "select"
  BY <1>0, <1>1, Asleep
<1>3. AdminTidy(r)'
  BY <1>0, <1>1, <1>2 DEF AdminTidy, Runs, Pooled, nodes, maps
<1>4. Listed'
  BY <1>0 DEF Listed, Rebuilding
<1>5. \A q \in Admin : Working(q) => admin[q].id # i
  BY <1>0, Asleep
<1>6. QED
  BY <1>0, <1>3, <1>4, <1>5, AdminSteps DEF maps

LEMMA TidyRebuild ==
  ASSUME TypeOK, Tidy, NEW r \in Admin, RebuildIndex(r)
  PROVE  Tidy'
<1>1. /\ index' = {o \in Obj : feature[o] /\ \E i \in Id : active[i] = o}
      /\ server' = server
  BY RebuildIndexDoes, IndexBuilt DEF Tidy
<1>2. Listed'
  BY <1>1, RebuildIndexDoes DEF Listed, nodes
<1>3. AdminTidy(r)
  BY DEF Tidy
<1>4. AdminTidy(r)'
  BY <1>3, RebuildIndexDoes DEF AdminTidy, Runs, Pooled, nodes
<1>5. Working(r)' => Working(r) /\ admin'[r].id = admin[r].id
  BY RebuildIndexDoes DEF Working
<1>6. QED
  BY <1>1, <1>2, <1>4, <1>5, RebuildIndexDoes, AdminSteps DEF Tidy, Apart

LEMMA TidySend ==
  ASSUME TypeOK, Bound, Tidy, NEW r \in Admin, SendClose(r)
  PROVE  Tidy'
<1>1. AdminTidy(r)
  BY DEF Tidy
<1>2. AdminTidy(r)'
  BY <1>1, SendCloseDoes DEF AdminTidy, Runs, Pooled, nodes, maps
<1>3. Listed'
  <2>1. Rebuilding <=> Rebuilding'
    BY SendCloseDoes DEF Rebuilding, OtherAdmin
  <2>2. QED
    BY <2>1, SendCloseDoes DEF Listed, Tidy, nodes, maps
<1>4. Working(r) /\ admin'[r].id = admin[r].id
  BY SendCloseDoes DEF Working
<1>5. QED
  BY <1>2, <1>3, <1>4, SendCloseDoes, AdminSteps DEF Tidy, Apart, maps

(* The channel of a node that is being edited is that of its loop.          *)
LEMMA Reachable ==
  ASSUME TypeOK, Tidy, NEW r \in Admin, admin[r].init # "none"
  PROVE  \E l \in Loop :
           /\ Runs(l) /\ loops[l].node = admin[r].node /\ loops[l].pc = "select"
           /\ close[admin[r].node] = l /\ l \notin closed
<1>1. /\ admin[r].node \in Pooled
      /\ \A l \in Loop : Runs(l) /\ loops[l].node = admin[r].node => loops[l].pc = "select"
  BY DEF Tidy, AdminTidy
<1>2. PICK l \in Loop : Runs(l) /\ loops[l].node = admin[r].node
  BY <1>1 DEF Tidy
<1>3. QED
  BY <1>1, <1>2 DEF Tidy, LoopTidy

LEMMA TidySetModel ==
  ASSUME TypeOK, Bound, Tidy, NEW r \in Admin, NEW l \in Loop, SetModel(r, l)
  PROVE  Tidy'
<1> DEFINE o == admin[r].node
<1>1. admin[r].init = "model" /\ AdminTidy(r)
  BY SetModelDoes DEF Tidy
<1>2. close[o] # Nil
  BY <1>1, Reachable, Names
<1>3. o \in Obj /\ admin[r].new = feature[o]
  BY <1>1 DEF AdminTidy
<1>4. feature' = feature
  BY <1>3, SetModelDoes DEF TypeOK
<1>5. /\ UNCHANGED <<active, inactive, nodes, loops, server>> /\ OtherAdmin(r)
      /\ admin'[r].init = "send" /\ admin'[r].pc = admin[r].pc
      /\ admin'[r].id = admin[r].id /\ admin'[r].node = o
      /\ index' = index
  BY <1>2, <1>4, SetModelDoes DEF nodes, maps
<1>6. AdminTidy(r)'
  BY <1>1, <1>5 DEF AdminTidy, Runs, Pooled, nodes
<1>7. Listed'
  <2>1. Rebuilding <=> Rebuilding'
    BY <1>5 DEF Rebuilding, OtherAdmin
  <2>2. QED
    BY <1>5, <2>1 DEF Listed, Tidy, nodes
<1>8. Working(r)
  BY <1>1 DEF Working
<1>9. QED
  BY <1>5, <1>6, <1>7, <1>8, AdminSteps DEF Tidy, Apart

LEMMA NoPanic ==
  ASSUME TypeOK, Tidy, NEW r \in Admin
  PROVE  ~SendPanics(r)
<1> SUFFICES ASSUME SendPanics(r) PROVE FALSE
  OBVIOUS
<1>1. admin[r].init = "sending" /\ admin[r].chan \in closed /\ AdminTidy(r)
  BY DEF SendPanics, Tidy
<1>2. QED
  BY <1>1, Reachable DEF AdminTidy

(* One loop takes the place of the other.                                   *)
LEMMA TidyAccept ==
  ASSUME TypeOK, Bound, Tidy, NEW r \in Admin, NEW l \in Loop, NEW m \in Loop, AcceptClose(r, l, m)
  PROVE  Tidy'
<1> DEFINE o == admin[r].node
<1>0. /\ admin[r].init = "sending" /\ OtherAdmin(r)
      /\ loops[l].pc = "select" /\ loops[l].waits = admin[r].chan
      /\ loops[m].pc = "unborn" /\ l # m
      /\ loops'[l].pc = "done"
      /\ loops'[m].pc = "start" /\ loops'[m].node = o
      /\ \A k \in Loop \ {l, m} : loops'[k] = loops[k]
      /\ admin'[r].init = "none" /\ admin'[r].pc = admin[r].pc
      /\ admin'[r].pc # "idle" => admin'[r].id = admin[r].id
      /\ UNCHANGED <<maps, nodes, server, calm>>
  BY AcceptCloseDoes
<1>1. AdminTidy(r) /\ o \in Obj /\ o \in Pooled /\ admin[r].chan = close[o]
  BY <1>0 DEF Tidy, AdminTidy
<1>2. loops[l].node = o /\ Runs(l) /\ LoopTidy(l)
  <2>1. PICK k \in Loop : Runs(k) /\ loops[k].node = o /\ close[o] = k
    BY <1>0, Reachable
  <2>2. Runs(l) /\ LoopTidy(l)
    BY <1>0 DEF Runs, Tidy
  <2>3. l = k
    BY <1>0, <1>1, <2>1, <2>2 DEF LoopTidy
  <2>4. QED
    BY <2>1, <2>2, <2>3
<1>3. Pooled' = Pooled /\ MapsTidy' /\ server' = "up"
  BY <1>0 DEF Pooled, MapsTidy, maps, nodes, Tidy
<1>4. \A k \in Loop : Runs(k)' => k = m \/ (k # l /\ Runs(k) /\ loops'[k] = loops[k])
  BY <1>0 DEF Runs
<1>5. OneEach'
  <2>1. \A k \in Loop : Runs(k)' /\ k # m => loops'[k].node # o
    BY <1>2, <1>4 DEF Tidy, OneEach
  <2>2. QED
    BY <1>0, <1>4, <2>1 DEF Tidy, OneEach
<1>6. ASSUME NEW k \in Loop PROVE LoopTidy(k)'
  <2>1. CASE k = m
    <3>1. m \notin closed /\ home[o] \in Id /\ (active[home[o]] = o <=> up[o] # FALSE)
      BY <1>0, <1>1, <1>2 DEF Tidy, LoopTidy
    <3>2. QED
      BY <1>0, <1>1, <1>3, <2>1, <3>1 DEF LoopTidy, Runs, maps, nodes
  <2>2. CASE k = l
    BY <1>0, <2>2 DEF LoopTidy, Runs
  <2>3. CASE k # l /\ k # m
    BY <1>0, <1>3, <2>3 DEF LoopTidy, Runs, Tidy, maps, nodes
  <2>4. QED
    BY <2>1, <2>2, <2>3
<1>7. ASSUME NEW p \in Pooled' PROVE \E k \in Loop : Runs(k)' /\ loops'[k].node = p
  <2>1. PICK k \in Loop : Runs(k) /\ loops[k].node = p
    BY <1>3 DEF Tidy
  <2>2. CASE p = o
    BY <1>0, <2>2 DEF Runs
  <2>3. CASE p # o
    <3>1. k # l /\ k # m
      BY <1>0, <1>2, <2>1, <2>3 DEF Runs
    <3>2. QED
      BY <1>0, <2>1, <3>1 DEF Runs
  <2>4. QED
    BY <2>2, <2>3
<1>8. ASSUME NEW q \in Admin PROVE AdminTidy(q)'
  <2>1. CASE q = r
    BY <1>0, <2>1 DEF AdminTidy
  <2>2. CASE q # r /\ admin[q].init # "none"
    <3>1. AdminTidy(q) /\ admin'[q] = admin[q] /\ admin[q].id # admin[r].id
      BY <1>0, <2>2 DEF Tidy, OtherAdmin, Apart, Working
    <3>2. admin[q].node # o
      BY <1>0, <1>1, <2>2, <3>1 DEF AdminTidy
    <3>3. QED
      BY <1>0, <1>3, <1>4, <2>2, <3>1, <3>2 DEF AdminTidy, maps, nodes
  <2>3. CASE q # r /\ admin[q].init = "none"
    BY <1>0, <2>3 DEF AdminTidy, OtherAdmin
  <2>4. QED
    BY <2>1, <2>2, <2>3
<1>9. Apart'
  <2>1. \A q \in Admin : Working(q)' => Working(q) /\ admin'[q].id = admin[q].id
    BY <1>0 DEF Working, OtherAdmin
  <2>2. QED
    BY <2>1 DEF Tidy, Apart
<1>10. Listed'
  <2>1. Rebuilding => Rebuilding'
    BY <1>0 DEF Rebuilding, OtherAdmin
  <2>2. QED
    BY <1>0, <2>1 DEF Listed, Tidy, maps, nodes
<1>11. QED
  BY <1>3, <1>5, <1>6, <1>7, <1>8, <1>9, <1>10 DEF Tidy

(* A new object under an id that no node has.                               *)
LEMMA TidyAdd ==
  ASSUME calm, TypeOK, Tidy, NEW r \in Admin, NEW i \in Id, NEW f \in BOOLEAN, NEW o \in Obj,
         NEW l \in Loop, AddNode(r, i, f, o, l)
  PROVE  Tidy'
<1>a. Adds(r, i, f, o, l)
  BY AddNodeDoes, Zenon
<1>0. /\ ~Working(r) /\ Undisturbed(i) /\ home[o] = Absent
      /\ UNCHANGED <<inactive, index, close, closed, server>>
      /\ OtherLoops(l) /\ loops[l].pc = "unborn"
      /\ loops'[l].pc = "start" /\ loops'[l].node = o
      /\ OtherAdmin(r) /\ admin'[r].pc = "index" /\ admin'[r].init = "none"
      /\ admin'[r].id = i
  BY <1>a DEF Adds
<1>1. /\ home'[o] = i /\ \A p \in Obj \ {o} : home'[p] = home[p]
      /\ \A p \in Obj \ {o} : feature'[p] = feature[p]
      /\ up'[o] = TRUE /\ \A p \in Obj \ {o} : up'[p] = up[p]
      /\ active'[i] = o /\ \A j \in Id \ {i} : active'[j] = active[j]
  BY <1>a DEF Adds, TypeOK
<1>2. active[i] = Absent /\ inactive[i] = Absent
  BY <1>a, Names DEF Adds, Registered, Tidy, MapsTidy
<1>3. o \notin Pooled /\ \A k \in Loop : Runs(k) => loops[k].node # o
  BY <1>0, PooledTidy, Names DEF Tidy, LoopTidy
<1>4. ASSUME NEW p \in Obj, p # o PROVE p \in Pooled' <=> p \in Pooled
  <2>1. \A j \in Id : p \in {active'[j], inactive'[j]} <=> p \in {active[j], inactive[j]}
    BY <1>0, <1>1, <1>2, <1>4, Names
  <2>2. QED
    BY <2>1 DEF Pooled
<1>5. o \in Pooled'
  BY <1>1 DEF Pooled
<1>6. MapsTidy'
  <2>1. \A j \in Id : active[j] # o /\ inactive[j] # o
    BY <1>3 DEF Pooled
  <2>2. QED
    BY <1>0, <1>1, <1>2, <2>1 DEF MapsTidy, Tidy
<1>7. OneEach'
  BY <1>0, <1>3 DEF OneEach, Tidy, Runs, OtherLoops
<1>8. ASSUME NEW k \in Loop PROVE LoopTidy(k)'
  <2>1. CASE k = l
    <3>1. l \notin closed
      BY <1>0 DEF Tidy, LoopTidy
    <3>2. QED
      BY <1>0, <1>1, <1>5, <2>1, <3>1, ZenonT(90) DEF LoopTidy, Runs
  <2>2. CASE k # l /\ Runs(k)
    <3>1. /\ LoopTidy(k) /\ loops'[k] = loops[k] /\ loops[k].node # o
          /\ loops[k].node \in Obj /\ home[loops[k].node] \in Id
      BY <1>0, <1>3, <2>2 DEF Tidy, LoopTidy, OtherLoops
    <3>2. loops[k].node \in Pooled => home[loops[k].node] # i
      BY <1>2, <3>1, PooledTidy, Names DEF Tidy
    <3>3. loops[k].node \in Pooled' <=> loops[k].node \in Pooled
      BY <1>4, <3>1
    <3>4. loops[k].node \in Pooled => active'[home[loops[k].node]] = active[home[loops[k].node]]
      BY <1>1, <3>1, <3>2
    <3>5. home'[loops[k].node] = home[loops[k].node] /\ up'[loops[k].node] = up[loops[k].node]
      BY <1>1, <3>1
    <3>6. QED
      BY <1>0, <2>2, <3>1, <3>3, <3>4, <3>5 DEF LoopTidy, Runs
  <2>3. CASE k # l /\ ~Runs(k)
    BY <1>0, <2>3 DEF Tidy, LoopTidy, Runs, OtherLoops
  <2>4. QED
    BY <2>1, <2>2, <2>3
<1>9. ASSUME NEW p \in Pooled' PROVE \E k \in Loop : Runs(k)' /\ loops'[k].node = p
  <2>1. CASE p = o
    BY <1>0, <2>1 DEF Runs
  <2>2. CASE p # o
    <3>1. p \in Pooled
      BY <1>4, <2>2 DEF Pooled
    <3>2. PICK k \in Loop : Runs(k) /\ loops[k].node = p
      BY <3>1 DEF Tidy
    <3>3. QED
      BY <1>0, <3>2 DEF Runs, OtherLoops
  <2>3. QED
    BY <2>1, <2>2
<1>10. ASSUME NEW q \in Admin PROVE AdminTidy(q)'
  <2>1. CASE admin'[q].init = "none"
    BY <2>1 DEF AdminTidy
  <2>2. CASE admin'[q].init # "none"
    <3>1. q # r /\ admin'[q] = admin[q] /\ AdminTidy(q)
      BY <1>0, <2>2 DEF OtherAdmin, Tidy
    <3>2. admin[q].node \in Obj /\ admin[q].node \in Pooled /\ admin[q].node # o
      BY <1>3, <2>2, <3>1 DEF AdminTidy
    <3>3. admin[q].node \in Pooled'
      BY <1>4, <3>2
    <3>4. QED
      BY <1>0, <1>1, <2>2, <3>1, <3>2, <3>3 DEF AdminTidy, Runs, OtherLoops
  <2>3. QED
    BY <2>1, <2>2
<1>11. Apart'
  <2>1. \A q \in Admin : Working(q) => admin[q].id # i
    BY <1>0, Asleep
  <2>2. QED
    BY <1>0, <2>1 DEF Tidy, Apart, Working, OtherAdmin
<1>12. Listed' /\ server' = "up"
  BY <1>0 DEF Listed, Rebuilding, Tidy
<1>13. QED
  BY <1>6, <1>7, <1>8, <1>9, <1>10, <1>11, <1>12 DEF Tidy

(* The loop of a removed node sleeps and finds its channel closed.          *)
LEMMA TidyDelete ==
  ASSUME calm, TypeOK, Tidy, NEW r \in Admin, NEW i \in Id, DeleteNode(r, i)
  PROVE  Tidy'
<1>0. /\ ~Working(r) /\ Undisturbed(i) /\ OtherAdmin(r)
      /\ admin'[r].pc = "index" /\ admin'[r].init = "none" /\ admin'[r].id = i
      /\ UNCHANGED <<index, loops, server, calm, home, feature, up, close>>
      /\ \A j \in Id \ {i} : active'[j] = active[j] /\ inactive'[j] = inactive[j]
  BY DeleteNodeDoes
<1>1. CASE UNCHANGED <<active, inactive, closed>>
  <2>1. Listed' /\ AdminTidy(r)'
    BY <1>0 DEF Listed, Rebuilding, AdminTidy
  <2>2. QED
    BY <1>0, <1>1, <2>1, Asleep, AdminSteps DEF nodes
<1>2. CASE \E o \in Obj : /\ o \in {active[i], inactive[i]}
                          /\ active'[i] = Absent /\ inactive'[i] = Absent
                          /\ closed' = IF close[o] = Nil THEN closed ELSE closed \cup {close[o]}
  <2>1. PICK o \in Obj : /\ o \in {active[i], inactive[i]}
                         /\ active'[i] = Absent /\ inactive'[i] = Absent
                         /\ closed' = IF close[o] = Nil THEN closed ELSE closed \cup {close[o]}
    BY <1>2
  <2>2. home[o] = i /\ o \in Pooled
    BY <2>1, Names DEF Tidy, MapsTidy, Pooled
  <2>3. PICK l \in Loop : Runs(l) /\ loops[l].node = o
    BY <2>2 DEF Tidy
  <2>4. loops[l].pc = "select" /\ close[o] = l
    BY <1>0, <2>2, <2>3, Asleep
  <2>5. closed' = closed \cup {l}
    BY <2>1, <2>4, Names
  <2>6. \A p \in Obj : p \in Pooled' <=> p \in Pooled /\ p # o
    <3>1. ASSUME NEW p \in Obj PROVE p \in Pooled' <=> p \in Pooled /\ p # o
      <4>1. p # Absent
        BY Names
      <4>2. p \in Pooled /\ home[p] = i => p = o
        BY <2>1, <2>2, <4>1, PooledTidy, Names DEF Tidy, MapsTidy
      <4>3. p \in Pooled' => \E j \in Id \ {i} : p \in {active[j], inactive[j]}
        BY <1>0, <2>1, <4>1 DEF Pooled
      <4>4. \A j \in Id : p \in {active[j], inactive[j]} => home[p] = j
        BY <4>1 DEF Tidy, MapsTidy
      <4>5. p \in Pooled' => p \in Pooled /\ p # o
        BY <2>2, <4>3, <4>4 DEF Pooled
      <4>6. p \in Pooled /\ p # o => p \in Pooled'
        <5>1. SUFFICES ASSUME p \in Pooled, p # o PROVE p \in Pooled'
          OBVIOUS
        <5>2. home[p] \in Id \ {i} /\ (active[home[p]] = p \/ inactive[home[p]] = p)
          BY <4>2, <5>1, PooledTidy DEF Tidy
        <5>3. QED
          BY <1>0, <5>2 DEF Pooled
      <4>7. QED
        BY <4>5, <4>6
    <3>2. QED
      BY <3>1
  <2>7. MapsTidy'
    BY <1>0, <2>1 DEF MapsTidy, Tidy
  <2>8. OneEach' /\ server' = "up"
    BY <1>0 DEF OneEach, Tidy, Runs
  <2>9. ASSUME NEW k \in Loop PROVE LoopTidy(k)'
    <3>1. LoopTidy(k) /\ loops' = loops
      BY <1>0 DEF Tidy
    <3>2. CASE k = l
      BY <1>0, <2>2, <2>3, <2>4, <2>5, <2>6, <3>1, <3>2 DEF LoopTidy, Runs
    <3>3. CASE k # l /\ Runs(k)
      <4>1. loops[k].node # o /\ loops[k].node \in Obj /\ home[loops[k].node] \in Id
        BY <2>3, <3>1, <3>3 DEF Tidy, OneEach, LoopTidy
      <4>2. loops[k].node \in Pooled' <=> loops[k].node \in Pooled
        BY <2>6, <4>1
      <4>3. loops[k].node \in Pooled => active'[home[loops[k].node]] = active[home[loops[k].node]]
        <5>1. SUFFICES ASSUME loops[k].node \in Pooled, home[loops[k].node] = i PROVE FALSE
          BY <1>0, <4>1
        <5>2. QED
          BY <2>1, <4>1, <5>1, PooledTidy, Names DEF Tidy, MapsTidy
      <4>4. QED
        BY <1>0, <2>5, <3>1, <3>3, <4>2, <4>3 DEF LoopTidy, Runs
    <3>4. CASE k # l /\ ~Runs(k)
      BY <2>5, <3>1, <3>4 DEF LoopTidy, Runs
    <3>5. QED
      BY <3>2, <3>3, <3>4
  <2>10. \A p \in Pooled' : \E k \in Loop : Runs(k)' /\ loops'[k].node = p
    BY <1>0, <2>6 DEF Tidy, Runs, Pooled
  <2>11. ASSUME NEW q \in Admin PROVE AdminTidy(q)'
    <3>1. CASE admin'[q].init = "none"
      BY <3>1 DEF AdminTidy
    <3>2. CASE admin'[q].init # "none"
      <4>1. q # r /\ admin'[q] = admin[q] /\ AdminTidy(q) /\ Working(q)
        BY <1>0, <3>2 DEF OtherAdmin, Tidy, Working
      <4>2. admin[q].id # i
        BY <1>0, <4>1, Asleep
      <4>3. admin[q].node # o /\ admin[q].node \in Pooled'
        BY <2>2, <2>6, <3>2, <4>1, <4>2 DEF AdminTidy
      <4>4. QED
        BY <1>0, <3>2, <4>1, <4>3 DEF AdminTidy, Runs
    <3>3. QED
      BY <3>1, <3>2
  <2>12. Apart'
    <3>1. \A q \in Admin : Working(q) => admin[q].id # i
      BY <1>0, Asleep
    <3>2. QED
      BY <1>0, <3>1 DEF Tidy, Apart, Working, OtherAdmin
  <2>13. Listed'
    BY <1>0 DEF Listed, Rebuilding
  <2>14. QED
    BY <2>7, <2>8, <2>9, <2>10, <2>11, <2>12, <2>13 DEF Tidy
<1>3. \/ /\ active[i] \in Obj /\ active'[i] = Absent /\ inactive' = inactive
         /\ closed' = IF close[active[i]] = Nil THEN closed ELSE closed \cup {close[active[i]]}
      \/ /\ active[i] = Absent /\ inactive[i] \in Obj
         /\ inactive'[i] = Absent /\ active' = active
         /\ closed' = IF close[inactive[i]] = Nil THEN closed
                      ELSE closed \cup {close[inactive[i]]}
      \/ Registered(i) \in {Absent, Nil} /\ UNCHANGED <<active, inactive, closed>>
  BY DeleteNodeDoes, Zenon
<1>4. active[i] \in Obj => inactive[i] = Absent
  BY Names DEF Tidy, MapsTidy
<1>5. QED
  BY <1>1, <1>2, <1>3, <1>4

-----------------------------------------------------------------------------
(* What Tidy is for.                                                        *)

LEMMA TidyInit == Init => Tidy
<1> SUFFICES ASSUME Init PROVE Tidy
  OBVIOUS
<1>1. /\ \A i \in Id : active[i] = Absent /\ inactive[i] = Absent
      /\ \A l \in Loop : loops[l].pc = "unborn"
      /\ \A r \in Admin : admin[r].pc = "idle" /\ admin[r].init = "none"
      /\ index = {} /\ closed = {} /\ server = "up"
  BY UnbornType, IdleType DEF Init
<1>2. Pooled = {} /\ {o \in Obj : feature[o] /\ \E i \in Id : active[i] = o} = {}
  BY <1>1, Names DEF Pooled
<1>3. QED
  BY <1>1, <1>2
     DEF Tidy, MapsTidy, OneEach, Apart, Listed, LoopTidy, AdminTidy, Runs, Working

LEMMA TidyNext ==
  ASSUME calm, TypeOK, Bound, Tidy, [Next]_vars
  PROVE  Tidy'
<1>1. ASSUME NEW l \in Loop, Tick(l) \/ LoopStep(l) PROVE Tidy'
  BY <1>1, TidySelect, TidyTick, TidyStop, TidyPing, TidyChannel, TidySetActive,
     TidyStatusChange, TidyLoopIndex, Zenon DEF LoopStep
<1>2. ASSUME NEW r \in Admin, Request(r) PROVE Tidy'
  BY <1>2, TidyAdd, TidyEdit, TidyDelete, Zenon DEF Request
<1>3. ASSUME NEW r \in Admin, AdminStep(r) PROVE Tidy'
  BY <1>3, TidyRebuild, TidySend, NoPanic, TidySetModel, TidyAccept, Zenon DEF AdminStep
<1>4. CASE Next
  BY <1>1, <1>2, <1>3, <1>4, Zenon DEF Next
<1>5. CASE UNCHANGED vars
  BY <1>5 DEF Tidy, MapsTidy, OneEach, Apart, Listed, Rebuilding, LoopTidy, AdminTidy, Runs,
              Working, Pooled, vars, maps, nodes
<1>6. QED
  BY <1>4, <1>5

Inv == TypeOK /\ Bound /\ (calm => Tidy)

LEMMA Invariant == Spec => []Inv
<1>1. Init => Inv
  BY TypesInit, TidyInit DEF Inv
<1>2. Inv /\ [Next]_vars => Inv'
  <2> SUFFICES ASSUME Inv, [Next]_vars PROVE Inv'
    OBVIOUS
  <2>1. TypeOK' /\ Bound'
    BY TypesNext, SMTT(60) DEF Inv
  <2>2. calm' => calm
    BY ZenonT(90) DEF Next, vars, LoopStep, AdminStep, Request, Tick, MakeChannel, Select, StopLoop,
           PingAnswered, PingFailed, Outcome, SetActive, NodeStatusChange, LoopIndex,
           RebuildIndex, SendClose, SendPanics, SetModel, AcceptClose, AddNode, EditNode,
           DeleteNode
  <2>3. QED
    BY <2>1, <2>2, TidyNext DEF Inv
<1>3. QED
  BY <1>1, <1>2, PTL DEF Spec

(* Without disturbance no goroutine panics, the two maps and the nodes      *)
(* agree on who is active but between SetActive and the callback, and the   *)
(* index lists the active nodes with aria2 but between a change of a map    *)
(* and the rebuild after it.                                                *)
THEOREM StatusesAgree == Spec => []StatusAgrees
<1>1. ASSUME Inv, calm PROVE StatusAgrees
  <2>1. Tidy /\ TypeOK
    BY <1>1 DEF Inv
  <2>2. ASSUME NEW i \in Id, ~Reporting(i), NEW o \in Obj, o \in {active[i], inactive[i]}
        PROVE  home[o] = i /\ (active[i] = o <=> up[o])
    <3>1. home[o] = i /\ o \in Pooled
      BY <2>1, <2>2, Names DEF Tidy, MapsTidy, Pooled
    <3>2. PICK l \in Loop : Runs(l) /\ loops[l].node = o
      BY <2>1, <3>1 DEF Tidy
    <3>3. loops[l].pc # "callback"
      BY <2>2, <3>1, <3>2 DEF Reporting, LoopsOf, Runs
    <3>4. LoopTidy(l) /\ up[o] \in BOOLEAN
      BY <2>1 DEF Tidy, TypeOK
    <3>5. QED
      BY <3>1, <3>2, <3>3, <3>4 DEF LoopTidy
  <2>3. ASSUME NEW i \in Id, ~Reporting(i)
        PROVE  /\ active[i] = Absent \/ inactive[i] = Absent
               /\ active[i] # Absent => active[i] \in Obj /\ up[active[i]]
               /\ inactive[i] # Absent => inactive[i] \in Obj /\ ~up[inactive[i]]
    <3>1. /\ active[i] = Absent \/ inactive[i] = Absent
          /\ active[i] # Absent => active[i] \in Obj
          /\ inactive[i] # Absent => inactive[i] \in Obj
      BY <2>1 DEF Tidy, MapsTidy
    <3>2. active[i] # Absent => up[active[i]]
      BY <2>2, <2>3, <3>1
    <3>3. inactive[i] # Absent => ~up[inactive[i]]
      BY <2>2, <2>3, <3>1, Names
    <3>4. QED
      BY <3>1, <3>2, <3>3
  <2>4. QED
    BY <2>1, <2>3 DEF StatusAgrees, Tidy, Listed
<1>2. Inv => StatusAgrees
  BY <1>1 DEF StatusAgrees
<1>3. QED
  BY <1>2, Invariant, PTL

(* Without disturbance a node has one ping loop, also after Init has closed *)
(* one to start another, and the loop of a removed node waits on a closed   *)
(* channel.                                                                 *)
THEOREM OneLoopEach == Spec => []OneLoop
<1>1. ASSUME Tidy, NEW o \in Obj
      PROVE  /\ Cardinality(LoopOf(o)) <= 1
             /\ o \in Pooled => LoopOf(o) # {}
             /\ o \notin Pooled => \A l \in LoopOf(o) : loops[l].pc = "select" /\ loops[l].waits \in closed
  <2>1. \A l \in LoopOf(o) : l \in Loop /\ Runs(l) /\ loops[l].node = o
    BY DEF LoopOf, Runs
  <2>2. Cardinality(LoopOf(o)) <= 1
    <3>1. CASE LoopOf(o) = {}
      <4>1. Cardinality({}) = 0
        BY FS_EmptySet
      <4>2. QED
        BY <3>1, <4>1
    <3>2. ASSUME NEW l \in LoopOf(o) PROVE Cardinality(LoopOf(o)) <= 1
      <4>1. LoopOf(o) = {l}
        BY <1>1, <2>1, <3>2 DEF Tidy, OneEach
      <4>2. Cardinality({l}) = 1
        BY FS_Singleton
      <4>3. QED
        BY <4>1, <4>2
    <3>3. QED
      BY <3>1, <3>2
  <2>3. o \in Pooled => LoopOf(o) # {}
    BY <1>1 DEF Tidy, LoopOf, Runs
  <2>4. ASSUME o \notin Pooled, NEW l \in LoopOf(o)
        PROVE  loops[l].pc = "select" /\ loops[l].waits \in closed
    BY <1>1, <2>1, <2>4 DEF Tidy, LoopTidy
  <2>5. QED
    BY <2>2, <2>3, <2>4
<1>2. Inv => OneLoop
  BY <1>1 DEF Inv, OneLoop
<1>3. QED
  BY <1>2, Invariant, PTL

-----------------------------------------------------------------------------
(* The task pool.                                                           *)

(* A goroutine exists only while the server runs; one that has not started  *)
(* its job belongs to a row that has not ended; Resume holds no row that    *)
(* has a goroutine already.                                                 *)
Pending == {"recorded", "waiting", "held"}

Consistent ==
  /\ phase = "down" => resume = {} /\ go = [t \in Task |-> "none"]
  /\ \A t \in Task : go[t] \in Pending => status[t] \notin {"none", "error", "complete"}
  /\ \A t \in Task : status[t] = "none" => go[t] = "none" /\ t \notin resume
  /\ \A t \in resume : go[t] = "none" /\ status[t] \notin {"none", "error", "complete"}
  /\ phase = "up" => resume = {}

PoolInv == TaskTypeOK /\ Consistent /\ TokensConserved

-----------------------------------------------------------------------------
(* The number of goroutines that hold a token is finite and moves by one    *)
(* when one goroutine takes or returns a token.                             *)
LEMMA HoldersFinite ==
  /\ IsFiniteSet(Holders)
  /\ Cardinality(Holders) \in Nat
<1>1. IsFiniteSet(Holders)
  BY TaskFinite, FS_Subset DEF Holders
<1>2. QED
  BY <1>1, FS_CardinalityType

LEMMA TakesToken ==
  ASSUME NEW t \in Task, t \notin Holders, Holders' = Holders \cup {t}
  PROVE  Cardinality(Holders') = Cardinality(Holders) + 1
BY HoldersFinite, FS_AddElement

LEMMA ReturnsToken ==
  ASSUME NEW t \in Task, t \in Holders, Holders' = Holders \ {t}
  PROVE  Cardinality(Holders') = Cardinality(Holders) - 1
BY HoldersFinite, FS_RemoveElement

(* While a token is held by t, fewer than MaxWorker other jobs are running. *)
LEMMA RoomToRun ==
  ASSUME TaskTypeOK, TokensConserved, phase # "down",
         NEW t \in Task, go[t] = "held"
  PROVE  t \notin Running /\ Cardinality(Running) < MaxWorker
<1>1. t \in Holders /\ t \notin Running
  BY DEF Holders, Running, Started
<1>2. Running \subseteq Holders \ {t}
  BY <1>1 DEF Holders, Running, Started
<1>3. IsFiniteSet(Holders \ {t}) /\ Cardinality(Holders \ {t}) = Cardinality(Holders) - 1
  BY <1>1, HoldersFinite, FS_RemoveElement
<1>4. Cardinality(Running) <= Cardinality(Holders \ {t}) /\ Cardinality(Running) \in Nat
  BY <1>2, <1>3, FS_Subset, FS_CardinalityType
<1>5. Cardinality(Holders) <= MaxWorker
  BY HoldersFinite, WorkersPositive DEF TaskTypeOK, TokensConserved
<1>6. QED
  BY <1>1, <1>3, <1>4, <1>5, HoldersFinite, WorkersPositive

-----------------------------------------------------------------------------
LEMMA PoolInit == TaskInit => PoolInv
<1>1. TaskInit => TaskTypeOK
  BY WorkersPositive, CrashesNat DEF TaskInit, TaskTypeOK, Status
<1>2. TaskInit => Consistent /\ TokensConserved
  BY DEF TaskInit, Consistent, TokensConserved, Pending
<1>3. QED
  BY <1>1, <1>2 DEF PoolInv

(* Types and goroutines, step by step.                                      *)
LEMMA PoolNext == PoolInv /\ [TaskNext]_taskVars => TaskTypeOK' /\ Consistent' /\ TokensConserved'
<1> SUFFICES ASSUME PoolInv, [TaskNext]_taskVars
             PROVE  TaskTypeOK' /\ Consistent' /\ TokensConserved'
  OBVIOUS
<1> USE DEF PoolInv
<1>u. CASE UNCHANGED taskVars
  BY <1>u DEF taskVars, TaskTypeOK, Consistent, TokensConserved, Holders
<1>1. CASE BootPool
  <2>1. Holders' = {}
    BY <1>1 DEF BootPool, Consistent, Holders, Started
  <2>2. Cardinality(Holders') = 0
    BY <2>1, FS_EmptySet
  <2>3. TaskTypeOK' /\ Consistent'
    BY <1>1, WorkersPositive DEF BootPool, TaskTypeOK, Consistent, Status
  <2>4. QED
    BY <1>1, <2>2, <2>3, WorkersPositive DEF BootPool, TokensConserved
<1>2. CASE ServeRequests
  BY <1>2 DEF ServeRequests, TaskTypeOK, Consistent, TokensConserved, Holders
<1>d. ASSUME GoDown, crashes' \in 0..MaxCrashes
      PROVE  TaskTypeOK' /\ Consistent' /\ TokensConserved'
  <2>1. TaskTypeOK'
    BY <1>d, WorkersPositive DEF GoDown, TaskTypeOK
  <2>2. Consistent'
    BY <1>d DEF GoDown, Consistent, Pending
  <2>3. TokensConserved'
    BY <1>d DEF GoDown, TokensConserved
  <2>4. QED
    BY <2>1, <2>2, <2>3
<1>3. CASE Crash
  BY <1>3, <1>d, CrashesNat DEF Crash, TaskTypeOK
<1>4. ASSUME NEW t \in Task, Record(t)
      PROVE  TaskTypeOK' /\ Consistent' /\ TokensConserved'
  <2>1. TaskTypeOK' /\ Consistent'
    BY <1>4 DEF Record, Goto, TaskTypeOK, Consistent, Status, Pending
  <2>2. Holders' = Holders
    BY <1>4 DEF Record, Goto, TaskTypeOK, Consistent, Holders, Started
  <2>3. QED
    BY <1>4, <2>1, <2>2 DEF Record, TokensConserved
<1>5. ASSUME NEW t \in Task, ObtainWorker(t)
      PROVE  TaskTypeOK' /\ Consistent' /\ TokensConserved'
  <2>1. TaskTypeOK' /\ Consistent'
    BY <1>5, WorkersPositive DEF ObtainWorker, Goto, TaskTypeOK, Consistent, Started, Pending
  <2>2. t \notin Holders /\ Holders' = Holders \cup {t}
    BY <1>5 DEF ObtainWorker, Goto, TaskTypeOK, Holders, Started
  <2>3. Cardinality(Holders') = Cardinality(Holders) + 1
    BY <2>2, TakesToken
  <2>4. QED
    BY <1>5, <2>1, <2>3, HoldersFinite, WorkersPositive
       DEF ObtainWorker, TaskTypeOK, TokensConserved
<1>6. ASSUME NEW t \in Task, DeleteGeneral(t)
      PROVE  TaskTypeOK' /\ Consistent' /\ TokensConserved'
  BY <1>6 DEF DeleteGeneral, TaskTypeOK, Consistent, TokensConserved, Holders, Status, Pending
<1>7. ASSUME NEW t \in Task, ResumeTask(t)
      PROVE  TaskTypeOK' /\ Consistent' /\ TokensConserved'
  <2>1. TaskTypeOK' /\ Consistent'
    BY <1>7 DEF ResumeTask, Goto, TaskTypeOK, Consistent, Pending
  <2>2. Holders' = Holders
    BY <1>7 DEF ResumeTask, Goto, TaskTypeOK, Consistent, Holders, Started
  <2>3. QED
    BY <1>7, <2>1, <2>2 DEF ResumeTask, TokensConserved
<1>8. ASSUME NEW t \in Task, Submit(t)
      PROVE  TaskTypeOK' /\ Consistent' /\ TokensConserved'
  <2>1. TaskTypeOK' /\ Consistent'
    BY <1>8 DEF Submit, Goto, TaskTypeOK, Consistent, Pending
  <2>2. Holders' = Holders
    BY <1>8 DEF Submit, Goto, TaskTypeOK, Holders, Started
  <2>3. QED
    BY <1>8, <2>1, <2>2 DEF Submit, TokensConserved
<1>9. ASSUME NEW t \in Task, BeginJob(t) \/ DoJob(t) \/ EndJob(t) \/ RecoverPanic(t)
      PROVE  TaskTypeOK' /\ Consistent' /\ TokensConserved'
  <2>1. go' = [go EXCEPT ![t] = go'[t]] /\ go[t] \in Started
    BY <1>9 DEF BeginJob, DoJob, EndJob, RecoverPanic, Goto, TaskTypeOK, Started
  <2>2. go'[t] \in {"doing", "finished", "failed", "panicked", "freeing"}
    BY <1>9 DEF BeginJob, DoJob, EndJob, RecoverPanic, Goto, TaskTypeOK
  <2>3. /\ status' \in [Task -> Status]
        /\ \A s \in Task \ {t} : status'[s] = status[s]
        /\ status'[t] # "none"
    BY <1>9, <2>1 DEF BeginJob, DoJob, EndJob, RecoverPanic, SetStatus, TaskTypeOK,
                      Consistent, Status, Started
  <2>4. UNCHANGED <<tokens, phase, resume, crashes>>
    BY <1>9 DEF BeginJob, DoJob, EndJob, RecoverPanic
  <2>5. TaskTypeOK'
    BY <2>1, <2>2, <2>3, <2>4 DEF TaskTypeOK, Started
  <2>6. phase # "down" /\ t \notin resume
    BY <2>1 DEF Consistent, Started
  <2>7. Consistent'
    BY <2>1, <2>2, <2>3, <2>4, <2>6 DEF Consistent, TaskTypeOK, Pending
  <2>8. Holders' = Holders
    BY <2>1, <2>2 DEF Holders, TaskTypeOK, Started
  <2>9. QED
    BY <2>4, <2>5, <2>7, <2>8 DEF TokensConserved
<1>10. ASSUME NEW t \in Task, FatalPanic(t)
       PROVE  TaskTypeOK' /\ Consistent' /\ TokensConserved'
  BY <1>10, <1>d DEF FatalPanic, TaskTypeOK
<1>11. ASSUME NEW t \in Task, FreeWorker(t)
       PROVE  TaskTypeOK' /\ Consistent' /\ TokensConserved'
  <2>1. phase # "down"
    BY <1>11 DEF FreeWorker, Consistent
  <2>2. t \in Holders /\ Holders' = Holders \ {t}
    BY <1>11 DEF FreeWorker, Goto, TaskTypeOK, Holders, Started
  <2>3. Cardinality(Holders') = Cardinality(Holders) - 1 /\ Cardinality(Holders') \in Nat
    BY <2>2, ReturnsToken, HoldersFinite, FS_RemoveElement, FS_CardinalityType
  <2>4. tokens' + Cardinality(Holders') = MaxWorker /\ tokens' \in 0..MaxWorker
    BY <1>11, <2>1, <2>3, HoldersFinite, WorkersPositive
       DEF FreeWorker, TaskTypeOK, TokensConserved
  <2>5. TaskTypeOK' /\ Consistent'
    BY <1>11, <2>4 DEF FreeWorker, Goto, TaskTypeOK, Consistent, Pending, Started
  <2>6. QED
    BY <2>4, <2>5 DEF TokensConserved
<1>12. QED
  BY <1>u, <1>1, <1>2, <1>3, <1>4, <1>5, <1>6, <1>7, <1>8, <1>9, <1>10, <1>11
     DEF TaskNext, JobStep

LEMMA PoolInvariance == TaskSpec => []PoolInv
<1>1. PoolInv /\ [TaskNext]_taskVars => PoolInv'
  BY PoolNext DEF PoolInv
<1>2. QED
  BY PoolInit, <1>1, PTL DEF TaskSpec

(* Rows, goroutines and phases keep their types, and the channel idleWorker *)
(* never holds more tokens than task.Init put into it.                      *)
THEOREM TasksTypeCorrect == TaskSpec => []TaskTypeOK
<1>1. PoolInv => TaskTypeOK
  BY DEF PoolInv
<1>2. QED
  BY <1>1, PoolInvariance, PTL

(* Worker tokens are neither lost nor made (TokensConserved): every way a   *)
(* job can end in GeneralWorker.Do leads to freeWorker.                     *)
THEOREM TokensAreConserved == TaskSpec => []TokensConserved
<1>1. PoolInv => TokensConserved
  BY DEF PoolInv
<1>2. QED
  BY <1>1, PoolInvariance, PTL

-----------------------------------------------------------------------------
(* Every step of the pool is a step of the abstract queue or leaves what it *)
(* sees alone.                                                              *)
LEMMA QueueStep == PoolInv /\ [TaskNext]_taskVars => [Queue!Next]_Queue!vars
<1> SUFFICES ASSUME PoolInv, [TaskNext]_taskVars
             PROVE  [Queue!Next]_Queue!vars
  OBVIOUS
<1> USE DEF PoolInv
<1>s. ASSUME UNCHANGED status, Running' = Running
      PROVE  UNCHANGED Queue!vars
  BY <1>s DEF Queue!vars
<1>u. CASE UNCHANGED taskVars
  BY <1>u, <1>s DEF taskVars, Running
<1>1. CASE BootPool \/ ServeRequests
  BY <1>1, <1>s DEF BootPool, ServeRequests, Running
<1>d. ASSUME GoDown
      PROVE  Queue!Next
  <2>1. Running' = {}
    BY <1>d DEF GoDown, Running
  <2>2. QED
    BY <1>d, <2>1 DEF GoDown, Queue!Next, Queue!Interrupt
<1>3. CASE Crash
  BY <1>3, <1>d DEF Crash
<1>4. ASSUME NEW t \in Task, Record(t)
      PROVE  Queue!Next
  <2>1. Running' = Running
    BY <1>4 DEF Record, Goto, TaskTypeOK, Consistent, Running
  <2>2. Queue!Create(t)
    BY <1>4, <2>1 DEF Record, Queue!Create
  <2>3. QED
    BY <2>2 DEF Queue!Next
<1>5. ASSUME NEW t \in Task, ObtainWorker(t) \/ Submit(t) \/ FreeWorker(t) \/ DoJob(t)
      PROVE  UNCHANGED Queue!vars
  <2>1. Running' = Running
    BY <1>5 DEF ObtainWorker, Submit, FreeWorker, DoJob, Goto, TaskTypeOK, Running
  <2>2. QED
    BY <1>5, <2>1, <1>s DEF ObtainWorker, Submit, FreeWorker, DoJob
<1>6. ASSUME NEW t \in Task, DeleteGeneral(t)
      PROVE  Queue!Next
  <2>1. Queue!Delete(t)
    BY <1>6 DEF DeleteGeneral, Running, Queue!Delete
  <2>2. QED
    BY <2>1 DEF Queue!Next
<1>7. ASSUME NEW t \in Task, ResumeTask(t)
      PROVE  UNCHANGED Queue!vars
  <2>1. Running' = Running
    BY <1>7 DEF ResumeTask, Goto, TaskTypeOK, Consistent, Running
  <2>2. QED
    BY <1>7, <2>1, <1>s DEF ResumeTask
<1>8. ASSUME NEW t \in Task, BeginJob(t)
      PROVE  Queue!Next
  <2>1. phase # "down" /\ status[t] \notin {"none", "error", "complete"}
    BY <1>8 DEF BeginJob, Consistent, Pending
  <2>2. t \notin Running /\ Cardinality(Running) < MaxWorker
    BY <1>8, <2>1, RoomToRun DEF BeginJob
  <2>3. Running' = Running \cup {t}
    BY <1>8 DEF BeginJob, Goto, TaskTypeOK, Running
  <2>4. Queue!Report(t, "processing")
    BY <1>8 DEF BeginJob, SetStatus, Queue!Report
  <2>5. Queue!Cardinality(Running) = Cardinality(Running)
    BY Zenon DEF Queue!Cardinality, Cardinality
  <2>6. status[t] \notin Queue!Ended \cup {"none"}
    BY <2>1 DEF Queue!Ended
  <2>7. Queue!Begin(t)
    BY <2>2, <2>3, <2>4, <2>5, <2>6 DEF Queue!Begin
  <2>8. QED
    BY <2>7 DEF Queue!Next
<1>9. ASSUME NEW t \in Task, EndJob(t) \/ RecoverPanic(t)
      PROVE  Queue!Next \/ UNCHANGED Queue!vars
  <2>1. CASE EndJob(t) /\ t \in Decompress
    <3>1. Running' = Running
      BY <2>1 DEF EndJob, Goto, TaskTypeOK, Running
    <3>2. QED
      BY <2>1, <3>1, <1>s DEF EndJob
  <2>2. CASE t \notin Decompress
    <3>1. t \in Running /\ Running' = Running \ {t}
      BY <1>9, <2>2 DEF EndJob, RecoverPanic, Goto, TaskTypeOK, Running
    <3>2. \E s \in {"error", "complete"} : SetStatus(t, s)
      BY <1>9, <2>2 DEF EndJob, RecoverPanic
    <3>3. \E s \in {"error", "complete"} : Queue!Report(t, s)
      BY <3>2 DEF SetStatus, Queue!Report
    <3>4. Queue!End(t)
      BY <3>1, <3>3 DEF Queue!End, Queue!Ended
    <3>5. QED
      BY <3>4 DEF Queue!Next
  <2>3. QED
    BY <1>9, <2>1, <2>2 DEF RecoverPanic
<1>10. ASSUME NEW t \in Task, FatalPanic(t)
       PROVE  Queue!Next
  BY <1>10, <1>d DEF FatalPanic
<1>11. QED
  BY <1>u, <1>1, <1>3, <1>4, <1>5, <1>6, <1>7, <1>8, <1>9, <1>10 DEF TaskNext, JobStep

(* The task pool implements the abstract queue (QueueSpec): at most         *)
(* MaxWorker jobs at a time, no task twice at the same time, and none whose *)
(* end was recorded, across crashes and Resume.                             *)
THEOREM ImplementsQueue == TaskSpec => QueueSpec
<1>1. TaskInit => Queue!Init
  BY DEF TaskInit, Queue!Init, Running
<1>2. PoolInv /\ [TaskNext]_taskVars => PoolInv'
  BY PoolNext DEF PoolInv
<1>3. QED
  BY PoolInit, <1>1, <1>2, QueueStep, PTL DEF TaskSpec, QueueSpec, Queue!Spec
=============================================================================
