---------------------------- MODULE Shares_proofs ----------------------------
(***************************************************************************)
(* Proofs about the requests of Accounts and Shares.                       *)
(*                                                                         *)
(* All four properties of Shares rest on what is true of the copies that a *)
(* request works on: a copy that is not marked as stale equals what it was *)
(* copied from (Whole below).  An action changes the copies of one request *)
(* and marks those of the others, so that for the others it is enough to   *)
(* know which of the session store, the rows and the policy it touches.    *)
(***************************************************************************)
EXTENDS Shares, FiniteSetTheorems, TLAPS

(* The requests that save their session at one point.                       *)
Savers == {"config", "captcha", "login", "2fa", "signOut", "info"} \cup Charged

(* Those that write a column, or all of them, from their copy of a row.     *)
Writers == {"option", "addKey", "removeKey", "edit"}

(* What holds of the copies of one request.                                 *)
SessionCopy(r) ==
  /\ req[r].op \in Savers => req[r].cookie \in Cookie
  /\ req[r].op \in Savers /\ req[r].pc # "charged" =>
       <<r, "session">> \in stale \/ req[r].sess = session[req[r].cookie]

RowCopy(r) ==
  req[r].of # None =>
    /\ user[req[r].of].status # "absent"
    /\ req[r].op \in Writers =>
         \A col \in Column : <<r, col>> \in stale \/ req[r].row[col] = user[req[r].of][col]

PolicyCopy(r) == At(r, "getPolicy", "save") => <<r, "policy">> \in stale \/ req[r].seen = version

ShareCopy(r) == req[r].pc \in {"available", "unlocked"} => visit[r].remain # 0

Named(r) ==
  /\ At(r, "login", "save") => req[r].me \in User
  /\ req[r].op \in {"edit", "ban", "delete"} /\ req[r].pc = "read" => req[r].of # None

Copies(r) == SessionCopy(r) /\ RowCopy(r) /\ PolicyCopy(r) /\ ShareCopy(r) /\ Named(r)

Whole == \A r \in Request : Copies(r)

-----------------------------------------------------------------------------
(* Setting fields of a session, of a row and of a share.                    *)
LEMMA WithNothing == ASSUME NEW s \in Session PROVE With(s, <<>>) = s
  BY DEF Session, With

LEMMA WithUser ==
  ASSUME NEW s \in Session, NEW u \in User \cup {None, Nobody}
  PROVE  With(s, [user |-> u]) \in Session
  BY DEF Session, With

LEMMA WithTwoFactor ==
  ASSUME NEW s \in Session, NEW u \in User \cup {None}
  PROVE  /\ With(s, [twoFactor |-> u]) = [s EXCEPT !.twoFactor = u]
         /\ With(s, [twoFactor |-> u]) \in Session
  BY DEF Session, With

LEMMA WithCaptcha ==
  ASSUME NEW s \in Session, NEW b \in BOOLEAN
  PROVE  With(s, [captcha |-> b]) = [s EXCEPT !.captcha = b]
  BY DEF Session, With

LEMMA WithUnlocked ==
  ASSUME NEW s \in Session, NEW b \in BOOLEAN
  PROVE  With(s, [unlocked |-> b]) \in Session
  BY DEF Session, With

LEMMA WithCharged ==
  ASSUME NEW s \in Session, NEW b \in BOOLEAN
  PROVE  With(s, [charged |-> b]) \in Session
  BY DEF Session, With

LEMMA RowFields ==
  ASSUME NEW w \in Row
  PROVE  /\ DOMAIN w = Column
         /\ w = [col \in Column |-> w[col]]
  BY DEF Row, Column

LEMMA WithOfRow ==
  ASSUME NEW w \in Row, NEW change
  PROVE  /\ DOMAIN With(w, change) = Column
         /\ \A col \in Column : With(w, change)[col] = IF col \in DOMAIN change THEN change[col] ELSE w[col]
  BY RowFields DEF With

LEMMA WithFactor ==
  ASSUME NEW w \in Row, NEW b \in BOOLEAN
  PROVE  /\ With(w, [twoFactor |-> b]) \in Row
         /\ With(w, [twoFactor |-> b]).status = w.status
  BY DEF Row, With

Statuses == {"absent", "active", "notActivated", "banned", "deleted"}

LEMMA WithStatus ==
  ASSUME NEW w \in Row, NEW s \in Statuses
  PROVE  /\ With(w, [status |-> s]) \in Row
         /\ With(w, [status |-> s]).status = s
  BY DEF Row, With, Statuses

LEMMA WithGroup ==
  ASSUME NEW w \in Row, NEW s \in Statuses, NEW g \in Group
  PROVE  /\ With(w, [status |-> s, group |-> g]) \in Row
         /\ With(w, [status |-> s, group |-> g]).status = s
  BY DEF Row, With, Statuses

LEMMA WithShare ==
  ASSUME NEW s \in ShareRow
  PROVE  /\ With(s, <<>>) = s
         /\ With(s, [state |-> "deleted"]) = [s EXCEPT !.state = "deleted"]
         /\ \A p : With(s, [pass |-> p]) = [s EXCEPT !.pass = p]
         /\ \A p : With(s, [preview |-> p]) = [s EXCEPT !.preview = p]
         /\ \A p : With(s, [remain |-> p]) = [s EXCEPT !.remain = p]
  BY DEF ShareRow, With


-----------------------------------------------------------------------------
(* Requests and marks.                                                      *)
LEMMA EmptyTypes == NoRow \in Row /\ NoSession \in Session /\ Idle \in Req /\ NoShare \in ShareRow
<1>1. NoRow \in Row
  BY GroupsOk, BoundsOk DEF NoRow, Row
<1>2. NoSession \in Session
  BY DEF NoSession, Session
<1>3. 0 \in 0..MaxVersion
  BY BoundsOk
<1>4. Idle \in Req
  BY <1>1, <1>2, <1>3 DEF Idle, Req, Op
<1>5. NoShare \in ShareRow
  BY DEF NoShare, ShareRow
<1> QED
  BY <1>1, <1>2, <1>4, <1>5

LEMMA Becomes ==
  ASSUME req \in [Request -> Req], NEW r \in Request, NEW new \in Req,
         req' = [req EXCEPT ![r] = new]
  PROVE  /\ req' \in [Request -> Req]
         /\ req'[r] = new
         /\ \A q \in Request \ {r} : req'[q] = req[q]
  OBVIOUS

LEMMA Finishes ==
  ASSUME req \in [Request -> Req], NEW r \in Request, Finish(r)
  PROVE  /\ req' \in [Request -> Req]
         /\ req'[r] = Idle
         /\ \A q \in Request \ {r} : req'[q] = req[q]
  BY Becomes, EmptyTypes DEF Finish

Pcs == {"begun", "read", "save", "clean", "available", "unlocked", "charged", "sweep"}

LEMMA Steps ==
  ASSUME req \in [Request -> Req], NEW r \in Request, NEW pc \in Pcs, Step(r, pc)
  PROVE  /\ req' \in [Request -> Req]
         /\ req'[r] = [req[r] EXCEPT !.pc = pc]
         /\ \A q \in Request \ {r} : req'[q] = req[q]
  BY DEF Step, Req, Pcs

Kind == Column \cup {"session", "policy"}

LEMMA OthersDoes ==
  ASSUME stale \subseteq Request \X Kind, NEW r \in Request,
         NEW made, made \subseteq (Request \ {r}) \X Kind, stale' = Others(r, made)
  PROVE  /\ stale' \subseteq Request \X Kind
         /\ made \subseteq stale'
         /\ \A k : <<r, k>> \notin stale'
         /\ \A q \in Request \ {r} : \A k : <<q, k>> \in stale => <<q, k>> \in stale'
  BY DEF Others

LEMMA OthersNone ==
  ASSUME stale \subseteq Request \X Kind, NEW r \in Request, stale' = Others(r, {})
  PROVE  /\ stale' \subseteq Request \X Kind
         /\ \A k : <<r, k>> \notin stale'
         /\ \A q \in Request \ {r} : \A k : <<q, k>> \in stale => <<q, k>> \in stale'
  BY OthersDoes

LEMMA HoldersAre ==
  ASSUME NEW r \in Request, NEW c
  PROVE  /\ Holders(r, c) \subseteq (Request \ {r}) \X Kind
         /\ \A q \in Request \ {r} : req[q].cookie = c => <<q, "session">> \in Holders(r, c)
  BY DEF Holders, Kind

LEMMA RowHoldersAre ==
  ASSUME NEW r \in Request, NEW u, NEW cols \in SUBSET Column
  PROVE  /\ RowHolders(r, u, cols) \subseteq (Request \ {r}) \X Kind
         /\ \A q \in Request \ {r}, col \in cols : req[q].of = u => <<q, col>> \in RowHolders(r, u, cols)
  BY DEF RowHolders, Kind

-----------------------------------------------------------------------------
(* What a step of r leaves to the others: their copies, and a mark on each  *)
(* copy whose original it changes.                                          *)
Frame(r) ==
  /\ req' \in [Request -> Req] /\ visit' \in [Request -> ShareRow]
  /\ stale' \subseteq Request \X Kind
  /\ \A q \in Request \ {r} :
       /\ req'[q] = req[q]
       /\ req[q] # Idle => visit'[q] = visit[q]
       /\ \A k : <<q, k>> \in stale => <<q, k>> \in stale'

Marks(r) ==
  /\ \A c \in Cookie : \/ session'[c] = session[c]
                       \/ \A q \in Request \ {r} : req[q].cookie = c => <<q, "session">> \in stale'
  /\ \A u \in User : user[u].status # "absent" =>
       /\ user'[u].status # "absent"
       /\ \A col \in Column : \/ user'[u][col] = user[u][col]
                              \/ \A q \in Request \ {r} : req[q].of = u => <<q, col>> \in stale'
  /\ \/ version' = version
     \/ \A q \in Request \ {r} : At(q, "getPolicy", "save") => <<q, "policy">> \in stale'

LEMMA OthersKeep ==
  ASSUME TypeOK, NEW r \in Request, Frame(r), Marks(r), NEW q \in Request \ {r}, Copies(q)
  PROVE  Copies(q)'
<1>1. req'[q] = req[q] /\ req[q] \in Req
  BY DEF Frame, TypeOK, AccountsTypeOK
<1>2. SessionCopy(q)'
  <2>1. CASE req[q].op \in Savers
    BY <1>1, <2>1 DEF SessionCopy, Copies, Frame, Marks
  <2>2. CASE req[q].op \notin Savers
    BY <1>1, <2>2 DEF SessionCopy
  <2> QED BY <2>1, <2>2
<1>3. RowCopy(q)'
  <2>1. CASE req[q].of = None
    BY <1>1, <2>1 DEF RowCopy
  <2>2. CASE req[q].of # None
    <3> DEFINE u == req[q].of
    <3>1. u \in User
      BY <1>1, <2>2 DEF Req
    <3>2. user[u].status # "absent"
      BY <2>2 DEF Copies, RowCopy
    <3>3. /\ user'[u].status # "absent"
          /\ \A col \in Column : user'[u][col] = user[u][col] \/ <<q, col>> \in stale'
      BY <3>1, <3>2 DEF Marks
    <3>4. req[q].op \in Writers => \A col \in Column : <<q, col>> \in stale \/ req[q].row[col] = user[u][col]
      BY <2>2 DEF Copies, RowCopy
    <3>5. \A col \in Column : <<q, col>> \in stale => <<q, col>> \in stale'
      BY DEF Frame
    <3> QED BY <1>1, <3>3, <3>4, <3>5 DEF RowCopy
  <2> QED BY <2>1, <2>2
<1>4. PolicyCopy(q)'
  BY <1>1 DEF PolicyCopy, Copies, Frame, Marks, At
<1>5. ShareCopy(q)'
  <2>1. CASE req[q].pc \in {"available", "unlocked"}
    <3>1. req[q] # Idle
      BY <2>1 DEF Idle
    <3> QED BY <1>1, <3>1 DEF ShareCopy, Copies, Frame
  <2>2. CASE req[q].pc \notin {"available", "unlocked"}
    BY <1>1, <2>2 DEF ShareCopy
  <2> QED BY <2>1, <2>2
<1>6. Named(q)'
  BY <1>1 DEF Named, Copies, At
<1> QED
  BY <1>2, <1>3, <1>4, <1>5, <1>6 DEF Copies

LEMMA IdleCopies ==
  ASSUME NEW r \in Request, req'[r] = Idle
  PROVE  Copies(r)'
  BY DEF Copies, SessionCopy, RowCopy, PolicyCopy, ShareCopy, Named, At, Idle, Savers, Charged

LEMMA WholeKept ==
  ASSUME TypeOK, Whole, NEW r \in Request, Frame(r), Marks(r), Copies(r)'
  PROVE  Whole'
  BY OthersKeep DEF Whole

-----------------------------------------------------------------------------
(* The invariant, by what it is about.                                      *)
SessionsTrue ==
  /\ {session, askedSession} \subseteq [Cookie -> Session]
  /\ \A c \in Cookie : session[c] # askedSession[c] => <<c, "session">> \in lost

RowsTrue ==
  /\ {user, askedUser} \subseteq [User -> Row]
  /\ \A u \in User : \A col \in Column :
       user[u][col] # askedUser[u][col] => <<u, col>> \in lost /\ col \notin {"status", "group"}

PoliciesTrue ==
  /\ version \in 0..MaxVersion /\ cached \in SUBSET (0..MaxVersion) /\ Cardinality(cached) <= 1
  /\ PolicyFresh

ShareTrue ==
  /\ {share, askedShare} \subseteq ShareRow
  /\ share.state = askedShare.state /\ share.pass = askedShare.pass
  /\ share.preview = askedShare.preview /\ share.expired = askedShare.expired
  /\ source \in BOOLEAN /\ memory \subseteq User /\ charges \in Nat
  /\ link \in {"none", "live", "gone"} /\ served \in Nat

Ledger == (Cookie \X {"session"}) \cup (User \X Column) \cup {<<None, "policy">>}

RestTrue == load \in Loads /\ groups \subseteq Group /\ lost \subseteq Ledger

Requests == req \in [Request -> Req] /\ visit \in [Request -> ShareRow] /\ stale \subseteq Request \X Kind

Inv == SessionsTrue /\ RowsTrue /\ PoliciesTrue /\ ShareTrue /\ RestTrue /\ Requests /\ Whole

LEMMA InvMeans == Inv => TypeOK /\ UpdatesKept /\ PolicyFresh
  BY DEF Inv, SessionsTrue, RowsTrue, PoliciesTrue, ShareTrue, RestTrue, Requests, Ledger, Kind, TypeOK,
         AccountsTypeOK, UpdatesKept, AccountUpdatesKept

(* A step of r that keeps it.                                               *)
Kept(r) == SessionsTrue' /\ RowsTrue' /\ PoliciesTrue' /\ ShareTrue' /\ RestTrue' /\ Frame(r) /\ Marks(r)
           /\ Copies(r)'

LEMMA KeptKeeps == ASSUME Inv, NEW r \in Request, Kept(r) PROVE Inv'
<1>1. Requests'
  BY DEF Kept, Frame, Requests
<1>2. Whole'
  BY InvMeans, WholeKept DEF Kept, Inv
<1> QED
  BY <1>1, <1>2 DEF Kept, Inv

-----------------------------------------------------------------------------
(* What a step leaves alone.                                                *)
LEMMA SameSessions ==
  ASSUME SessionsTrue, UNCHANGED sessions, \A c \in Cookie : <<c, "session">> \in lost => <<c, "session">> \in lost'
  PROVE  SessionsTrue'
  BY DEF SessionsTrue, sessions

LEMMA SameRows ==
  ASSUME RowsTrue, UNCHANGED rows,
         \A u \in User, col \in Column : <<u, col>> \in lost => <<u, col>> \in lost'
  PROVE  RowsTrue'
  BY DEF RowsTrue, rows

LEMMA SamePolicies ==
  ASSUME PoliciesTrue, UNCHANGED policies, <<None, "policy">> \in lost => <<None, "policy">> \in lost',
         NEW r \in Request, req[r].pc # "clean", \A q \in Request \ {r} : req'[q] = req[q]
  PROVE  PoliciesTrue'
  BY DEF PoliciesTrue, policies, PolicyFresh

LEMMA SameShare ==
  ASSUME ShareTrue, UNCHANGED <<shareRows, source, memory, charges, link, served>>
  PROVE  ShareTrue'
  BY DEF ShareTrue, shareRows

(* A step of r that touches nothing but its own copies.                     *)
Quiet == UNCHANGED <<load, rows, groups, sessions, policies, lost, shareRows, source, memory, charges,
                     link, served>>

LEMMA QuietKept ==
  ASSUME Inv, NEW r \in Request, req[r].pc # "clean", Quiet, Frame(r), Copies(r)'
  PROVE  Kept(r)
<1>1. UNCHANGED sessions /\ UNCHANGED rows /\ UNCHANGED policies /\ lost' = lost
      /\ UNCHANGED <<shareRows, source, memory, charges, link, served>>
  BY DEF Quiet
<1>2. SessionsTrue' /\ RowsTrue'
  BY <1>1, SameSessions, SameRows DEF Inv
<1>3. PoliciesTrue'
  BY <1>1, SamePolicies DEF Inv, Frame
<1>4. ShareTrue'
  BY <1>1, SameShare DEF Inv
<1>5. RestTrue'
  BY DEF Inv, RestTrue, Quiet
<1>6. Marks(r)
  BY <1>1 DEF Marks, sessions, rows, policies
<1> QED
  BY <1>2, <1>3, <1>4, <1>5, <1>6 DEF Kept

(* What a step of Accounts leaves to Shares.                                *)
NoShareStep ==
  /\ UNCHANGED <<shareRows, source, memory, charges, link, served>>
  /\ visit' = [r \in Request |-> IF req'[r] = Idle THEN NoShare ELSE visit[r]]

LEMMA AccountFrame ==
  ASSUME Inv, NoShareStep, NEW r \in Request,
         req' \in [Request -> Req], \A q \in Request \ {r} : req'[q] = req[q],
         stale' \subseteq Request \X Kind,
         \A q \in Request \ {r} : \A k : <<q, k>> \in stale => <<q, k>> \in stale'
  PROVE  Frame(r) /\ ShareTrue'
<1>1. visit' \in [Request -> ShareRow]
  BY EmptyTypes DEF NoShareStep, Inv, Requests
<1>2. \A q \in Request \ {r} : req[q] # Idle => visit'[q] = visit[q]
  BY DEF NoShareStep, Inv, Requests
<1>3. ShareTrue'
  BY SameShare DEF NoShareStep, Inv
<1> QED
  BY <1>1, <1>2, <1>3 DEF Frame

-----------------------------------------------------------------------------
(* Requests begin, are refused, or only look at something.                  *)
LEMMA CurrentUserIs ==
  ASSUME Inv, NEW c \in Cookie
  PROVE  /\ CurrentUser(c) \in User \cup {None, Nobody}
         /\ CurrentUser(c) \in User => user[CurrentUser(c)] \in Row /\ user[CurrentUser(c)].status = "active"
  BY UsersOk DEF CurrentUser, GetActivateUserByID, Inv, RowsTrue

LEMMA BeginDoes ==
  ASSUME Inv, NoShareStep, NEW r \in Request, NEW c \in load.cookies, NEW op \in load.ops \ Internal,
         Begin(r, c, op)
  PROVE  Kept(r)
<1> DEFINE me == CurrentUser(c)
           new == [Idle EXCEPT !.op = op, !.cookie = c, !.sess = session[c], !.me = me,
                               !.of = IF op \in Admins \/ me = Nobody THEN None ELSE me,
                               !.row = IF me \in User THEN user[me] ELSE NoRow]
<1>1. c \in Cookie /\ op \in Op
  BY LoadsOk DEF Inv, RestTrue
<1>2. req' = [req EXCEPT ![r] = new] /\ req[r] = Idle
  BY DEF Begin
<1>3. /\ me \in User \cup {None, Nobody}
      /\ me \in User => user[me] \in Row /\ user[me].status = "active"
  BY <1>1, CurrentUserIs
<1> HIDE DEF me
<1>4. /\ new \in Req
      /\ new.op = op /\ new.pc = "begun" /\ new.cookie = c /\ new.sess = session[c]
      /\ new.of # None => new.of \in User /\ new.of = me /\ new.row = user[me]
  <2>1. session[c] \in Session
    BY <1>1 DEF Inv, SessionsTrue
  <2> QED
    BY <1>1, <1>3, <2>1, EmptyTypes, UsersOk DEF Req, Idle
<1> HIDE DEF new
<1>5. /\ req' \in [Request -> Req] /\ req'[r] = new
      /\ \A q \in Request \ {r} : req'[q] = req[q]
  BY <1>2, <1>4, Becomes DEF Inv, Requests
<1>6. /\ stale' \subseteq Request \X Kind
      /\ \A q \in Request \ {r} : \A k : <<q, k>> \in stale => <<q, k>> \in stale'
  BY OthersNone DEF Begin, Inv, Requests
<1>7. Frame(r)
  BY <1>5, <1>6, AccountFrame
<1>8. Quiet
  BY DEF Begin, NoShareStep, Quiet
<1>9. Copies(r)'
  <2>1. SessionCopy(r)'
    BY <1>1, <1>4, <1>5, <1>8 DEF SessionCopy, Quiet, sessions
  <2>2. RowCopy(r)'
    BY <1>3, <1>4, <1>5, <1>8 DEF RowCopy, Quiet, rows
  <2>3. PolicyCopy(r)' /\ ShareCopy(r)' /\ Named(r)'
    BY <1>4, <1>5 DEF PolicyCopy, ShareCopy, Named, At
  <2> QED
    BY <2>1, <2>2, <2>3 DEF Copies
<1>10. req[r].pc # "clean"
  BY <1>2 DEF Idle
<1> QED
  BY <1>7, <1>8, <1>9, <1>10, QuietKept

LEMMA BeginInternalDoes ==
  ASSUME Inv, NoShareStep, NEW r \in Request, NEW op \in load.ops \cap Internal, BeginInternal(r, op)
  PROVE  Kept(r)
<1> DEFINE new == [Idle EXCEPT !.op = op]
<1>1. op \in Op /\ op \notin Savers
  BY LoadsOk DEF Inv, RestTrue, Op, Internal, Savers, Charged
<1>2. req' = [req EXCEPT ![r] = new] /\ req[r] = Idle
  BY DEF BeginInternal
<1>3. new \in Req /\ new.op = op /\ new.pc = "begun" /\ new.of = None
  BY <1>1, EmptyTypes DEF Req, Idle
<1> HIDE DEF new
<1>4. /\ req' \in [Request -> Req] /\ req'[r] = new
      /\ \A q \in Request \ {r} : req'[q] = req[q]
  BY <1>2, <1>3, Becomes DEF Inv, Requests
<1>5. /\ stale' \subseteq Request \X Kind
      /\ \A q \in Request \ {r} : \A k : <<q, k>> \in stale => <<q, k>> \in stale'
  BY OthersNone DEF BeginInternal, Inv, Requests
<1>6. Frame(r)
  BY <1>4, <1>5, AccountFrame
<1>7. Quiet
  BY DEF BeginInternal, NoShareStep, Quiet
<1>8. Copies(r)'
  BY <1>1, <1>3, <1>4 DEF Copies, SessionCopy, RowCopy, PolicyCopy, ShareCopy, Named, At
<1>9. req[r].pc # "clean"
  BY <1>2 DEF Idle
<1> QED
  BY <1>6, <1>7, <1>8, <1>9, QuietKept

(* A step that ends r without a trace.                                      *)
LEMMA EndDoes ==
  ASSUME Inv, NoShareStep, NEW r \in Request, Finish(r), stale' = Others(r, {})
  PROVE  Frame(r) /\ Copies(r)'
<1>1. /\ req' \in [Request -> Req] /\ req'[r] = Idle
      /\ \A q \in Request \ {r} : req'[q] = req[q]
  BY Finishes DEF Inv, Requests
<1>2. /\ stale' \subseteq Request \X Kind
      /\ \A q \in Request \ {r} : \A k : <<q, k>> \in stale => <<q, k>> \in stale'
  BY OthersNone DEF Inv, Requests
<1> QED
  BY <1>1, <1>2, AccountFrame, IdleCopies

LEMMA RefuseDoes ==
  ASSUME Inv, NoShareStep, NEW r \in Request, Refuse(r)
  PROVE  Kept(r)
<1>1. Frame(r) /\ Copies(r)'
  BY EndDoes DEF Refuse
<1>2. Quiet /\ req[r].pc # "clean"
  BY DEF Refuse, NoShareStep, Quiet
<1> QED
  BY <1>1, <1>2, QuietKept

LEMMA LoginDoes ==
  ASSUME Inv, NoShareStep, NEW r \in Request, NEW u \in User, Login(r, u)
  PROVE  Kept(r)
<1> DEFINE new == [req[r] EXCEPT !.pc = "save", !.me = u, !.row = user[u]]
<1>1. req' = [req EXCEPT ![r] = new]
  BY Zenon DEF Login
<1>2. /\ new \in Req /\ new.op = "login" /\ new.pc = "save" /\ new.me = u
      /\ new.cookie = req[r].cookie /\ new.sess = req[r].sess /\ new.of = req[r].of
  BY DEF Login, At, Req, Inv, Requests, RowsTrue
<1> HIDE DEF new
<1>3. /\ req' \in [Request -> Req] /\ req'[r] = new
      /\ \A q \in Request \ {r} : req'[q] = req[q]
  BY <1>1, <1>2, Becomes DEF Inv, Requests
<1>4. stale' = stale
  BY DEF Login
<1>5. Frame(r)
  BY <1>3, <1>4, AccountFrame DEF Inv, Requests
<1>6. Quiet
  BY DEF Login, NoShareStep, Quiet
<1>7. req[r].op = "login" /\ req[r].pc \notin {"clean", "charged"}
  BY DEF Login, At
<1>8. Copies(r)'
  <2>1. SessionCopy(r) /\ RowCopy(r)
    BY DEF Inv, Whole, Copies
  <2>2. SessionCopy(r)'
    BY <1>2, <1>3, <1>4, <1>6, <1>7, <2>1 DEF SessionCopy, Quiet, sessions
  <2>3. RowCopy(r)'
    BY <1>2, <1>3, <1>6, <2>1 DEF RowCopy, Quiet, rows, Writers
  <2>4. PolicyCopy(r)' /\ ShareCopy(r)' /\ Named(r)'
    BY <1>2, <1>3 DEF PolicyCopy, ShareCopy, Named, At
  <2> QED
    BY <2>2, <2>3, <2>4 DEF Copies
<1> QED
  BY <1>5, <1>6, <1>7, <1>8, QuietKept

LEMMA ReadUserDoes ==
  ASSUME Inv, NoShareStep, NEW r \in Request, NEW u \in User, ReadUser(r, u)
  PROVE  Kept(r)
<1> DEFINE new == [req[r] EXCEPT !.pc = "read", !.of = u, !.row = user[u]]
<1>1. req' = [req EXCEPT ![r] = new]
  BY Zenon DEF ReadUser
<1>2. new \in Req /\ new.op = req[r].op /\ new.pc = "read" /\ new.of = u /\ new.row = user[u]
  BY DEF Req, Inv, Requests, RowsTrue
<1> HIDE DEF new
<1>3. /\ req' \in [Request -> Req] /\ req'[r] = new
      /\ \A q \in Request \ {r} : req'[q] = req[q]
  BY <1>1, <1>2, Becomes DEF Inv, Requests
<1>4. /\ stale' \subseteq Request \X Kind
      /\ \A q \in Request \ {r} : \A k : <<q, k>> \in stale => <<q, k>> \in stale'
  BY OthersNone DEF ReadUser, Inv, Requests
<1>5. Frame(r)
  BY <1>3, <1>4, AccountFrame
<1>6. Quiet
  BY DEF ReadUser, NoShareStep, Quiet
<1>7. req[r].op \in {"edit", "ban", "delete"} /\ req[r].pc = "begun"
  BY DEF ReadUser
<1>8. Copies(r)'
  <2>1. SessionCopy(r)'
    BY <1>2, <1>3, <1>7 DEF SessionCopy, Savers, Charged
  <2>2. user[u].status # "absent"
    BY DEF ReadUser, Exists
  <2>3. RowCopy(r)'
    BY <1>2, <1>3, <1>6, <2>2 DEF RowCopy, Quiet, rows
  <2>4. PolicyCopy(r)' /\ ShareCopy(r)' /\ Named(r)'
    BY <1>2, <1>3, UsersOk DEF PolicyCopy, ShareCopy, Named, At
  <2> QED
    BY <2>1, <2>3, <2>4 DEF Copies
<1> QED
  BY <1>5, <1>6, <1>7, <1>8, QuietKept

LEMMA CountUsersDoes ==
  ASSUME Inv, NoShareStep, NEW r \in Request, NEW g \in Group, CountUsers(r, g)
  PROVE  Kept(r)
<1> DEFINE new == [req[r] EXCEPT !.pc = "read", !.row.group = g]
<1>1. req' = [req EXCEPT ![r] = new]
  BY Zenon DEF CountUsers
<1>2. new \in Req /\ new.op = "deleteGroup" /\ new.pc = "read" /\ new.of = req[r].of
  <2>1. req[r] \in Req /\ req[r].row \in Row /\ req[r].op = "deleteGroup"
    BY DEF Inv, Requests, Req, CountUsers, At
  <2>2. [req[r].row EXCEPT !.group = g] \in Row
    BY <2>1 DEF Row
  <2>3. new = [[req[r] EXCEPT !.pc = "read"] EXCEPT !.row = [req[r].row EXCEPT !.group = g]]
    BY <2>1 DEF Req
  <2> QED
    BY <2>1, <2>2, <2>3 DEF Req
<1> HIDE DEF new
<1>3. /\ req' \in [Request -> Req] /\ req'[r] = new
      /\ \A q \in Request \ {r} : req'[q] = req[q]
  BY <1>1, <1>2, Becomes DEF Inv, Requests
<1>4. /\ stale' \subseteq Request \X Kind
      /\ \A q \in Request \ {r} : \A k : <<q, k>> \in stale => <<q, k>> \in stale'
  BY OthersNone DEF CountUsers, Inv, Requests
<1>5. Frame(r)
  BY <1>3, <1>4, AccountFrame
<1>6. Quiet
  BY DEF CountUsers, NoShareStep, Quiet
<1>7. req[r].pc = "begun"
  BY DEF CountUsers, At
<1>8. RowCopy(r)
  BY DEF Inv, Whole, Copies
<1>9. Copies(r)'
  BY <1>2, <1>3, <1>6, <1>8 DEF Copies, SessionCopy, RowCopy, PolicyCopy, ShareCopy, Named, At, Savers,
     Charged, Writers, Quiet, rows
<1> QED
  BY <1>5, <1>6, <1>7, <1>9, QuietKept

LEMMA DeleteGroupDoes ==
  ASSUME Inv, NoShareStep, NEW r \in Request, DeleteGroup(r)
  PROVE  Kept(r)
<1>1. Frame(r) /\ Copies(r)'
  BY EndDoes DEF DeleteGroup
<1>2. UNCHANGED <<load, rows, sessions, policies, lost>> /\ req[r].pc = "read" /\ groups' \subseteq groups
  BY DEF DeleteGroup, At
<1>3. SessionsTrue' /\ RowsTrue'
  BY <1>2, SameSessions, SameRows DEF Inv
<1>4. PoliciesTrue'
  BY <1>1, <1>2, SamePolicies DEF Inv, Frame
<1>5. ShareTrue'
  BY SameShare DEF NoShareStep, Inv
<1>6. RestTrue' /\ Marks(r)
  BY <1>2 DEF Inv, RestTrue, Marks, sessions, rows, policies
<1> QED
  BY <1>1, <1>3, <1>4, <1>5, <1>6 DEF Kept

LEMMA GetPolicyByIDDoes ==
  ASSUME Inv, NoShareStep, NEW r \in Request, GetPolicyByID(r)
  PROVE  Kept(r)
<1>1. Quiet /\ req[r].pc = "begun" /\ req[r].op = "getPolicy" /\ stale' = Others(r, {})
  BY DEF GetPolicyByID, NoShareStep, Quiet, At
<1>2. CASE cached # {}
  <2>1. Frame(r) /\ Copies(r)'
    BY <1>1, <1>2, EndDoes DEF GetPolicyByID
  <2> QED
    BY <1>1, <2>1, QuietKept
<1>3. CASE cached = {}
  <2> DEFINE new == [req[r] EXCEPT !.pc = "save", !.seen = version]
  <2>1. req' = [req EXCEPT ![r] = new]
    BY <1>3, Zenon DEF GetPolicyByID
  <2>2. new \in Req /\ new.op = "getPolicy" /\ new.pc = "save" /\ new.of = req[r].of /\ new.seen = version
    BY <1>1 DEF Inv, Requests, PoliciesTrue, Req
  <2> HIDE DEF new
  <2>3. /\ req' \in [Request -> Req] /\ req'[r] = new
        /\ \A q \in Request \ {r} : req'[q] = req[q]
    BY <2>1, <2>2, Becomes DEF Inv, Requests
  <2>4. /\ stale' \subseteq Request \X Kind
        /\ \A q \in Request \ {r} : \A k : <<q, k>> \in stale => <<q, k>> \in stale'
    BY <1>1, OthersNone DEF Inv, Requests
  <2>5. Frame(r)
    BY <2>3, <2>4, AccountFrame
  <2>6. RowCopy(r)
    BY DEF Inv, Whole, Copies
  <2>7. Copies(r)'
    BY <1>1, <2>2, <2>3, <2>6 DEF Copies, SessionCopy, RowCopy, PolicyCopy, ShareCopy, Named, At, Savers,
       Charged, Writers, Quiet, rows, policies
  <2> QED
    BY <1>1, <2>5, <2>7, QuietKept
<1> QED
  BY <1>2, <1>3

-----------------------------------------------------------------------------
(* Steps that save the session: what was overwritten from an older copy is  *)
(* in lost.                                                                 *)
SavesSession(r) ==
  /\ SessionsTrue' /\ lost' \subseteq Ledger /\ lost \subseteq lost'
  /\ \A c \in Cookie : \/ session'[c] = session[c]
                       \/ \A q \in Request \ {r} : req[q].cookie = c => <<q, "session">> \in stale'
  /\ stale' \subseteq Request \X Kind
  /\ \A k : <<r, k>> \notin stale'
  /\ \A q \in Request \ {r} : \A k : <<q, k>> \in stale => <<q, k>> \in stale'

LEMMA SaveSessionDoes ==
  ASSUME Inv, NEW r \in Request, NEW change, SaveSession(r, change),
         req[r].op \in Savers, req[r].pc # "charged",
         \A s \in Session : With(s, change) \in Session
  PROVE  /\ SavesSession(r)
         /\ req[r].cookie \in Cookie /\ session'[req[r].cookie] = With(req[r].sess, change)
<1> DEFINE c == req[r].cookie
<1>1. c \in Cookie /\ (<<r, "session">> \in stale \/ req[r].sess = session[c]) /\ req[r].sess \in Session
  BY DEF Inv, Whole, Copies, SessionCopy, Requests, Req
<1>2. /\ session' = [session EXCEPT ![c] = With(req[r].sess, change)]
      /\ askedSession' = [askedSession EXCEPT ![c] = With(askedSession[c], change)]
      /\ lost' = IF <<r, "session">> \in stale THEN lost \cup {<<c, "session">>} ELSE lost
      /\ stale' = Others(r, Holders(r, c))
  BY DEF SaveSession
<1> HIDE DEF c
<1>3. lost' \subseteq Ledger /\ lost \subseteq lost'
  BY <1>1, <1>2 DEF Inv, RestTrue, Ledger
<1>4. /\ session' \in [Cookie -> Session] /\ askedSession' \in [Cookie -> Session]
      /\ \A d \in Cookie \ {c} : session'[d] = session[d] /\ askedSession'[d] = askedSession[d]
      /\ session'[c] = With(req[r].sess, change) /\ askedSession'[c] = With(askedSession[c], change)
  BY <1>1, <1>2 DEF Inv, SessionsTrue
<1>5. SessionsTrue'
  <2>1. ASSUME NEW d \in Cookie, session'[d] # askedSession'[d]
        PROVE  <<d, "session">> \in lost'
    <3>1. CASE d # c
      BY <1>3, <1>4, <2>1, <3>1 DEF Inv, SessionsTrue
    <3>2. CASE d = c
      <4>1. CASE <<r, "session">> \in stale
        BY <1>2, <3>2, <4>1
      <4>2. CASE <<r, "session">> \notin stale
        BY <1>1, <1>3, <1>4, <2>1, <3>2, <4>2 DEF Inv, SessionsTrue
      <4> QED BY <4>1, <4>2
    <3> QED BY <3>1, <3>2
  <2> QED
    BY <1>4, <2>1 DEF SessionsTrue
<1>6. /\ Holders(r, c) \subseteq (Request \ {r}) \X Kind
      /\ \A q \in Request \ {r} : req[q].cookie = c => <<q, "session">> \in Holders(r, c)
  BY HoldersAre
<1>7. /\ stale' \subseteq Request \X Kind
      /\ Holders(r, c) \subseteq stale'
      /\ \A k : <<r, k>> \notin stale'
      /\ \A q \in Request \ {r} : \A k : <<q, k>> \in stale => <<q, k>> \in stale'
  BY <1>2, <1>6, OthersDoes DEF Inv, Requests
<1>8. \A d \in Cookie : \/ session'[d] = session[d]
                        \/ \A q \in Request \ {r} : req[q].cookie = d => <<q, "session">> \in stale'
  BY <1>4, <1>6, <1>7
<1> QED
  BY <1>1, <1>3, <1>4, <1>5, <1>7, <1>8 DEF SavesSession, c

(* The rest of such a step.                                                 *)
LEMMA SavedKept ==
  ASSUME Inv, NEW r \in Request, SavesSession(r), req[r].pc # "clean", UNCHANGED <<load, rows, groups, policies>>,
         ShareTrue', Frame(r), Copies(r)'
  PROVE  Kept(r)
<1>1. lost \subseteq lost' /\ SessionsTrue' /\ UNCHANGED rows /\ UNCHANGED policies
  BY DEF SavesSession
<1>2. RowsTrue'
  BY <1>1, SameRows DEF Inv
<1>3. PoliciesTrue'
  BY <1>1, SamePolicies DEF Inv, Frame
<1>4. RestTrue'
  BY DEF Inv, RestTrue, SavesSession
<1>5. Marks(r)
  BY <1>1 DEF Marks, SavesSession, rows, policies
<1> QED
  BY <1>1, <1>2, <1>3, <1>4, <1>5 DEF Kept

LEMMA SavedAndFinished ==
  ASSUME Inv, NoShareStep, NEW r \in Request, SavesSession(r), req[r].pc # "clean",
         UNCHANGED <<load, rows, groups, policies>>, Finish(r)
  PROVE  Kept(r)
<1>1. /\ req' \in [Request -> Req] /\ req'[r] = Idle
      /\ \A q \in Request \ {r} : req'[q] = req[q]
  BY Finishes DEF Inv, Requests
<1>2. Frame(r) /\ ShareTrue'
  BY <1>1, AccountFrame DEF SavesSession
<1> QED
  BY <1>1, <1>2, IdleCopies, SavedKept

LEMMA CSRFInitDoes ==
  ASSUME Inv, NoShareStep, NEW r \in Request, CSRFInit(r)
  PROVE  Kept(r)
<1>1. req[r].op = "config" /\ req[r].pc = "begun"
  BY DEF CSRFInit, At
<1>2. SavesSession(r)
  BY <1>1, WithNothing, SaveSessionDoes DEF CSRFInit, Savers
<1> QED
  BY <1>1, <1>2, SavedAndFinished DEF CSRFInit

LEMMA GetCaptchaDoes ==
  ASSUME Inv, NoShareStep, NEW r \in Request, GetCaptcha(r)
  PROVE  Kept(r)
<1>1. req[r].op = "captcha" /\ req[r].pc = "begun"
  BY DEF GetCaptcha, At
<1>2. \A s \in Session : With(s, [captcha |-> TRUE]) \in Session
  BY WithCaptcha DEF Session
<1>3. SavesSession(r)
  BY <1>1, <1>2, SaveSessionDoes DEF GetCaptcha, Savers
<1> QED
  BY <1>1, <1>3, SavedAndFinished DEF GetCaptcha

LEMMA CaptchaRequiredDoes ==
  ASSUME Inv, NoShareStep, NEW r \in Request, CaptchaRequired(r)
  PROVE  Kept(r)
<1>1. req[r].op = "login" /\ req[r].pc = "begun"
  BY DEF CaptchaRequired, At
<1>2. \A s \in Session : With(s, [captcha |-> FALSE]) \in Session
  BY WithCaptcha DEF Session
<1>3. /\ SavesSession(r)
      /\ req[r].cookie \in Cookie /\ session'[req[r].cookie] = With(req[r].sess, [captcha |-> FALSE])
  BY <1>1, <1>2, SaveSessionDoes DEF CaptchaRequired, Savers
<1>4. CASE ~req[r].sess.captcha
  <2>1. Finish(r)
    BY <1>4 DEF CaptchaRequired, Finish
  <2> QED
    BY <1>1, <1>3, <2>1, SavedAndFinished DEF CaptchaRequired
<1>5. CASE req[r].sess.captcha
  <2> DEFINE new == [req[r] EXCEPT !.pc = "read", !.sess.captcha = FALSE]
  <2>1. req' = [req EXCEPT ![r] = new]
    BY <1>5, Zenon DEF CaptchaRequired
  <2>2. req[r] \in Req /\ req[r].sess \in Session
    BY DEF Inv, Requests, Req
  <2>3. /\ [req[r].sess EXCEPT !.captcha = FALSE] = With(req[r].sess, [captcha |-> FALSE])
        /\ [req[r].sess EXCEPT !.captcha = FALSE] \in Session
    BY <1>2, <2>2, WithCaptcha
  <2>4. new = [[req[r] EXCEPT !.pc = "read"] EXCEPT !.sess = [req[r].sess EXCEPT !.captcha = FALSE]]
    BY <2>2 DEF Req
  <2>5. /\ new \in Req /\ new.op = "login" /\ new.pc = "read" /\ new.of = req[r].of
        /\ new.cookie = req[r].cookie /\ new.sess = session'[req[r].cookie]
    BY <1>1, <1>3, <2>2, <2>3, <2>4 DEF Req
  <2> HIDE DEF new
  <2>6. /\ req' \in [Request -> Req] /\ req'[r] = new
        /\ \A q \in Request \ {r} : req'[q] = req[q]
    BY <2>1, <2>5, Becomes DEF Inv, Requests
  <2>7. Frame(r) /\ ShareTrue'
    BY <1>3, <2>6, AccountFrame DEF SavesSession
  <2>8. RowCopy(r) /\ UNCHANGED rows
    BY DEF Inv, Whole, Copies, CaptchaRequired
  <2>9. Copies(r)'
    BY <1>3, <2>5, <2>6, <2>8 DEF Copies, SessionCopy, RowCopy, PolicyCopy, ShareCopy, Named, At, Writers, rows
  <2> QED
    BY <1>1, <1>3, <2>7, <2>9, SavedKept DEF CaptchaRequired
<1> QED
  BY <1>4, <1>5

LEMMA LoginSessionDoes ==
  ASSUME Inv, NoShareStep, NEW r \in Request, LoginSession(r)
  PROVE  Kept(r)
<1>1. req[r].op = "login" /\ req[r].pc = "save" /\ req[r].me \in User
  BY DEF LoginSession, At, Inv, Whole, Copies, Named
<1>2. /\ \A s \in Session : With(s, [twoFactor |-> req[r].me]) \in Session
      /\ \A s \in Session : With(s, [user |-> req[r].me]) \in Session
  BY <1>1, WithTwoFactor, WithUser
<1>3. SavesSession(r)
  <2>1. CASE req[r].row.twoFactor
    BY <1>1, <1>2, <2>1, SaveSessionDoes DEF LoginSession, Savers
  <2>2. CASE ~req[r].row.twoFactor
    BY <1>1, <1>2, <2>2, SaveSessionDoes DEF LoginSession, Savers
  <2> QED BY <2>1, <2>2
<1> QED
  BY <1>1, <1>3, SavedAndFinished DEF LoginSession

LEMMA SecondFactorDoes ==
  ASSUME Inv, NoShareStep, NEW r \in Request, SecondFactor(r)
  PROVE  Kept(r)
<1>1. req[r].op = "2fa" /\ req[r].pc = "begun"
  BY DEF SecondFactor, At
<1>2. \A s \in Session : With(s, [twoFactor |-> None]) \in Session
  BY WithTwoFactor
<1>3. /\ SavesSession(r)
      /\ req[r].cookie \in Cookie /\ session'[req[r].cookie] = With(req[r].sess, [twoFactor |-> None])
  BY <1>1, <1>2, SaveSessionDoes DEF SecondFactor, Savers
<1> DEFINE me == GetActivateUserByID(req[r].sess.twoFactor)
           new == [req[r] EXCEPT !.pc = "save", !.me = me, !.sess.twoFactor = None]
<1>4. req' = [req EXCEPT ![r] = new]
  BY Zenon DEF SecondFactor
<1>5. req[r] \in Req /\ req[r].sess \in Session /\ me \in User \cup {None, Nobody}
  BY DEF Inv, Requests, Req, GetActivateUserByID
<1> HIDE DEF me
<1>6. /\ [req[r].sess EXCEPT !.twoFactor = None] = With(req[r].sess, [twoFactor |-> None])
      /\ [req[r].sess EXCEPT !.twoFactor = None] \in Session
  BY <1>2, <1>5, WithTwoFactor
<1>7. new = [[req[r] EXCEPT !.pc = "save", !.me = me] EXCEPT !.sess = [req[r].sess EXCEPT !.twoFactor = None]]
  BY <1>5 DEF Req
<1>8. /\ new \in Req /\ new.op = "2fa" /\ new.pc = "save" /\ new.of = req[r].of
      /\ new.cookie = req[r].cookie /\ new.sess = session'[req[r].cookie]
  BY <1>1, <1>3, <1>5, <1>6, <1>7 DEF Req
<1> HIDE DEF new
<1>9. /\ req' \in [Request -> Req] /\ req'[r] = new
      /\ \A q \in Request \ {r} : req'[q] = req[q]
  BY <1>4, <1>8, Becomes DEF Inv, Requests
<1>10. Frame(r) /\ ShareTrue'
  BY <1>3, <1>9, AccountFrame DEF SavesSession
<1>11. RowCopy(r) /\ UNCHANGED rows
  BY DEF Inv, Whole, Copies, SecondFactor
<1>12. Copies(r)'
  BY <1>3, <1>8, <1>9, <1>11 DEF Copies, SessionCopy, RowCopy, PolicyCopy, ShareCopy, Named, At, Writers, rows
<1> QED
  BY <1>1, <1>3, <1>10, <1>12, SavedKept DEF SecondFactor

LEMMA SecondFactorSessionDoes ==
  ASSUME Inv, NoShareStep, NEW r \in Request, SecondFactorSession(r)
  PROVE  Kept(r)
<1>1. req[r].op = "2fa" /\ req[r].pc = "save" /\ req[r].me \in User \cup {None, Nobody}
  BY DEF SecondFactorSession, At, Inv, Requests, Req
<1>2. \A s \in Session : With(s, [user |-> req[r].me]) \in Session
  BY <1>1, WithUser
<1>3. SavesSession(r)
  BY <1>1, <1>2, SaveSessionDoes DEF SecondFactorSession, Savers
<1> QED
  BY <1>1, <1>3, SavedAndFinished DEF SecondFactorSession

LEMMA UserSignOutDoes ==
  ASSUME Inv, NoShareStep, NEW r \in Request, UserSignOut(r)
  PROVE  Kept(r)
<1>1. req[r].op = "signOut" /\ req[r].pc = "begun"
  BY DEF UserSignOut, At
<1>2. \A s \in Session : With(s, [user |-> None]) \in Session
  BY WithUser
<1>3. SavesSession(r)
  BY <1>1, <1>2, SaveSessionDoes DEF UserSignOut, Savers
<1> QED
  BY <1>1, <1>3, SavedAndFinished DEF UserSignOut

-----------------------------------------------------------------------------
(* Steps that write a row.                                                  *)
RowMarks(r) ==
  \A u \in User : user[u].status # "absent" =>
    /\ user'[u].status # "absent"
    /\ \A col \in Column : \/ user'[u][col] = user[u][col]
                           \/ \A q \in Request \ {r} : req[q].of = u => <<q, col>> \in stale'

SavesRow(r) ==
  /\ RowsTrue' /\ lost' \subseteq Ledger
  /\ \A c \in Cookie : <<c, "session">> \in lost => <<c, "session">> \in lost'
  /\ <<None, "policy">> \in lost => <<None, "policy">> \in lost'
  /\ RowMarks(r)
  /\ stale' \subseteq Request \X Kind
  /\ \A q \in Request \ {r} : \A k : <<q, k>> \in stale => <<q, k>> \in stale'

LEMMA RowKept ==
  ASSUME Inv, NoShareStep, NEW r \in Request, SavesRow(r), req[r].pc # "clean",
         UNCHANGED <<load, groups, sessions, policies>>, Finish(r)
  PROVE  Kept(r)
<1>1. /\ req' \in [Request -> Req] /\ req'[r] = Idle
      /\ \A q \in Request \ {r} : req'[q] = req[q]
  BY Finishes DEF Inv, Requests
<1>2. Frame(r) /\ ShareTrue'
  BY <1>1, AccountFrame DEF SavesRow
<1>3. UNCHANGED sessions /\ UNCHANGED policies
  OBVIOUS
<1>4. SessionsTrue' /\ PoliciesTrue'
  BY <1>1, <1>3, SameSessions, SamePolicies DEF Inv, SavesRow
<1>5. RestTrue'
  BY DEF Inv, RestTrue, SavesRow
<1>6. Marks(r)
  BY <1>3 DEF Marks, SavesRow, RowMarks, sessions, policies
<1> QED
  BY <1>1, <1>2, <1>4, <1>5, <1>6, IdleCopies DEF Kept, SavesRow

LEMMA UpdateDoes ==
  ASSUME Inv, NEW r \in Request, NEW u \in User, NEW change, Update(r, u, change), lost' = lost,
         DOMAIN change \subseteq Column,
         \A w \in Row : /\ With(w, change) \in Row
                        /\ w.status # "absent" => With(w, change).status # "absent"
  PROVE  SavesRow(r)
<1>1. CASE ~Exists(u)
  <2>1. UNCHANGED rows /\ stale' = Others(r, {})
    BY <1>1 DEF Update
  <2>2. /\ stale' \subseteq Request \X Kind
        /\ \A q \in Request \ {r} : \A k : <<q, k>> \in stale => <<q, k>> \in stale'
    BY <2>1, OthersNone DEF Inv, Requests
  <2>3. RowsTrue'
    BY <2>1, SameRows DEF Inv
  <2> QED
    BY <2>1, <2>2, <2>3 DEF SavesRow, RowMarks, rows, Inv, RestTrue
<1>2. CASE Exists(u)
  <2>1. /\ user' = [user EXCEPT ![u] = With(user[u], change)]
        /\ askedUser' = [askedUser EXCEPT ![u] = With(askedUser[u], change)]
        /\ stale' = Others(r, RowHolders(r, u, DOMAIN change))
    BY <1>2 DEF Update
  <2>2. user[u] \in Row /\ askedUser[u] \in Row
    BY DEF Inv, RowsTrue
  <2>3. /\ user' \in [User -> Row] /\ askedUser' \in [User -> Row]
        /\ \A v \in User \ {u} : user'[v] = user[v] /\ askedUser'[v] = askedUser[v]
        /\ user'[u] = With(user[u], change) /\ askedUser'[u] = With(askedUser[u], change)
    BY <2>1, <2>2 DEF Inv, RowsTrue
  <2>4. \A col \in Column :
          /\ user'[u][col] = IF col \in DOMAIN change THEN change[col] ELSE user[u][col]
          /\ askedUser'[u][col] = IF col \in DOMAIN change THEN change[col] ELSE askedUser[u][col]
    BY <2>2, <2>3, WithOfRow
  <2>5. RowsTrue'
    <3>1. ASSUME NEW v \in User, NEW col \in Column, user'[v][col] # askedUser'[v][col]
          PROVE  <<v, col>> \in lost' /\ col \notin {"status", "group"}
      <4>1. user[v][col] # askedUser[v][col]
        BY <2>3, <2>4, <3>1
      <4> QED
        BY <4>1 DEF Inv, RowsTrue
    <3> QED
      BY <2>3, <3>1 DEF RowsTrue
  <2>6. /\ RowHolders(r, u, DOMAIN change) \subseteq (Request \ {r}) \X Kind
        /\ \A q \in Request \ {r}, col \in DOMAIN change :
             req[q].of = u => <<q, col>> \in RowHolders(r, u, DOMAIN change)
    BY RowHoldersAre
  <2>7. /\ stale' \subseteq Request \X Kind
        /\ RowHolders(r, u, DOMAIN change) \subseteq stale'
        /\ \A q \in Request \ {r} : \A k : <<q, k>> \in stale => <<q, k>> \in stale'
    BY <2>1, <2>6, OthersDoes DEF Inv, Requests
  <2>8. RowMarks(r)
    BY <2>2, <2>3, <2>4, <2>6, <2>7 DEF RowMarks
  <2> QED
    BY <2>5, <2>7, <2>8 DEF SavesRow, Inv, RestTrue
<1> QED
  BY <1>1, <1>2

LEMMA UpdateDocumentDoes ==
  ASSUME Inv, NEW r \in Request, NEW u \in User, NEW col \in {"options", "keys"}, NEW new, NEW asked,
         UpdateDocument(r, u, col, new, asked),
         \A w \in Row : [w EXCEPT ![col] = new] \in Row /\ [w EXCEPT ![col] = asked] \in Row,
         <<r, col>> \notin stale /\ user[u][col] = askedUser[u][col] => new = asked
  PROVE  SavesRow(r)
<1>1. CASE ~Exists(u)
  <2>1. UNCHANGED rows /\ stale' = Others(r, {}) /\ lost' = lost
    BY <1>1 DEF UpdateDocument, rows
  <2>2. /\ stale' \subseteq Request \X Kind
        /\ \A q \in Request \ {r} : \A k : <<q, k>> \in stale => <<q, k>> \in stale'
    BY <2>1, OthersNone DEF Inv, Requests
  <2>3. RowsTrue'
    BY <2>1, SameRows DEF Inv
  <2> QED
    BY <2>1, <2>2, <2>3 DEF SavesRow, RowMarks, rows, Inv, RestTrue
<1>2. CASE Exists(u)
  <2>1. /\ user' = [user EXCEPT ![u] = [user[u] EXCEPT ![col] = new]]
        /\ askedUser' = [askedUser EXCEPT ![u] = [askedUser[u] EXCEPT ![col] = asked]]
        /\ stale' = Others(r, RowHolders(r, u, {col}))
        /\ lost' = IF <<r, col>> \in stale THEN lost \cup {<<u, col>>} ELSE lost
    BY <1>2 DEF UpdateDocument
  <2>2. user[u] \in Row /\ askedUser[u] \in Row /\ col \in Column
    BY DEF Inv, RowsTrue, Column
  <2>3. /\ user' \in [User -> Row] /\ askedUser' \in [User -> Row]
        /\ \A v \in User \ {u} : user'[v] = user[v] /\ askedUser'[v] = askedUser[v]
        /\ user'[u] = [user[u] EXCEPT ![col] = new]
        /\ askedUser'[u] = [askedUser[u] EXCEPT ![col] = asked]
    BY <2>1, <2>2 DEF Inv, RowsTrue
  <2>4. \A d \in Column :
          /\ user'[u][d] = IF d = col THEN new ELSE user[u][d]
          /\ askedUser'[u][d] = IF d = col THEN asked ELSE askedUser[u][d]
    BY <2>2, <2>3, RowFields
  <2>5. user'[u].status = user[u].status
    BY <2>2, <2>3 DEF Row
  <2>6. lost \subseteq lost' /\ lost' \subseteq Ledger
    BY <2>1, <2>2 DEF Inv, RestTrue, Ledger
  <2>7. RowsTrue'
    <3>1. ASSUME NEW v \in User, NEW d \in Column, user'[v][d] # askedUser'[v][d]
          PROVE  <<v, d>> \in lost' /\ d \notin {"status", "group"}
      <4>1. CASE v # u \/ d # col
        <5>1. CASE v # u
          BY <2>3, <2>6, <3>1, <5>1 DEF Inv, RowsTrue
        <5>2. CASE v = u /\ d # col
          <6>1. user'[u][d] = user[u][d] /\ askedUser'[u][d] = askedUser[u][d]
            BY <2>4, <5>2
          <6>2. user[u][d] # askedUser[u][d]
            BY <3>1, <5>2, <6>1
          <6> QED
            BY <2>6, <5>2, <6>2 DEF Inv, RowsTrue
        <5> QED BY <4>1, <5>1, <5>2
      <4>2. CASE v = u /\ d = col
        <5>1. <<r, col>> \in stale \/ user[u][col] # askedUser[u][col]
          BY <2>4, <3>1, <4>2
        <5> QED
          BY <2>1, <2>2, <2>6, <4>2, <5>1 DEF Inv, RowsTrue
      <4> QED BY <4>1, <4>2
    <3> QED
      BY <2>3, <3>1 DEF RowsTrue
  <2>8. /\ RowHolders(r, u, {col}) \subseteq (Request \ {r}) \X Kind
        /\ \A q \in Request \ {r}, d \in {col} : req[q].of = u => <<q, d>> \in RowHolders(r, u, {col})
    BY <2>2, RowHoldersAre
  <2>9. /\ stale' \subseteq Request \X Kind
        /\ RowHolders(r, u, {col}) \subseteq stale'
        /\ \A q \in Request \ {r} : \A k : <<q, k>> \in stale => <<q, k>> \in stale'
    BY <2>1, <2>8, OthersDoes DEF Inv, Requests
  <2>10. RowMarks(r)
    BY <2>3, <2>4, <2>5, <2>8, <2>9 DEF RowMarks
  <2> QED
    BY <2>6, <2>7, <2>9, <2>10 DEF SavesRow
<1> QED
  BY <1>1, <1>2

LEMMA SaveRowDoes ==
  ASSUME Inv, NEW r \in Request, At(r, "edit", "read"),
         NEW s \in {"active", "banned"}, NEW g \in Group,
         SaveRow(r, req[r].of, [status |-> s, group |-> g])
  PROVE  SavesRow(r)
<1> DEFINE u      == req[r].of
           change == [status |-> s, group |-> g]
<1>1. u \in User /\ req[r].row \in Row
  BY DEF At, Inv, Requests, Req, Whole, Copies, Named
<1>2. \A col \in Column : <<r, col>> \in stale \/ req[r].row[col] = user[u][col]
  BY <1>1, UsersOk DEF Inv, Whole, Copies, RowCopy, At, Writers
<1>3. /\ user' = [user EXCEPT ![u] = With(req[r].row, change)]
      /\ askedUser' = [askedUser EXCEPT ![u] = With(askedUser[u], change)]
      /\ stale' = Others(r, RowHolders(r, u, Column))
      /\ lost' = lost \cup {<<u, col>> : col \in {col \in Column \ {"status", "group"} : <<r, col>> \in stale}}
  BY DEF SaveRow
<1>4. /\ user[u] \in Row /\ askedUser[u] \in Row /\ s \in Statuses /\ s # "absent"
  BY <1>1 DEF Inv, RowsTrue, Statuses
<1>5. /\ With(req[r].row, change) \in Row /\ With(req[r].row, change).status = s
      /\ With(askedUser[u], change) \in Row
      /\ \A col \in Column :
           /\ With(req[r].row, change)[col] = IF col \in DOMAIN change THEN change[col] ELSE req[r].row[col]
           /\ With(askedUser[u], change)[col] = IF col \in DOMAIN change THEN change[col] ELSE askedUser[u][col]
      /\ DOMAIN change = {"status", "group"}
  BY <1>1, <1>4, WithGroup, WithOfRow
<1> HIDE DEF u, change
<1>6. /\ user' \in [User -> Row] /\ askedUser' \in [User -> Row]
      /\ \A v \in User \ {u} : user'[v] = user[v] /\ askedUser'[v] = askedUser[v]
      /\ user'[u] = With(req[r].row, change) /\ askedUser'[u] = With(askedUser[u], change)
  BY <1>1, <1>3, <1>5 DEF Inv, RowsTrue
<1>7. lost \subseteq lost' /\ lost' \subseteq Ledger
  <2>1. \A x \in lost' : x \in lost \/ \E d \in Column : x = <<u, d>>
    BY <1>3
  <2>2. \A d \in Column : <<u, d>> \in Ledger
    BY <1>1 DEF Ledger
  <2>3. \A x \in lost' : x \in Ledger
    BY <2>1, <2>2 DEF Inv, RestTrue
  <2> QED
    BY <1>3, <2>3
<1>8. RowsTrue'
  <2>1. ASSUME NEW v \in User, NEW d \in Column, user'[v][d] # askedUser'[v][d]
        PROVE  <<v, d>> \in lost' /\ d \notin {"status", "group"}
    <3>1. CASE v # u
      BY <1>6, <1>7, <2>1, <3>1 DEF Inv, RowsTrue
    <3>2. CASE v = u
      <4>1. d \notin {"status", "group"} /\ req[r].row[d] # askedUser[u][d]
        BY <1>5, <1>6, <2>1, <3>2
      <4>2. CASE <<r, d>> \in stale
        BY <1>3, <3>2, <4>1, <4>2
      <4>3. CASE <<r, d>> \notin stale
        <5>1. user[u][d] # askedUser[u][d]
          BY <1>2, <4>1, <4>3
        <5> QED
          BY <1>1, <1>7, <3>2, <4>1, <5>1 DEF Inv, RowsTrue
      <4> QED BY <4>2, <4>3
    <3> QED BY <3>1, <3>2
  <2> QED
    BY <1>6, <2>1 DEF RowsTrue
<1>9. /\ RowHolders(r, u, Column) \subseteq (Request \ {r}) \X Kind
      /\ \A q \in Request \ {r}, d \in Column : req[q].of = u => <<q, d>> \in RowHolders(r, u, Column)
  BY RowHoldersAre
<1>10. /\ stale' \subseteq Request \X Kind
       /\ RowHolders(r, u, Column) \subseteq stale'
       /\ \A q \in Request \ {r} : \A k : <<q, k>> \in stale => <<q, k>> \in stale'
  BY <1>3, <1>9, OthersDoes DEF Inv, Requests
<1>11. RowMarks(r)
  BY <1>4, <1>5, <1>6, <1>9, <1>10 DEF RowMarks
<1> QED
  BY <1>7, <1>8, <1>10, <1>11 DEF SavesRow

(* A whole row is put where no copy refers to, or every copy is marked.     *)
LEMMA PutRowDoes ==
  ASSUME Inv, NEW r \in Request, NEW u \in User, NEW w \in Row, PutRow(u, w), w.status # "absent",
         NEW made, made \subseteq (Request \ {r}) \X Kind, stale' = Others(r, made),
         \/ user[u].status = "absent"
         \/ \A q \in Request \ {r}, col \in Column : req[q].of = u => <<q, col>> \in made,
         lost' = lost \/ lost' = lost \ ({u} \X Column)
  PROVE  SavesRow(r)
<1>1. /\ user' \in [User -> Row] /\ askedUser' \in [User -> Row]
      /\ \A v \in User \ {u} : user'[v] = user[v] /\ askedUser'[v] = askedUser[v]
      /\ user'[u] = w /\ askedUser'[u] = w
  BY DEF PutRow, Inv, RowsTrue
<1>2. /\ lost' \subseteq Ledger
      /\ \A c \in Cookie : <<c, "session">> \in lost => <<c, "session">> \in lost'
      /\ <<None, "policy">> \in lost => <<None, "policy">> \in lost'
      /\ \A v \in User \ {u}, col \in Column : <<v, col>> \in lost => <<v, col>> \in lost'
  BY UsersOk DEF Inv, RestTrue, Column
<1>3. RowsTrue'
  BY <1>1, <1>2 DEF Inv, RowsTrue
<1>4. /\ stale' \subseteq Request \X Kind
      /\ made \subseteq stale'
      /\ \A q \in Request \ {r} : \A k : <<q, k>> \in stale => <<q, k>> \in stale'
  BY OthersDoes DEF Inv, Requests
<1>5. RowMarks(r)
  BY <1>1, <1>4 DEF RowMarks
<1> QED
  BY <1>2, <1>3, <1>4, <1>5 DEF SavesRow

LEMMA RegisterDoes ==
  ASSUME Inv, NoShareStep, NEW r \in Request, NEW u \in User, Register(r, u)
  PROVE  Kept(r)
<1> DEFINE w == [NoRow EXCEPT !.status = IF EmailActive THEN "notActivated" ELSE "active"]
<1>1. w \in Row /\ w.status # "absent"
  BY EmptyTypes DEF Row
<1>2. PutRow(u, w) /\ user[u].status = "absent" /\ stale' = Others(r, {}) /\ lost' = lost
      /\ req[r].pc = "begun"
  BY DEF Register, At
<1> HIDE DEF w
<1>3. SavesRow(r)
  BY <1>1, <1>2, PutRowDoes
<1> QED
  BY <1>2, <1>3, RowKept DEF Register

LEMMA AddUserDoes ==
  ASSUME Inv, NoShareStep, NEW r \in Request, NEW u \in User, NEW g \in Group, AddUser(r, u, g)
  PROVE  Kept(r)
<1> DEFINE w == [NoRow EXCEPT !.status = "active", !.group = g]
<1>1. w \in Row /\ w.status # "absent"
  BY EmptyTypes DEF Row
<1>2. PutRow(u, w) /\ user[u].status = "absent" /\ stale' = Others(r, {}) /\ lost' = lost
      /\ req[r].pc = "begun"
  BY DEF AddUser, At
<1> HIDE DEF w
<1>3. SavesRow(r)
  BY <1>1, <1>2, PutRowDoes
<1> QED
  BY <1>2, <1>3, RowKept DEF AddUser

LEMMA DeleteUserDoes ==
  ASSUME Inv, NoShareStep, NEW r \in Request, DeleteUser(r)
  PROVE  Kept(r)
<1> DEFINE u == req[r].of
           w == [NoRow EXCEPT !.status = "deleted"]
<1>1. w \in Row /\ w.status # "absent"
  BY EmptyTypes DEF Row
<1>2. u \in User
  BY DEF DeleteUser, At, Inv, Whole, Copies, Named, Requests, Req
<1>3. PutRow(u, w) /\ stale' = Others(r, RowHolders(r, u, Column)) /\ lost' = lost \ ({u} \X Column)
      /\ req[r].pc = "read"
  BY DEF DeleteUser, At
<1> HIDE DEF w, u
<1>4. /\ RowHolders(r, u, Column) \subseteq (Request \ {r}) \X Kind
      /\ \A q \in Request \ {r}, d \in Column : req[q].of = u => <<q, d>> \in RowHolders(r, u, Column)
  BY RowHoldersAre
<1>5. SavesRow(r)
  BY <1>1, <1>2, <1>3, <1>4, PutRowDoes
<1> QED
  BY <1>3, <1>5, RowKept DEF DeleteUser

LEMMA Enable2FADoes ==
  ASSUME Inv, NoShareStep, NEW r \in Request, Enable2FA(r)
  PROVE  Kept(r)
<1> DEFINE change == [twoFactor |-> ~req[r].row.twoFactor]
<1>1. req[r].of \in User /\ req[r].row \in Row /\ req[r].row.twoFactor \in BOOLEAN /\ req[r].pc = "begun"
  BY DEF Enable2FA, At, Inv, Requests, Req, Row
<1>2. /\ DOMAIN change \subseteq Column
      /\ \A w \in Row : With(w, change) \in Row /\ With(w, change).status = w.status
  BY <1>1, WithFactor DEF Column
<1>3. Update(r, req[r].of, change) /\ lost' = lost
  BY DEF Enable2FA
<1> HIDE DEF change
<1>4. SavesRow(r)
  BY <1>1, <1>2, <1>3, UpdateDoes
<1> QED
  BY <1>1, <1>4, RowKept DEF Enable2FA

LEMMA BanDoes ==
  ASSUME Inv, NoShareStep, NEW r \in Request, Ban(r)
  PROVE  Kept(r)
<1> DEFINE s      == IF req[r].row.status = "active" THEN "banned" ELSE "active"
           change == [status |-> s]
<1>1. req[r].of \in User /\ req[r].pc = "read"
  BY DEF Ban, At, Inv, Requests, Req, Whole, Copies, Named
<1>2. s \in Statuses /\ s # "absent"
  BY DEF Statuses
<1>3. Update(r, req[r].of, change) /\ lost' = lost
  BY DEF Ban
<1> HIDE DEF s
<1>4. /\ DOMAIN change \subseteq Column
      /\ \A w \in Row : With(w, change) \in Row /\ With(w, change).status # "absent"
  BY <1>2, WithStatus DEF Column
<1> HIDE DEF change
<1>5. SavesRow(r)
  BY <1>1, <1>3, <1>4, UpdateDoes
<1> QED
  BY <1>1, <1>5, RowKept DEF Ban

LEMMA SaveUserDoes ==
  ASSUME Inv, NoShareStep, NEW r \in Request, NEW s \in {"active", "banned"}, NEW g \in Group,
         SaveUser(r, s, g)
  PROVE  Kept(r)
<1>1. At(r, "edit", "read") /\ SaveRow(r, req[r].of, [status |-> s, group |-> g]) /\ req[r].pc # "clean"
  BY DEF SaveUser, At
<1>2. SavesRow(r)
  BY <1>1, SaveRowDoes
<1> QED
  BY <1>1, <1>2, RowKept DEF SaveUser

LEMMA UpdateOptionsDoes ==
  ASSUME Inv, NoShareStep, NEW r \in Request, NEW opt \in Option, UpdateOptions(r, opt)
  PROVE  Kept(r)
<1> DEFINE u == req[r].of
<1>1. /\ u \in User /\ req[r].row \in Row /\ req[r].pc = "begun"
      /\ <<r, "options">> \in stale \/ req[r].row["options"] = user[u]["options"]
  BY DEF UpdateOptions, At, Inv, Requests, Req, Whole, Copies, RowCopy, Writers, Column
<1>2. PICK put \in {{}, {opt}} :
        UpdateDocument(r, u, "options", (req[r].row.options \ {opt}) \cup put,
                       (askedUser[u].options \ {opt}) \cup put)
  BY DEF UpdateOptions
<1> DEFINE new   == (req[r].row.options \ {opt}) \cup put
           asked == (askedUser[u].options \ {opt}) \cup put
<1>3. new \subseteq Option /\ asked \subseteq Option
  BY <1>1 DEF Row, Inv, RowsTrue
<1>4. <<r, "options">> \notin stale /\ user[u]["options"] = askedUser[u]["options"] => new = asked
  BY <1>1
<1>5. UpdateDocument(r, u, "options", new, asked)
  BY <1>2
<1> HIDE DEF new, asked, u
<1>6. \A w \in Row : [w EXCEPT !["options"] = new] \in Row /\ [w EXCEPT !["options"] = asked] \in Row
  BY <1>3 DEF Row
<1>7. SavesRow(r)
  BY <1>1, <1>4, <1>5, <1>6, UpdateDocumentDoes
<1> QED
  BY <1>1, <1>7, RowKept DEF UpdateOptions

(* A document of credentials.                                               *)
LEMMA KeysDo ==
  ASSUME Inv, NoShareStep, NEW r \in Request, req[r].op \in {"addKey", "removeKey"}, req[r].pc = "begun",
         req[r].of # None, NEW more \in SUBSET Key, NEW less \in SUBSET Key,
         UpdateDocument(r, req[r].of, "keys", (req[r].row.keys \cup more) \ less,
                        (askedUser[req[r].of].keys \cup more) \ less),
         Finish(r), UNCHANGED <<load, groups, sessions, policies>>
  PROVE  Kept(r)
<1> DEFINE u     == req[r].of
           new   == (req[r].row.keys \cup more) \ less
           asked == (askedUser[u].keys \cup more) \ less
<1>1. /\ u \in User /\ req[r].row \in Row
      /\ <<r, "keys">> \in stale \/ req[r].row["keys"] = user[u]["keys"]
  BY DEF Inv, Requests, Req, Whole, Copies, RowCopy, Writers, Column
<1>2. new \subseteq Key /\ asked \subseteq Key
  BY <1>1 DEF Row, Inv, RowsTrue
<1>3. <<r, "keys">> \notin stale /\ user[u]["keys"] = askedUser[u]["keys"] => new = asked
  BY <1>1
<1>4. UpdateDocument(r, u, "keys", new, asked)
  OBVIOUS
<1> HIDE DEF new, asked, u
<1>5. \A w \in Row : [w EXCEPT !["keys"] = new] \in Row /\ [w EXCEPT !["keys"] = asked] \in Row
  BY <1>2 DEF Row
<1>6. SavesRow(r)
  BY <1>1, <1>3, <1>4, <1>5, UpdateDocumentDoes
<1> QED
  BY <1>6, RowKept

LEMMA RegisterAuthnDoes ==
  ASSUME Inv, NoShareStep, NEW r \in Request, NEW k \in Key, RegisterAuthn(r, k)
  PROVE  Kept(r)
<1>1. /\ req[r].row.keys \cup {k} = (req[r].row.keys \cup {k}) \ {}
      /\ askedUser[req[r].of].keys \cup {k} = (askedUser[req[r].of].keys \cup {k}) \ {}
  OBVIOUS
<1>2. UpdateDocument(r, req[r].of, "keys", (req[r].row.keys \cup {k}) \ {},
                     (askedUser[req[r].of].keys \cup {k}) \ {})
  BY <1>1 DEF RegisterAuthn
<1>3. {k} \in SUBSET Key /\ {} \in SUBSET Key
  OBVIOUS
<1>4. /\ req[r].op \in {"addKey", "removeKey"} /\ req[r].pc = "begun" /\ req[r].of # None
      /\ Finish(r) /\ UNCHANGED <<load, groups, sessions, policies>>
  BY DEF RegisterAuthn, At
<1> QED
  BY <1>2, <1>3, <1>4, KeysDo, Zenon

LEMMA RemoveAuthnDoes ==
  ASSUME Inv, NoShareStep, NEW r \in Request, NEW k \in Key, RemoveAuthn(r, k)
  PROVE  Kept(r)
<1>1. /\ req[r].row.keys \ {k} = (req[r].row.keys \cup {}) \ {k}
      /\ askedUser[req[r].of].keys \ {k} = (askedUser[req[r].of].keys \cup {}) \ {k}
  OBVIOUS
<1>2. UpdateDocument(r, req[r].of, "keys", (req[r].row.keys \cup {}) \ {k},
                     (askedUser[req[r].of].keys \cup {}) \ {k})
  BY <1>1 DEF RemoveAuthn
<1> QED
  BY <1>2, KeysDo DEF RemoveAuthn, At

LEMMA ChangeStorageDoes ==
  ASSUME Inv, NoShareStep, NEW r \in Request, NEW u \in User, ChangeStorage(r, u)
  PROVE  Kept(r)
<1> DEFINE m == user[u].storage
           n == askedUser[u].storage
<1>1. user[u] \in Row /\ askedUser[u] \in Row /\ m + 1 \in 0..MaxStorage /\ n + 1 \in 0..MaxStorage
  BY BoundsOk DEF ChangeStorage, Inv, RowsTrue, Row
<1>2. /\ user' = [user EXCEPT ![u] = [user[u] EXCEPT !.storage = m + 1]]
      /\ askedUser' = [askedUser EXCEPT ![u] = [askedUser[u] EXCEPT !.storage = n + 1]]
      /\ stale' = Others(r, RowHolders(r, u, {"storage"})) /\ lost' = lost
      /\ req[r].pc = "begun"
  BY DEF ChangeStorage, At
<1>3. user[u]["storage"] = m /\ askedUser[u]["storage"] = n
  OBVIOUS
<1> HIDE DEF m, n
<1>4. /\ [user[u] EXCEPT !.storage = m + 1] \in Row /\ [askedUser[u] EXCEPT !.storage = n + 1] \in Row
      /\ [user[u] EXCEPT !.storage = m + 1].status = user[u].status
  BY <1>1 DEF Row
<1>5. /\ user' \in [User -> Row] /\ askedUser' \in [User -> Row]
      /\ \A v \in User \ {u} : user'[v] = user[v] /\ askedUser'[v] = askedUser[v]
      /\ user'[u] = [user[u] EXCEPT !.storage = m + 1]
      /\ askedUser'[u] = [askedUser[u] EXCEPT !.storage = n + 1]
  BY <1>2, <1>4 DEF Inv, RowsTrue
<1>6. \A d \in Column :
        /\ user'[u][d] = IF d = "storage" THEN m + 1 ELSE user[u][d]
        /\ askedUser'[u][d] = IF d = "storage" THEN n + 1 ELSE askedUser[u][d]
  BY <1>1, <1>5, RowFields
<1>7. RowsTrue'
  <2>1. ASSUME NEW v \in User, NEW d \in Column, user'[v][d] # askedUser'[v][d]
        PROVE  user[v][d] # askedUser[v][d]
    BY <1>3, <1>5, <1>6, <2>1
  <2> QED
    BY <1>2, <1>5, <2>1 DEF Inv, RowsTrue
<1>8. /\ RowHolders(r, u, {"storage"}) \subseteq (Request \ {r}) \X Kind
      /\ \A q \in Request \ {r}, d \in {"storage"} : req[q].of = u => <<q, d>> \in RowHolders(r, u, {"storage"})
  BY RowHoldersAre DEF Column
<1>9. /\ stale' \subseteq Request \X Kind
      /\ RowHolders(r, u, {"storage"}) \subseteq stale'
      /\ \A q \in Request \ {r} : \A k : <<q, k>> \in stale => <<q, k>> \in stale'
  BY <1>2, <1>8, OthersDoes DEF Inv, Requests
<1>10. RowMarks(r)
  BY <1>4, <1>5, <1>6, <1>8, <1>9 DEF RowMarks
<1>11. SavesRow(r)
  BY <1>2, <1>7, <1>9, <1>10 DEF SavesRow, Inv, RestTrue
<1> QED
  BY <1>2, <1>11, RowKept DEF ChangeStorage

-----------------------------------------------------------------------------
(* The policy's row and its cache.                                          *)
LEMMA OtherLost ==
  ASSUME Inv, lost' \in {lost, lost \cup {<<None, "policy">>}, lost \ {<<None, "policy">>}}
  PROVE  /\ lost' \subseteq Ledger
         /\ \A c \in Cookie : <<c, "session">> \in lost => <<c, "session">> \in lost'
         /\ \A u \in User, col \in Column : <<u, col>> \in lost => <<u, col>> \in lost'
  BY DEF Inv, RestTrue, Ledger, Column

LEMMA CachePolicyDoes ==
  ASSUME Inv, NoShareStep, NEW r \in Request, CachePolicy(r)
  PROVE  Kept(r)
<1>1. /\ At(r, "getPolicy", "save") /\ cached' = {req[r].seen}
      /\ lost' = IF <<r, "policy">> \in stale THEN lost \cup {<<None, "policy">>} ELSE lost \ {<<None, "policy">>}
      /\ Finish(r) /\ stale' = Others(r, {}) /\ UNCHANGED <<load, rows, groups, sessions, version>>
  BY DEF CachePolicy
<1>2. Frame(r) /\ Copies(r)'
  BY <1>1, EndDoes
<1>3. /\ lost' \subseteq Ledger
      /\ \A c \in Cookie : <<c, "session">> \in lost => <<c, "session">> \in lost'
      /\ \A u \in User, col \in Column : <<u, col>> \in lost => <<u, col>> \in lost'
  BY <1>1, OtherLost
<1>4. SessionsTrue' /\ RowsTrue'
  BY <1>1, <1>3, SameSessions, SameRows DEF Inv
<1>5. ShareTrue'
  BY SameShare DEF NoShareStep, Inv
<1>6. RestTrue' /\ Marks(r)
  BY <1>1, <1>3 DEF Inv, RestTrue, Marks, sessions, rows
<1>7. PoliciesTrue'
  <2>1. req[r].seen \in 0..MaxVersion /\ version' = version
    BY <1>1 DEF Inv, Requests, Req
  <2>2. Cardinality(cached') <= 1
    <3>1. Cardinality({req[r].seen}) = 1
      BY FS_Singleton, Zenon
    <3> QED
      BY <1>1, <3>1
  <2>3. PolicyFresh'
    <3>1. CASE <<r, "policy">> \in stale
      BY <1>1, <3>1 DEF PolicyFresh
    <3>2. CASE <<r, "policy">> \notin stale
      BY <1>1, <2>1, <3>2 DEF PolicyFresh, Inv, Whole, Copies, PolicyCopy
    <3> QED BY <3>1, <3>2
  <2> QED
    BY <1>1, <2>1, <2>2, <2>3 DEF PoliciesTrue, Inv
<1> QED
  BY <1>2, <1>4, <1>5, <1>6, <1>7 DEF Kept

LEMMA SavePolicyDoes ==
  ASSUME Inv, NoShareStep, NEW r \in Request, SavePolicy(r)
  PROVE  Kept(r)
<1> DEFINE made == {q \in Request : At(q, "getPolicy", "save")} \X {"policy"}
<1>1. /\ req[r].op \in {"savePolicy", "newKey"} /\ req[r].pc = "begun"
      /\ version < MaxVersion /\ version' = version + 1
      /\ stale' = Others(r, made) /\ Step(r, "clean")
      /\ UNCHANGED <<load, rows, groups, sessions, cached, lost>>
  BY DEF SavePolicy
<1>2. /\ made \subseteq (Request \ {r}) \X Kind
      /\ \A q \in Request : At(q, "getPolicy", "save") => <<q, "policy">> \in made
  BY <1>1 DEF At, Kind
<1> HIDE DEF made
<1>3. /\ stale' \subseteq Request \X Kind
      /\ made \subseteq stale'
      /\ \A q \in Request \ {r} : \A k : <<q, k>> \in stale => <<q, k>> \in stale'
  BY <1>1, <1>2, OthersDoes DEF Inv, Requests
<1>4. /\ req' \in [Request -> Req]
      /\ req'[r] = [req[r] EXCEPT !.pc = "clean"]
      /\ \A q \in Request \ {r} : req'[q] = req[q]
  BY <1>1, Steps DEF Pcs, Inv, Requests
<1>5. req'[r].pc = "clean" /\ req'[r].op = req[r].op /\ req'[r].of = req[r].of
  BY <1>4 DEF Inv, Requests, Req
<1>6. Frame(r) /\ ShareTrue'
  BY <1>3, <1>4, AccountFrame
<1>7. RowCopy(r)
  BY DEF Inv, Whole, Copies
<1>8. Copies(r)'
  BY <1>1, <1>5, <1>7 DEF Copies, SessionCopy, RowCopy, PolicyCopy, ShareCopy, Named, At, Savers, Charged,
     Writers, rows
<1>9. SessionsTrue' /\ RowsTrue'
  BY <1>1, SameSessions, SameRows DEF Inv
<1>10. PoliciesTrue'
  <2>1. version' \in 0..MaxVersion
    BY <1>1, BoundsOk DEF Inv, PoliciesTrue
  <2>2. PolicyFresh'
    BY <1>5 DEF PolicyFresh
  <2> QED
    BY <1>1, <2>1, <2>2 DEF PoliciesTrue, Inv
<1>11. RestTrue' /\ Marks(r)
  BY <1>1, <1>2, <1>3 DEF Inv, RestTrue, Marks, sessions, rows
<1> QED
  BY <1>6, <1>8, <1>9, <1>10, <1>11 DEF Kept

LEMMA NothingCached == ASSUME cached' = {}, version' = version, Inv PROVE PoliciesTrue'
  BY FS_EmptySet DEF PoliciesTrue, PolicyFresh, Inv

LEMMA CleanCacheDoes ==
  ASSUME Inv, NoShareStep, NEW r \in Request, CleanCache(r)
  PROVE  Kept(r)
<1>1. /\ cached' = {} /\ lost' = lost \ {<<None, "policy">>}
      /\ Finish(r) /\ stale' = Others(r, {}) /\ UNCHANGED <<load, rows, groups, sessions, version>>
  BY DEF CleanCache
<1>2. Frame(r) /\ Copies(r)'
  BY <1>1, EndDoes
<1>3. /\ lost' \subseteq Ledger
      /\ \A c \in Cookie : <<c, "session">> \in lost => <<c, "session">> \in lost'
      /\ \A u \in User, col \in Column : <<u, col>> \in lost => <<u, col>> \in lost'
  BY <1>1, OtherLost
<1>4. SessionsTrue' /\ RowsTrue'
  BY <1>1, <1>3, SameSessions, SameRows DEF Inv
<1>5. ShareTrue'
  BY SameShare DEF NoShareStep, Inv
<1>6. RestTrue' /\ Marks(r)
  BY <1>1, <1>3 DEF Inv, RestTrue, Marks, sessions, rows
<1> QED
  BY <1>1, <1>2, <1>4, <1>5, <1>6, NothingCached DEF Kept

LEMMA EvictDoes == ASSUME Inv, NoShareStep, Evict PROVE Inv'
<1>1. cached' = {} /\ lost' = lost \ {<<None, "policy">>} /\ UNCHANGED <<load, rows, groups, sessions, version, req, stale>>
  BY DEF Evict
<1>2. /\ lost' \subseteq Ledger
      /\ \A c \in Cookie : <<c, "session">> \in lost => <<c, "session">> \in lost'
      /\ \A u \in User, col \in Column : <<u, col>> \in lost => <<u, col>> \in lost'
  BY <1>1, OtherLost
<1>3. SessionsTrue' /\ RowsTrue'
  BY <1>1, <1>2, SameSessions, SameRows DEF Inv
<1>4. ShareTrue'
  BY SameShare DEF NoShareStep, Inv
<1>5. RestTrue'
  BY <1>1, <1>2 DEF Inv, RestTrue
<1>6. Requests'
  BY <1>1, EmptyTypes DEF Inv, Requests, NoShareStep
<1>7. Whole'
  <2>1. ASSUME NEW q \in Request PROVE Copies(q)'
    <3>1. Copies(q)
      BY DEF Inv, Whole
    <3>2. req[q].pc \in {"available", "unlocked"} => visit'[q] = visit[q]
      BY <1>1 DEF NoShareStep, Idle
    <3> QED
      BY <1>1, <3>1, <3>2 DEF Copies, SessionCopy, RowCopy, PolicyCopy, ShareCopy, Named, At, sessions, rows
  <2> QED
    BY <2>1 DEF Whole
<1> QED
  BY <1>1, <1>3, <1>4, <1>5, <1>6, <1>7, NothingCached DEF Inv

(* Every step of Accounts.                                                  *)
LEMMA AccountsKeep == ASSUME Inv, NoShareStep, AccountsNext PROVE Inv'
<1>1. CASE Evict
  BY <1>1, EvictDoes
<1>2. ASSUME NEW r \in Request,
             \/ \E c \in load.cookies, op \in load.ops \ Internal : Begin(r, c, op)
             \/ \E op \in load.ops \cap Internal : BeginInternal(r, op)
             \/ Refuse(r) \/ SessionStep(r) \/ SettingStep(r) \/ AdminStep(r) \/ PolicyStep(r)
             \/ \E u \in User : Register(r, u)
             \/ \E u \in Members : ChangeStorage(r, u)
      PROVE  Kept(r)
  <2>1. CASE \E c \in load.cookies, op \in load.ops \ Internal : Begin(r, c, op)
    BY <2>1, BeginDoes
  <2>2. CASE \E op \in load.ops \cap Internal : BeginInternal(r, op)
    BY <2>2, BeginInternalDoes
  <2>3. CASE Refuse(r)
    BY <2>3, RefuseDoes
  <2>4. CASE SessionStep(r)
    BY <2>4, CSRFInitDoes, GetCaptchaDoes, CaptchaRequiredDoes, LoginSessionDoes, SecondFactorDoes,
       SecondFactorSessionDoes, UserSignOutDoes, LoginDoes DEF SessionStep
  <2>5. CASE SettingStep(r)
    BY <2>5, Enable2FADoes, UpdateOptionsDoes, RegisterAuthnDoes, RemoveAuthnDoes DEF SettingStep
  <2>6. CASE AdminStep(r)
    BY <2>6, ReadUserDoes, SaveUserDoes, AddUserDoes, BanDoes, DeleteUserDoes, DeleteGroupDoes, CountUsersDoes
       DEF AdminStep
  <2>7. CASE PolicyStep(r)
    BY <2>7, GetPolicyByIDDoes, CachePolicyDoes, SavePolicyDoes, CleanCacheDoes DEF PolicyStep
  <2>8. CASE \E u \in User : Register(r, u)
    BY <2>8, RegisterDoes
  <2>9. CASE \E u \in Members : ChangeStorage(r, u)
    BY <2>9, ChangeStorageDoes, UsersOk
  <2> QED
    BY <1>2, <2>1, <2>2, <2>3, <2>4, <2>5, <2>6, <2>7, <2>8, <2>9
<1> QED
  BY <1>1, <1>2, KeptKeeps DEF AccountsNext

-----------------------------------------------------------------------------
(* Steps of Shares.                                                         *)
LEMMA ShareKept ==
  ASSUME Inv, NEW r \in Request, req[r].pc # "clean",
         UNCHANGED <<load, rows, groups, sessions, policies, lost>>,
         ShareTrue', Frame(r), Copies(r)'
  PROVE  Kept(r)
<1>1. UNCHANGED sessions /\ UNCHANGED rows /\ UNCHANGED policies /\ lost' = lost
  OBVIOUS
<1>2. SessionsTrue' /\ RowsTrue'
  BY <1>1, SameSessions, SameRows DEF Inv
<1>3. PoliciesTrue'
  BY <1>1, SamePolicies DEF Inv, Frame
<1>4. RestTrue'
  BY DEF Inv, RestTrue
<1>5. Marks(r)
  BY <1>1 DEF Marks, sessions, rows, policies
<1> QED
  BY <1>2, <1>3, <1>4, <1>5 DEF Kept

LEMMA LeaveDoes == ASSUME Inv, NEW r \in Request, Leave(r) PROVE Frame(r) /\ Copies(r)'
<1>1. /\ req' \in [Request -> Req] /\ req'[r] = Idle
      /\ \A q \in Request \ {r} : req'[q] = req[q]
  BY Finishes DEF Inv, Requests, Leave
<1>2. /\ stale' \subseteq Request \X Kind
      /\ \A q \in Request \ {r} : \A k : <<q, k>> \in stale => <<q, k>> \in stale'
  BY OthersNone DEF Inv, Requests, Leave
<1>3. visit' \in [Request -> ShareRow] /\ \A q \in Request \ {r} : visit'[q] = visit[q]
  BY EmptyTypes DEF Inv, Requests, Leave
<1> QED
  BY <1>1, <1>2, <1>3, IdleCopies DEF Frame

Sharing == Visits \cup {"createShare", "editShare", "deleteSource", "download"}

LEMMA StepDoes ==
  ASSUME Inv, NEW r \in Request, NEW pc \in Pcs, Step(r, pc), req[r].op \in Sharing, req[r].pc # "charged",
         stale' = stale, UNCHANGED sessions, UNCHANGED rows,
         visit' \in [Request -> ShareRow], \A q \in Request \ {r} : visit'[q] = visit[q],
         pc \in {"available", "unlocked"} => visit'[r].remain # 0
  PROVE  Frame(r) /\ Copies(r)'
<1>1. /\ req' \in [Request -> Req]
      /\ req'[r] = [req[r] EXCEPT !.pc = pc]
      /\ \A q \in Request \ {r} : req'[q] = req[q]
  BY Steps DEF Inv, Requests
<1>2. Frame(r)
  BY <1>1 DEF Frame, Inv, Requests
<1>3. /\ req'[r].op = req[r].op /\ req'[r].of = req[r].of /\ req'[r].cookie = req[r].cookie
      /\ req'[r].sess = req[r].sess /\ req'[r].row = req[r].row /\ req'[r].pc = pc
  BY <1>1 DEF Inv, Requests, Req
<1>4. SessionCopy(r) /\ RowCopy(r)
  BY DEF Inv, Whole, Copies
<1>5. SessionCopy(r)' /\ RowCopy(r)'
  BY <1>3, <1>4 DEF SessionCopy, RowCopy, sessions, rows
<1>6. PolicyCopy(r)' /\ ShareCopy(r)' /\ Named(r)'
  BY <1>3 DEF PolicyCopy, ShareCopy, Named, At, Sharing, Visits, Charged
<1> QED
  BY <1>2, <1>5, <1>6 DEF Copies

LEMMA FindSourceDoes == ASSUME Inv, NEW r \in Request, FindSource(r) PROVE Kept(r)
<1>1. req[r].op \in Sharing /\ req[r].pc = "begun"
  BY DEF FindSource, At, Sharing
<1>2. Frame(r) /\ Copies(r)'
  BY <1>1, StepDoes DEF FindSource, Pcs, shareVars, Inv, Requests
<1> QED
  BY <1>1, <1>2, QuietKept DEF Quiet, FindSource, shareVars

LEMMA CheckShareUnlockedDoes == ASSUME Inv, NEW r \in Request, CheckShareUnlocked(r) PROVE Kept(r)
<1>1. req[r].op \in Sharing /\ req[r].pc = "available" /\ visit[r].remain # 0
  BY DEF CheckShareUnlocked, At, Sharing, Inv, Whole, Copies, ShareCopy
<1>2. Frame(r) /\ Copies(r)'
  BY <1>1, StepDoes DEF CheckShareUnlocked, Pcs, shareVars, Inv, Requests
<1> QED
  BY <1>1, <1>2, QuietKept DEF Quiet, CheckShareUnlocked, shareVars

LEMMA DownloadAgainDoes == ASSUME Inv, NEW r \in Request, DownloadAgain(r) PROVE Kept(r)
<1>1. req[r].op \in Sharing /\ req[r].pc = "unlocked"
  BY DEF DownloadAgain, Sharing, Visits
<1>2. Frame(r) /\ Copies(r)'
  BY <1>1, StepDoes DEF DownloadAgain, Pcs, shareVars, Inv, Requests
<1> QED
  BY <1>1, <1>2, QuietKept DEF Quiet, DownloadAgain, shareVars

LEMMA FindLinkDoes == ASSUME Inv, NEW r \in Request, FindLink(r) PROVE Kept(r)
<1>1. req[r].op \in Sharing /\ req[r].pc = "begun"
  BY DEF FindLink, At, Sharing
<1>2. Frame(r) /\ Copies(r)'
  BY <1>1, StepDoes DEF FindLink, Pcs, shareVars, Inv, Requests
<1> QED
  BY <1>1, <1>2, QuietKept DEF Quiet, FindLink, shareVars

LEMMA ShareAvailableDoes == ASSUME Inv, NEW r \in Request, ShareAvailable(r) PROVE Kept(r)
<1>1. req[r].op \in Sharing /\ req[r].pc = "begun"
  BY DEF ShareAvailable, Sharing
<1>2. /\ visit' \in [Request -> ShareRow] /\ visit'[r].remain # 0
      /\ \A q \in Request \ {r} : visit'[q] = visit[q]
  BY DEF ShareAvailable, IsAvailable, Inv, Requests, ShareTrue
<1>3. Frame(r) /\ Copies(r)'
  BY <1>1, <1>2, StepDoes DEF ShareAvailable, Pcs
<1> QED
  BY <1>1, <1>3, QuietKept DEF Quiet, ShareAvailable

LEMMA ShowShareDoes == ASSUME Inv, NEW r \in Request, ShowShare(r) PROVE Kept(r)
<1>1. req[r].pc # "clean" /\ Leave(r)
  BY DEF ShowShare
<1>2. Quiet
  BY DEF ShowShare, Quiet
<1> QED
  BY <1>1, <1>2, LeaveDoes, QuietKept

-----------------------------------------------------------------------------
LEMMA CreateShareDoes ==
  ASSUME Inv, NEW r \in Request, NEW pass \in Password \cup {Open}, NEW limit \in (1..Limit) \cup {Unlimited},
         NEW preview \in BOOLEAN, CreateShare(r, pass, limit, preview)
  PROVE  Kept(r)
<1>1. /\ req[r].pc = "read" /\ Leave(r)
      /\ share' = [state |-> "live", pass |-> pass, remain |-> limit, preview |-> preview, expired |-> FALSE]
      /\ askedShare' = share'
      /\ UNCHANGED <<load, rows, groups, sessions, policies, lost, source, memory, charges, link, served>>
  BY DEF CreateShare, At
<1>2. share' \in ShareRow
  BY <1>1, LimitOk DEF ShareRow
<1>3. ShareTrue'
  BY <1>1, <1>2 DEF ShareTrue, Inv
<1> QED
  BY <1>1, <1>3, LeaveDoes, ShareKept

(* The owner and time set the same field of both rows.                      *)
LEMMA UpdateShareDoes ==
  ASSUME Inv, NEW change, UpdateShare(change, change),
         \/ change = [state |-> "deleted"]
         \/ \E p \in Password \cup {Open} : change = [pass |-> p]
         \/ \E p \in BOOLEAN : change = [preview |-> p]
  PROVE  /\ {share', askedShare'} \subseteq ShareRow
         /\ share'.state = askedShare'.state /\ share'.pass = askedShare'.pass
         /\ share'.preview = askedShare'.preview /\ share'.expired = askedShare'.expired
<1>1. /\ share \in ShareRow /\ askedShare \in ShareRow
      /\ share.state = askedShare.state /\ share.pass = askedShare.pass
      /\ share.preview = askedShare.preview /\ share.expired = askedShare.expired
  BY DEF Inv, ShareTrue
<1>2. CASE share.state # "live"
  BY <1>1, <1>2 DEF UpdateShare, shareRows
<1>3. CASE share.state = "live"
  <2>1. share' = With(share, change) /\ askedShare' = With(askedShare, change)
    BY <1>3 DEF UpdateShare
  <2>2. CASE change = [state |-> "deleted"]
    <3>1. share' = [share EXCEPT !.state = "deleted"] /\ askedShare' = [askedShare EXCEPT !.state = "deleted"]
      BY <1>1, <2>1, <2>2, WithShare
    <3> QED
      BY <1>1, <3>1 DEF ShareRow
  <2>3. ASSUME NEW p \in Password \cup {Open}, change = [pass |-> p]
        PROVE  /\ {share', askedShare'} \subseteq ShareRow
               /\ share'.state = askedShare'.state /\ share'.pass = askedShare'.pass
               /\ share'.preview = askedShare'.preview /\ share'.expired = askedShare'.expired
    <3>1. share' = [share EXCEPT !.pass = p] /\ askedShare' = [askedShare EXCEPT !.pass = p]
      BY <1>1, <2>1, <2>3, WithShare
    <3> QED
      BY <1>1, <2>3, <3>1 DEF ShareRow
  <2>4. ASSUME NEW p \in BOOLEAN, change = [preview |-> p]
        PROVE  /\ {share', askedShare'} \subseteq ShareRow
               /\ share'.state = askedShare'.state /\ share'.pass = askedShare'.pass
               /\ share'.preview = askedShare'.preview /\ share'.expired = askedShare'.expired
    <3>1. share' = [share EXCEPT !.preview = p] /\ askedShare' = [askedShare EXCEPT !.preview = p]
      BY <1>1, <2>1, <2>4, WithShare
    <3> QED
      BY <1>1, <2>4, <3>1 DEF ShareRow
  <2> QED
    BY <2>2, <2>3, <2>4
<1> QED
  BY <1>2, <1>3

LEMMA OwnerDoes ==
  ASSUME Inv, NEW r \in Request, NEW change, UpdateShare(change, change),
         \/ change = [state |-> "deleted"]
         \/ \E p \in Password \cup {Open} : change = [pass |-> p]
         \/ \E p \in BOOLEAN : change = [preview |-> p],
         Leave(r), req[r].pc # "clean",
         UNCHANGED <<load, rows, groups, sessions, policies, lost, source, memory, charges, link, served>>
  PROVE  Kept(r)
<1>1. ShareTrue'
  BY UpdateShareDoes DEF ShareTrue, Inv
<1> QED
  BY <1>1, LeaveDoes, ShareKept

LEMMA EditShareDoes ==
  ASSUME Inv, NEW r \in Request, NEW change, EditShare(r, change),
         \/ \E p \in Password \cup {Open} : change = [pass |-> p]
         \/ \E p \in BOOLEAN : change = [preview |-> p]
  PROVE  Kept(r)
  BY OwnerDoes DEF EditShare, At

LEMMA DeleteShareDoes == ASSUME Inv, NEW r \in Request, DeleteShare(r) PROVE Kept(r)
  BY OwnerDoes DEF DeleteShare, At

LEMMA DeleteShareBySourceIDsDoes ==
  ASSUME Inv, NEW r \in Request, DeleteShareBySourceIDs(r) PROVE Kept(r)
  BY OwnerDoes DEF DeleteShareBySourceIDs, At

LEMMA DeleteSourceDoes == ASSUME Inv, NEW r \in Request, DeleteSource(r) PROVE Kept(r)
<1>1. /\ req[r].op \in Sharing /\ req[r].pc = "begun" /\ Step(r, "sweep") /\ source' = FALSE
      /\ stale' = stale /\ UNCHANGED <<load, rows, groups, sessions, policies, lost>> /\ visit' = visit
      /\ UNCHANGED <<shareRows, memory, charges, link, served>>
  BY DEF DeleteSource, At, Sharing
<1>2. Frame(r) /\ Copies(r)'
  BY <1>1, StepDoes DEF Pcs, Inv, Requests
<1>3. ShareTrue'
  BY <1>1 DEF ShareTrue, Inv, shareRows
<1> QED
  BY <1>1, <1>2, <1>3, ShareKept

LEMMA CreateDownloadSessionDoes == ASSUME Inv, NEW r \in Request, CreateDownloadSession(r) PROVE Kept(r)
<1>1. /\ req[r].pc = "charged" /\ Leave(r) /\ link' \in {link, "live"}
      /\ UNCHANGED <<load, rows, groups, sessions, policies, lost>>
      /\ UNCHANGED <<shareRows, source, memory, charges, served>>
  BY DEF CreateDownloadSession, At
<1>2. ShareTrue'
  BY <1>1 DEF ShareTrue, Inv, shareRows
<1> QED
  BY <1>1, <1>2, LeaveDoes, ShareKept

LEMMA ServeLinkDoes == ASSUME Inv, NEW r \in Request, ServeLink(r) PROVE Kept(r)
<1>1. /\ req[r].pc = "read" /\ Leave(r) /\ link' \in {link, "gone"} /\ served' \in {served, served + 1}
      /\ UNCHANGED <<load, rows, groups, sessions, policies, lost>>
      /\ UNCHANGED <<shareRows, source, memory, charges>>
  BY DEF ServeLink, At, LinkAfter
<1>2. ShareTrue'
  BY <1>1 DEF ShareTrue, Inv, shareRows
<1> QED
  BY <1>1, <1>2, LeaveDoes, ShareKept

LEMMA ChargeDownloadDoes == ASSUME Inv, NEW r \in Request, ChargeDownload(r) PROVE Kept(r)
<1>1. /\ req[r].op \in Sharing /\ req[r].pc = "unlocked" /\ Downloaded(r) /\ Step(r, "save")
      /\ charges' \in {charges, charges + 1} /\ stale' = stale /\ visit' = visit
      /\ UNCHANGED <<load, rows, groups, sessions, policies, lost>>
      /\ UNCHANGED <<source, memory, link, served>>
  BY DEF ChargeDownload, Sharing, Visits
<1>2. Frame(r) /\ Copies(r)'
  BY <1>1, StepDoes DEF Pcs, Inv, Requests
<1> DEFINE left == IF visit[r].remain = Unlimited THEN Unlimited ELSE visit[r].remain - 1
<1>3. left \in (0..Limit) \cup {Unlimited}
  BY <1>1, LimitOk, SMTT(60) DEF Inv, Whole, Copies, ShareCopy, Requests, ShareRow
<1>4. UpdateShare([remain |-> left], <<>>)
  BY <1>1 DEF Downloaded
<1> HIDE DEF left
<1>5. ShareTrue'
  <2>1. CASE share.state # "live"
    BY <1>1, <1>4, <2>1 DEF UpdateShare, shareRows, ShareTrue, Inv
  <2>2. CASE share.state = "live"
    <3>1. share' = With(share, [remain |-> left]) /\ askedShare' = With(askedShare, <<>>)
      BY <1>4, <2>2 DEF UpdateShare
    <3>2. share \in ShareRow /\ askedShare \in ShareRow
      BY DEF ShareTrue, Inv
    <3>3. share' = [share EXCEPT !.remain = left] /\ askedShare' = askedShare
      BY <3>1, <3>2, WithShare
    <3>4. /\ share' \in ShareRow /\ share'.state = share.state /\ share'.pass = share.pass
          /\ share'.preview = share.preview /\ share'.expired = share.expired
      BY <1>3, <3>2, <3>3 DEF ShareRow
    <3> QED
      BY <1>1, <3>2, <3>3, <3>4 DEF ShareTrue, Inv
  <2> QED BY <2>1, <2>2
<1> QED
  BY <1>1, <1>2, <1>5, ShareKept

LEMMA UnlockShareDoes == ASSUME Inv, NEW r \in Request, UnlockShare(r) PROVE Kept(r)
<1>1. /\ req[r].op = "info" /\ req[r].pc = "available" /\ Finish(r) /\ SaveSession(r, [unlocked |-> TRUE])
      /\ visit' = [visit EXCEPT ![r] = NoShare] /\ UNCHANGED <<load, rows, groups, policies>>
      /\ UNCHANGED <<shareRows, source, memory, charges, link, served>>
  BY DEF UnlockShare, At
<1>2. \A s \in Session : With(s, [unlocked |-> TRUE]) \in Session
  BY WithUnlocked
<1>3. SavesSession(r)
  BY <1>1, <1>2, SaveSessionDoes DEF Savers
<1>4. /\ req' \in [Request -> Req] /\ req'[r] = Idle
      /\ \A q \in Request \ {r} : req'[q] = req[q]
  BY <1>1, Finishes DEF Inv, Requests
<1>5. visit' \in [Request -> ShareRow] /\ \A q \in Request \ {r} : visit'[q] = visit[q]
  BY <1>1, EmptyTypes DEF Inv, Requests
<1>6. Frame(r) /\ ShareTrue'
  BY <1>1, <1>3, <1>4, <1>5, SameShare DEF Frame, SavesSession, Inv
<1> QED
  BY <1>1, <1>3, <1>4, <1>6, IdleCopies, SavedKept

LEMMA RememberDownloadDoes == ASSUME Inv, NEW r \in Request, RememberDownload(r) PROVE Kept(r)
<1>1. /\ req[r].op \in Charged /\ req[r].pc = "save" /\ Step(r, "charged") /\ visit' = visit
      /\ UNCHANGED <<load, rows, groups, policies>>
      /\ UNCHANGED <<shareRows, source, charges, link, served>>
  BY DEF RememberDownload, At
<1>2. req[r].op \in Sharing /\ req[r].op \in Savers
  BY <1>1 DEF Sharing, Visits, Savers
<1>3. CASE req[r].me \in User
  <2>1. memory' = memory \cup {req[r].me} /\ UNCHANGED <<sessions, stale, lost>>
    BY <1>3 DEF RememberDownload
  <2>2. Frame(r) /\ Copies(r)'
    BY <1>1, <1>2, <2>1, StepDoes DEF Pcs, Inv, Requests
  <2>3. ShareTrue'
    BY <1>1, <1>3, <2>1 DEF ShareTrue, Inv, shareRows
  <2> QED
    BY <1>1, <2>1, <2>2, <2>3, ShareKept
<1>4. CASE req[r].me \notin User
  <2>1. SaveSession(r, [charged |-> TRUE]) /\ memory' = memory
    BY <1>4 DEF RememberDownload
  <2>2. \A s \in Session : With(s, [charged |-> TRUE]) \in Session
    BY WithCharged
  <2>3. SavesSession(r) /\ req[r].cookie \in Cookie
    BY <1>1, <1>2, <2>1, <2>2, SaveSessionDoes
  <2>4. /\ req' \in [Request -> Req]
        /\ req'[r] = [req[r] EXCEPT !.pc = "charged"]
        /\ \A q \in Request \ {r} : req'[q] = req[q]
    BY <1>1, Steps DEF Pcs, Inv, Requests
  <2>5. /\ req'[r].op = req[r].op /\ req'[r].of = req[r].of /\ req'[r].cookie = req[r].cookie
        /\ req'[r].pc = "charged"
    BY <2>4 DEF Inv, Requests, Req
  <2>6. Frame(r) /\ ShareTrue'
    BY <1>1, <2>1, <2>3, <2>4, SameShare DEF Frame, SavesSession, Inv, Requests
  <2>7. RowCopy(r)
    BY DEF Inv, Whole, Copies
  <2>8. Copies(r)'
    BY <1>1, <2>3, <2>5, <2>7 DEF Copies, SessionCopy, RowCopy, PolicyCopy, ShareCopy, Named, At, Writers,
       Charged, rows
  <2> QED
    BY <1>1, <2>3, <2>6, <2>8, SavedKept
<1> QED
  BY <1>3, <1>4

-----------------------------------------------------------------------------
(* Time, which keeps the requests as they are.                              *)
LEMMA TimeKeeps ==
  ASSUME Inv, UNCHANGED <<req, visit, stale>>, SessionsTrue', UNCHANGED rows, UNCHANGED policies, ShareTrue',
         UNCHANGED <<load, groups>>, lost' \subseteq lost,
         \A c \in Cookie : session'[c] = session[c] \/ \A q \in Request : req[q].cookie # c,
         \A u \in User, col \in Column : <<u, col>> \in lost => <<u, col>> \in lost',
         <<None, "policy">> \in lost => <<None, "policy">> \in lost'
  PROVE  Inv'
<1>1. RowsTrue'
  BY SameRows DEF Inv
<1>2. PoliciesTrue'
  BY DEF Inv, PoliciesTrue, policies, PolicyFresh
<1>3. RestTrue' /\ Requests'
  BY DEF Inv, RestTrue, Requests
<1>4. Whole'
  <2>1. ASSUME NEW q \in Request PROVE Copies(q)'
    <3>1. Copies(q)
      BY DEF Inv, Whole
    <3>2. SessionCopy(q)'
      BY <3>1 DEF Copies, SessionCopy
    <3> QED
      BY <3>1, <3>2 DEF Copies, RowCopy, PolicyCopy, ShareCopy, Named, At, rows, policies
  <2> QED
    BY <2>1 DEF Whole
<1> QED
  BY <1>1, <1>2, <1>3, <1>4 DEF Inv

LEMMA ExpireDoes == ASSUME Inv, Expire PROVE Inv'
<1>1. /\ share' = [share EXCEPT !.expired = TRUE] /\ askedShare' = [askedShare EXCEPT !.expired = TRUE]
      /\ UNCHANGED <<source, memory, charges, link, served>> /\ UNCHANGED accountVars /\ visit' = visit
  BY DEF Expire
<1>2. ShareTrue'
  BY <1>1 DEF ShareTrue, Inv, ShareRow
<1>3. SessionsTrue'
  BY <1>1 DEF Inv, SessionsTrue, accountVars
<1> QED
  BY <1>1, <1>2, <1>3, TimeKeeps DEF accountVars, rows, policies

LEMMA ForgetDoes == ASSUME Inv, ForgetLink \/ \E u \in User : ForgetUser(u) PROVE Inv'
<1>1. /\ UNCHANGED accountVars /\ visit' = visit /\ UNCHANGED shareRows
      /\ UNCHANGED <<source, charges, served>> /\ memory' \subseteq memory /\ link' \in {link, "gone"}
  BY DEF ForgetLink, ForgetUser
<1>2. ShareTrue'
  BY <1>1 DEF ShareTrue, Inv, shareRows
<1>3. SessionsTrue'
  BY <1>1 DEF Inv, SessionsTrue, accountVars
<1> QED
  BY <1>1, <1>2, <1>3, TimeKeeps DEF accountVars, rows, policies

LEMMA ForgetSessionDoes == ASSUME Inv, NEW c \in Cookie, ForgetSession(c) PROVE Inv'
<1>1. /\ \A q \in Request : req[q].cookie # c
      /\ session' = [session EXCEPT ![c] = NoSession] /\ askedSession' = [askedSession EXCEPT ![c] = NoSession]
      /\ lost' = lost \ {<<c, "session">>}
      /\ UNCHANGED <<load, rows, groups, policies, req, stale, shareVars>>
  BY DEF ForgetSession
<1>2. /\ session' \in [Cookie -> Session] /\ askedSession' \in [Cookie -> Session]
      /\ \A d \in Cookie \ {c} : session'[d] = session[d] /\ askedSession'[d] = askedSession[d]
      /\ session'[c] = askedSession'[c]
  BY <1>1, EmptyTypes DEF Inv, SessionsTrue
<1>3. SessionsTrue'
  BY <1>1, <1>2 DEF Inv, SessionsTrue
<1>4. ShareTrue'
  BY <1>1, SameShare DEF Inv, shareVars
<1>5. /\ lost' \subseteq lost
      /\ \A u \in User, col \in Column : <<u, col>> \in lost => <<u, col>> \in lost'
      /\ <<None, "policy">> \in lost => <<None, "policy">> \in lost'
  BY <1>1 DEF Column
<1> QED
  BY <1>1, <1>2, <1>3, <1>4, <1>5, TimeKeeps DEF shareVars

-----------------------------------------------------------------------------
LEMMA InitInv == Init => Inv
<1> SUFFICES ASSUME Init PROVE Inv
  OBVIOUS
<1>1. AccountsInit /\ stale = {} /\ lost = {} /\ req = [r \in Request |-> Idle]
  BY DEF Init, AccountsInit
<1>2. SessionsTrue
  <2>1. PICK as \in [Cookie -> Members \cup {Root, None}] :
          session = [c \in Cookie |-> [NoSession EXCEPT !.user = as[c]]]
    BY <1>1 DEF AccountsInit
  <2>2. \A c \in Cookie : [NoSession EXCEPT !.user = as[c]] \in Session
    BY EmptyTypes, UsersOk DEF Session
  <2>3. session \in [Cookie -> Session]
    BY <2>1, <2>2
  <2>4. askedSession = session
    BY <1>1 DEF AccountsInit
  <2> QED
    BY <2>3, <2>4 DEF SessionsTrue
<1>3. RowsTrue
  <2>1. \A u \in User : [NoRow EXCEPT !.status = IF u \in Members \cup {Root} THEN "active" ELSE "absent",
                                      !.group  = IF u = Root THEN AdminGroup ELSE DefaultGroup,
                                      !.twoFactor = u \in Protected] \in Row
    <3>1. \A u \in User : (u \in Protected) \in BOOLEAN
      OBVIOUS
    <3> QED
      BY <3>1, EmptyTypes, GroupsOk DEF Row
  <2>2. user \in [User -> Row] /\ askedUser = user
    BY <1>1, <2>1 DEF AccountsInit
  <2> QED
    BY <2>2 DEF RowsTrue
<1>4. PoliciesTrue
  <2>1. version = 0 /\ cached = {} /\ Cardinality(cached) = 0
    BY <1>1, FS_EmptySet DEF AccountsInit
  <2> QED
    BY <2>1, BoundsOk DEF PoliciesTrue, PolicyFresh
<1>5. ShareTrue
  BY EmptyTypes DEF Init, ShareTrue
<1>6. RestTrue /\ Requests
  BY <1>1, EmptyTypes DEF Init, AccountsInit, RestTrue, Requests
<1>7. Whole
  BY <1>1 DEF Whole, Copies, SessionCopy, RowCopy, PolicyCopy, ShareCopy, Named, At, Idle, Savers, Charged
<1> QED
  BY <1>2, <1>3, <1>4, <1>5, <1>6, <1>7 DEF Inv

LEMMA ShareStepKeeps ==
  ASSUME Inv, NEW r \in Request, ShareOwnerStep(r) \/ VisitStep(r)
  PROVE  Inv'
<1>1. CASE ShareOwnerStep(r)
  <2>1. CASE FindSource(r) \/ DeleteShare(r) \/ DeleteSource(r) \/ DeleteShareBySourceIDs(r)
    BY <2>1, FindSourceDoes, DeleteShareDoes, DeleteSourceDoes, DeleteShareBySourceIDsDoes, KeptKeeps
  <2>2. ASSUME NEW pass \in Password \cup {Open}, NEW limit \in (1..Limit) \cup {Unlimited},
               NEW preview \in BOOLEAN, CreateShare(r, pass, limit, preview)
        PROVE  Inv'
    BY <2>2, CreateShareDoes, KeptKeeps
  <2>3. ASSUME NEW pass \in Password \cup {Open}, EditShare(r, [pass |-> pass])
        PROVE  Inv'
    BY <2>3, EditShareDoes, KeptKeeps
  <2>4. ASSUME NEW preview \in BOOLEAN, EditShare(r, [preview |-> preview])
        PROVE  Inv'
    BY <2>4, EditShareDoes, KeptKeeps
  <2> QED
    BY <1>1, <2>1, <2>2, <2>3, <2>4 DEF ShareOwnerStep
<1>2. CASE VisitStep(r)
  BY <1>2, ShareAvailableDoes, UnlockShareDoes, CheckShareUnlockedDoes, ChargeDownloadDoes,
     RememberDownloadDoes, DownloadAgainDoes, ShowShareDoes, CreateDownloadSessionDoes, FindLinkDoes,
     ServeLinkDoes, KeptKeeps DEF VisitStep
<1> QED
  BY <1>1, <1>2

LEMMA NextInv == Inv /\ [Next]_vars => Inv'
<1> SUFFICES ASSUME Inv, [Next]_vars PROVE Inv'
  OBVIOUS
<1>1. CASE AccountsNext /\ NoShareStep
  BY <1>1, AccountsKeep
<1>2. CASE \E r \in Request : ShareOwnerStep(r) \/ VisitStep(r)
  BY <1>2, ShareStepKeeps
<1>3. CASE Expire
  BY <1>3, ExpireDoes
<1>4. CASE ForgetLink \/ \E u \in User : ForgetUser(u)
  BY <1>4, ForgetDoes
<1>5. CASE \E c \in Cookie : ForgetSession(c)
  BY <1>5, ForgetSessionDoes
<1>6. CASE UNCHANGED vars
  <2>1. UNCHANGED accountVars /\ UNCHANGED <<shareRows, source, memory, charges, link, served>> /\ visit' = visit
    BY <1>6 DEF vars, shareVars
  <2>2. ShareTrue' /\ SessionsTrue'
    BY <2>1, SameShare DEF Inv, SessionsTrue, accountVars
  <2> QED
    BY <2>1, <2>2, TimeKeeps DEF accountVars, rows, policies
<1> QED
  BY <1>1, <1>2, <1>3, <1>4, <1>5, <1>6 DEF Next, NoShareStep

LEMMA AlwaysInv == Spec => []Inv
  BY InitInv, NextInv, PTL DEF Spec

(* Rows, sessions, copies and shares keep their types; the counter of a     *)
(* share never goes below zero, because no handler counts down from a copy  *)
(* that it was shown at zero.                                               *)
THEOREM TypeCorrect == Spec => []TypeOK
  BY AlwaysInv, InvMeans, PTL

(* An update of a session or of a row is lost only to a request that wrote  *)
(* from an older copy, never a ban or a change of group, and never what the *)
(* owner has set on a share.                                                *)
THEOREM UpdatesAreKept == Spec => []UpdatesKept
  BY AlwaysInv, InvMeans, PTL

(* The cache holds the current row of a policy, unless a save has yet to    *)
(* clean it or a lookup has put an older row after that (GetPolicyByID).    *)
THEOREM PoliciesAreFresh == Spec => []PolicyFresh
  BY AlwaysInv, InvMeans, PTL

-----------------------------------------------------------------------------
(* How often a share can be charged, and a link used.                       *)
Pending(r) == req[r].op \in Charged /\ req[r].pc \in {"available", "unlocked"}

(* The counter that a next visitor would see.                               *)
Left == IF share.state = "live" THEN share.remain ELSE 0

(* A visitor with copy x can take the counter back to x - 1, when all that  *)
(* was below it has been charged already.  From counts x and y, the two     *)
(* highest of the row and of the two copies, x(x+1)/2 + y more charges can  *)
(* be made.                                                                 *)
Room(c, x, y, n) == 2 * c + x * (x + 1) + 2 * y <= n * (n + 3)

Fits(x, y) == Room(charges, x, y, askedShare.remain)

Budget ==
  /\ Fits(Left, Left)
  /\ \A r \in Request : Pending(r) => Fits(Left, visit[r].remain) /\ Fits(visit[r].remain, Left)
  /\ \A r, q \in Request : r # q /\ Pending(r) /\ Pending(q) => Fits(visit[r].remain, visit[q].remain)

Limits ==
  /\ share.state = "none" => askedShare.remain = Unlimited /\ \A r \in Request : ~Pending(r)
  /\ share.remain = Unlimited <=> askedShare.remain = Unlimited
  /\ \A r \in Request : Pending(r) => (visit[r].remain = Unlimited <=> askedShare.remain = Unlimited)
  /\ askedShare.remain = Unlimited => charges = 0

Credits == Limits /\ (Cardinality(Request) = 2 /\ askedShare.remain # Unlimited => Budget)

(* Those who have looked the link up.                                       *)
Readers == {r \in Request : At(r, "download", "read")}

Links == /\ served + Cardinality(Readers) <= Cardinality(Request)
         /\ link # "gone" => served = 0

LEMMA Bounds == ASSUME Inv, Credits, Links PROVE CreditsBound
<1>1. served <= Cardinality(Request)
  <2>1. IsFiniteSet(Readers)
    BY BoundsOk, FS_Subset DEF Readers
  <2>2. Cardinality(Readers) \in Nat /\ Cardinality(Request) \in Nat
    BY <2>1, BoundsOk, FS_CardinalityType
  <2> QED
    BY <2>2 DEF Links, Inv, ShareTrue
<1>2. ASSUME Cardinality(Request) = 2, charges # 0
      PROVE  2 * charges <= askedShare.remain * (askedShare.remain + 3)
  <2> DEFINE n == askedShare.remain
  <2>1. n # Unlimited /\ Budget
    BY <1>2 DEF Credits, Limits
  <2>2. n \in Nat /\ charges \in Nat
    BY <2>1 DEF Inv, ShareTrue, ShareRow
  <2>3. Left \in Nat
    BY <2>1 DEF Left, Inv, ShareTrue, ShareRow, Credits, Limits
  <2>4. 2 * charges + Left * (Left + 1) + 2 * Left <= n * (n + 3)
    BY <2>1 DEF Budget, Fits, Room
  <2> HIDE DEF n
  <2>5. Left * (Left + 1) \in Nat /\ n * (n + 3) \in Nat
    BY <2>2, <2>3
  <2>6. 2 * charges <= n * (n + 3)
    BY <2>2, <2>3, <2>4, <2>5
  <2> QED
    BY <2>6 DEF n
<1> QED
  BY <1>1, <1>2 DEF CreditsBound

(* Paying one charge out of the budget, and leaving some of it unused.      *)
LEMMA Spend ==
  ASSUME NEW c \in Nat, NEW n \in Nat, NEW v \in Nat \ {0}, NEW m \in Nat, NEW l \in {0, v - 1}
  PROVE  /\ Room(c, v, m, n) => Room(c + 1, l, l, n) /\ Room(c + 1, l, m, n)
         /\ Room(c, m, v, n) => Room(c + 1, m, l, n)
<1> DEFINE b == n * (n + 3)
<1>1. l \in Nat /\ l <= v - 1
  OBVIOUS
<1>2. l * l <= (v - 1) * (v - 1)
  BY <1>1
<1>3. v * (v + 1) = v * v + v /\ l * (l + 1) = l * l + l /\ (v - 1) * (v - 1) = v * v - 2 * v + 1
  BY <1>1
<1>4. v * v \in Nat /\ l * l \in Nat /\ m * (m + 1) \in Nat /\ b \in Nat
  BY <1>1
<1> HIDE DEF b
<1>5. /\ 2 * c + v * (v + 1) + 2 * m <= b => /\ 2 * (c + 1) + l * (l + 1) + 2 * l <= b
                                            /\ 2 * (c + 1) + l * (l + 1) + 2 * m <= b
      /\ 2 * c + m * (m + 1) + 2 * v <= b => 2 * (c + 1) + m * (m + 1) + 2 * l <= b
  BY <1>1, <1>2, <1>3, <1>4
<1> QED
  BY <1>5 DEF Room, b

LEMMA Save ==
  ASSUME NEW c \in Nat, NEW n \in Nat, NEW x \in Nat, NEW y \in Nat, Room(c, x, y, n),
         NEW s \in {x, 0}, NEW t \in {y, 0}
  PROVE  Room(c, s, t, n)
<1> DEFINE b == n * (n + 3)
<1>1. x * (x + 1) \in Nat /\ b \in Nat /\ s * (s + 1) \in {x * (x + 1), 0}
  OBVIOUS
<1> HIDE DEF b
<1>2. 2 * c + x * (x + 1) + 2 * y <= b
  BY DEF Room, b
<1>3. 2 * c + s * (s + 1) + 2 * t <= b
  BY <1>1, <1>2
<1> QED
  BY <1>3 DEF Room, b

(* Steps that spend nothing: nobody is newly waiting to be charged, or to   *)
(* use the link.                                                            *)
Calm(x) == x.pc \notin {"available", "unlocked"} /\ ~(x.op = "download" /\ x.pc = "read")

NoneWaits == \A q \in Request : Pending(q)' => Pending(q) /\ visit'[q].remain = visit[q].remain

NoneReads == Readers' \subseteq Readers

Settled == NoneWaits /\ NoneReads

LEMMA Settles ==
  ASSUME \A q \in Request : Calm(req'[q]) \/ (req'[q] = req[q] /\ visit'[q].remain = visit[q].remain)
  PROVE  Settled
  BY DEF Calm, Settled, NoneWaits, NoneReads, Pending, Readers, At

LEMMA CreditsKept ==
  ASSUME Inv, Credits, NoneWaits, charges' = charges,
         share'.remain = share.remain, askedShare'.remain = askedShare.remain,
         share'.state = share.state \/ share'.state = "deleted"
  PROVE  Credits'
<1>1. \A q \in Request : Pending(q)' => Pending(q) /\ visit'[q].remain = visit[q].remain
  BY DEF NoneWaits
<1>2. Limits'
  BY <1>1 DEF Credits, Limits
<1>3. ASSUME Cardinality(Request) = 2, askedShare.remain # Unlimited
      PROVE  Budget'
  <2> DEFINE n == askedShare.remain
             m == Left
             k == Left'
  <2>1. Budget /\ askedShare'.remain = n
    BY <1>3 DEF Credits
  <2>2. n \in Nat /\ charges \in Nat /\ share.remain \in Nat
    BY <1>3 DEF Inv, ShareTrue, ShareRow, Credits, Limits
  <2>3. m \in Nat /\ k \in {m, 0}
    BY <2>2 DEF Left
  <2>4. \A r \in Request : Pending(r) => visit[r].remain \in Nat
    BY <1>3 DEF Inv, Requests, ShareRow, Credits, Limits
  <2>5. /\ Room(charges, m, m, n)
        /\ \A r \in Request : Pending(r) => Room(charges, m, visit[r].remain, n) /\ Room(charges, visit[r].remain, m, n)
        /\ \A r, q \in Request : r # q /\ Pending(r) /\ Pending(q) =>
             Room(charges, visit[r].remain, visit[q].remain, n)
    BY <2>1 DEF Budget, Fits
  <2> HIDE DEF n, m, k
  <2>6. Room(charges', k, k, n)
    BY <2>2, <2>3, <2>5, Save
  <2>7. ASSUME NEW r \in Request, Pending(r)'
        PROVE  Room(charges', k, visit'[r].remain, n) /\ Room(charges', visit'[r].remain, k, n)
    <3>1. Pending(r) /\ visit'[r].remain = visit[r].remain
      BY <1>1, <2>7
    <3> QED
      BY <2>2, <2>3, <2>4, <2>5, <3>1, Save
  <2>8. \A r, q \in Request : r # q /\ Pending(r)' /\ Pending(q)' =>
          Room(charges', visit'[r].remain, visit'[q].remain, n)
    BY <1>1, <2>5
  <2> QED
    BY <2>1, <2>6, <2>7, <2>8 DEF Budget, Fits, k
<1> QED
  BY <1>2, <1>3 DEF Credits

LEMMA LinksKept ==
  ASSUME Inv, Links, NoneReads, served' = served, link' = link \/ link' = "gone" \/ (link = "none" /\ link' = "live")
  PROVE  Links'
<1>1. Readers' \subseteq Readers
  BY DEF NoneReads
<1>2. IsFiniteSet(Readers)
  BY BoundsOk, FS_Subset DEF Readers
<1>3. Cardinality(Readers') <= Cardinality(Readers) /\ Cardinality(Readers) \in Nat /\ Cardinality(Readers') \in Nat
  BY <1>1, <1>2, FS_Subset, FS_CardinalityType
<1>4. Cardinality(Request) \in Nat /\ served \in Nat
  BY BoundsOk, FS_CardinalityType DEF Inv, ShareTrue
<1>5. served' + Cardinality(Readers') <= Cardinality(Request)
  BY <1>3, <1>4 DEF Links
<1> QED
  BY <1>5 DEF Links

LEMMA FinishSettles ==
  ASSUME Inv, NEW r \in Request, Finish(r),
         \A q \in Request \ {r} : req[q] # Idle => visit'[q] = visit[q]
  PROVE  Settled
<1>1. /\ req'[r] = Idle
      /\ \A q \in Request \ {r} : req'[q] = req[q]
  BY Finishes DEF Inv, Requests
<1>2. Calm(Idle)
  BY DEF Calm, Idle
<1> QED
  BY <1>1, <1>2, Settles

LEMMA MoveSettles ==
  ASSUME Inv, NEW r \in Request, NEW new, req' = [req EXCEPT ![r] = new], Calm(new),
         \A q \in Request \ {r} : req[q] # Idle => visit'[q] = visit[q]
  PROVE  Settled
<1>1. /\ req'[r] = new
      /\ \A q \in Request \ {r} : req'[q] = req[q]
  BY DEF Inv, Requests
<1>2. Calm(Idle)
  BY DEF Calm, Idle
<1> QED
  BY <1>1, <1>2, Settles

LEMMA AccountsSettle == ASSUME Inv, NoShareStep, AccountsNext PROVE Settled
<1>1. CASE Evict
  BY <1>1, Settles DEF Evict, NoShareStep, Calm, Idle
<1>2. ASSUME NEW r \in Request, Finish(r)
      PROVE  Settled
  <2>1. \A q \in Request \ {r} : req[q] # Idle => visit'[q] = visit[q]
    BY <1>2, Finishes DEF NoShareStep, Inv, Requests
  <2> QED
    BY <1>2, <2>1, FinishSettles
<1>3. ASSUME NEW r \in Request, NEW new, req' = [req EXCEPT ![r] = new], Calm(new)
      PROVE  Settled
  <2>1. \A q \in Request \ {r} : req[q] # Idle => visit'[q] = visit[q]
    BY <1>3 DEF NoShareStep, Inv, Requests
  <2> QED
    BY <1>3, <2>1, MoveSettles
<1>4. ASSUME NEW r \in Request, NEW c \in load.cookies, NEW op \in load.ops \ Internal, Begin(r, c, op)
      PROVE  Settled
  <2> DEFINE me  == CurrentUser(c)
             new == [Idle EXCEPT !.op = op, !.cookie = c, !.sess = session[c], !.me = me,
                                 !.of = IF op \in Admins \/ me = Nobody THEN None ELSE me,
                                 !.row = IF me \in User THEN user[me] ELSE NoRow]
  <2>1. req' = [req EXCEPT ![r] = new] /\ new.pc = "begun"
    BY <1>4 DEF Begin, Idle
  <2> HIDE DEF new
  <2> QED
    BY <1>3, <2>1 DEF Calm
<1>5. ASSUME NEW r \in Request, NEW op \in load.ops \cap Internal, BeginInternal(r, op)
      PROVE  Settled
  <2> DEFINE new == [Idle EXCEPT !.op = op]
  <2>1. req' = [req EXCEPT ![r] = new] /\ new.pc = "begun"
    BY <1>5 DEF BeginInternal, Idle
  <2> HIDE DEF new
  <2> QED
    BY <1>3, <2>1 DEF Calm
<1>6. ASSUME NEW r \in Request, SessionStep(r)
      PROVE  Settled
  <2>1. CASE CSRFInit(r) \/ GetCaptcha(r) \/ LoginSession(r) \/ SecondFactorSession(r) \/ UserSignOut(r)
    BY <1>2, <2>1 DEF CSRFInit, GetCaptcha, LoginSession, SecondFactorSession, UserSignOut
  <2>2. CASE CaptchaRequired(r)
    <3> DEFINE new == [req[r] EXCEPT !.pc = "read", !.sess.captcha = FALSE]
    <3>1. req' = [req EXCEPT ![r] = new] \/ Finish(r)
      BY <2>2, Zenon DEF CaptchaRequired, Finish
    <3>2. new.op = "login"
      BY <2>2 DEF CaptchaRequired, At, Inv, Requests, Req
    <3> HIDE DEF new
    <3>3. Calm(new) \/ Finish(r)
      <4>1. new.pc = "read"
        BY DEF new, Inv, Requests, Req
      <4> QED
        BY <3>2, <4>1 DEF Calm
    <3> QED
      BY <1>2, <1>3, <3>1, <3>3
  <2>3. CASE SecondFactor(r)
    <3> DEFINE new == [req[r] EXCEPT !.pc = "save", !.me = GetActivateUserByID(req[r].sess.twoFactor),
                                     !.sess.twoFactor = None]
    <3>1. req' = [req EXCEPT ![r] = new]
      BY <2>3, Zenon DEF SecondFactor
    <3>2. new.pc = "save"
      BY DEF Inv, Requests, Req
    <3> HIDE DEF new
    <3> QED
      BY <1>3, <3>1, <3>2 DEF Calm
  <2>4. ASSUME NEW u \in User, Login(r, u)
        PROVE  Settled
    <3> DEFINE new == [req[r] EXCEPT !.pc = "save", !.me = u, !.row = user[u]]
    <3>1. req' = [req EXCEPT ![r] = new]
      BY <2>4, Zenon DEF Login
    <3>2. new.pc = "save"
      BY DEF Inv, Requests, Req
    <3> HIDE DEF new
    <3> QED
      BY <1>3, <3>1, <3>2 DEF Calm
  <2> QED
    BY <1>6, <2>1, <2>2, <2>3, <2>4 DEF SessionStep
<1>7. ASSUME NEW r \in Request, SettingStep(r)
      PROVE  Settled
  BY <1>2, <1>7 DEF SettingStep, Enable2FA, UpdateOptions, RegisterAuthn, RemoveAuthn
<1>8. ASSUME NEW r \in Request, AdminStep(r)
      PROVE  Settled
  <2>1. ASSUME NEW u \in User, ReadUser(r, u)
        PROVE  Settled
    <3> DEFINE new == [req[r] EXCEPT !.pc = "read", !.of = u, !.row = user[u]]
    <3>1. req' = [req EXCEPT ![r] = new]
      BY <2>1, Zenon DEF ReadUser
    <3>2. new.pc = "read" /\ new.op # "download"
      BY <2>1 DEF ReadUser, Inv, Requests, Req
    <3> HIDE DEF new
    <3> QED
      BY <1>3, <3>1, <3>2 DEF Calm
  <2>2. ASSUME NEW g \in Group, CountUsers(r, g)
        PROVE  Settled
    <3> DEFINE new == [req[r] EXCEPT !.pc = "read", !.row.group = g]
    <3>1. req' = [req EXCEPT ![r] = new]
      BY <2>2, Zenon DEF CountUsers
    <3>2. new.pc = "read" /\ new.op # "download"
      BY <2>2 DEF CountUsers, At, Inv, Requests, Req
    <3> HIDE DEF new
    <3> QED
      BY <1>3, <3>1, <3>2 DEF Calm
  <2>3. CASE \/ \E g \in Group : \/ \E status \in {"active", "banned"} : SaveUser(r, status, g)
                                 \/ \E u \in User : AddUser(r, u, g)
             \/ Ban(r) \/ DeleteUser(r) \/ DeleteGroup(r)
    BY <1>2, <2>3 DEF SaveUser, AddUser, Ban, DeleteUser, DeleteGroup
  <2> QED
    BY <1>8, <2>1, <2>2, <2>3 DEF AdminStep
<1>9. ASSUME NEW r \in Request, PolicyStep(r)
      PROVE  Settled
  <2>1. CASE GetPolicyByID(r)
    <3> DEFINE new == [req[r] EXCEPT !.pc = "save", !.seen = version]
    <3>1. req' = [req EXCEPT ![r] = new] \/ Finish(r)
      BY <2>1, Zenon DEF GetPolicyByID
    <3>2. new.pc = "save"
      BY DEF Inv, Requests, Req
    <3> HIDE DEF new
    <3> QED
      BY <1>2, <1>3, <3>1, <3>2 DEF Calm
  <2>2. CASE SavePolicy(r)
    <3> DEFINE new == [req[r] EXCEPT !.pc = "clean"]
    <3>1. req' = [req EXCEPT ![r] = new]
      BY <2>2 DEF SavePolicy, Step
    <3>2. new.pc = "clean"
      BY DEF Inv, Requests, Req
    <3> HIDE DEF new
    <3> QED
      BY <1>3, <3>1, <3>2 DEF Calm
  <2>3. CASE CachePolicy(r) \/ CleanCache(r)
    BY <1>2, <2>3 DEF CachePolicy, CleanCache
  <2> QED
    BY <1>9, <2>1, <2>2, <2>3 DEF PolicyStep
<1>10. ASSUME NEW r \in Request,
              Refuse(r) \/ (\E u \in User : Register(r, u)) \/ (\E u \in Members : ChangeStorage(r, u))
       PROVE  Settled
  BY <1>2, <1>10 DEF Refuse, Register, ChangeStorage
<1> QED
  BY <1>1, <1>4, <1>5, <1>6, <1>7, <1>8, <1>9, <1>10 DEF AccountsNext

-----------------------------------------------------------------------------
(* The steps of Shares that spend nothing.                                  *)
LEMMA StepSettles ==
  ASSUME Inv, NEW r \in Request, NEW pc \in {"read", "save", "charged", "sweep"}, Step(r, pc),
         req[r].op # "download", visit' = visit
  PROVE  Settled
<1>1. /\ req'[r] = [req[r] EXCEPT !.pc = pc]
      /\ \A q \in Request \ {r} : req'[q] = req[q]
  BY DEF Step, Inv, Requests
<1>2. Calm(req'[r])
  BY <1>1 DEF Calm, Inv, Requests, Req
<1> QED
  BY <1>1, <1>2, Settles

LEMMA LeaveSettles == ASSUME Inv, NEW r \in Request, Leave(r) PROVE Settled
<1>1. /\ req'[r] = Idle
      /\ \A q \in Request \ {r} : req'[q] = req[q] /\ visit'[q] = visit[q]
  BY Finishes DEF Inv, Requests, Leave
<1>2. Calm(Idle)
  BY DEF Calm, Idle
<1> QED
  BY <1>1, <1>2, Settles

(* What the owner and time do to the row leaves its counter as it is.       *)
SameCounter ==
  /\ charges' = charges
  /\ share'.remain = share.remain /\ askedShare'.remain = askedShare.remain
  /\ share'.state = share.state \/ share'.state = "deleted"

SameLink == served' = served /\ (link' = link \/ link' = "gone" \/ (link = "none" /\ link' = "live"))

Spends == Credits /\ Links

LEMMA NothingSpent == ASSUME Inv, Spends, Settled, SameCounter, SameLink PROVE Spends'
  BY CreditsKept, LinksKept DEF Spends, Settled, SameCounter, SameLink

LEMMA OwnerSpendsNothing ==
  ASSUME Inv, NEW change, UpdateShare(change, change), charges' = charges,
         \/ change = [state |-> "deleted"]
         \/ \E p \in Password \cup {Open} : change = [pass |-> p]
         \/ \E p \in BOOLEAN : change = [preview |-> p]
  PROVE  SameCounter
<1>1. share \in ShareRow /\ askedShare \in ShareRow
  BY DEF Inv, ShareTrue
<1>2. CASE share.state # "live"
  BY <1>2 DEF UpdateShare, shareRows, SameCounter
<1>3. CASE share.state = "live"
  <2>1. share' = With(share, change) /\ askedShare' = With(askedShare, change)
    BY <1>3 DEF UpdateShare
  <2>2. CASE change = [state |-> "deleted"]
    <3>1. share' = [share EXCEPT !.state = "deleted"] /\ askedShare' = [askedShare EXCEPT !.state = "deleted"]
      BY <1>1, <2>1, <2>2, WithShare
    <3> QED
      BY <1>1, <3>1 DEF ShareRow, SameCounter
  <2>3. ASSUME NEW p \in Password \cup {Open}, change = [pass |-> p]
        PROVE  SameCounter
    <3>1. share' = [share EXCEPT !.pass = p] /\ askedShare' = [askedShare EXCEPT !.pass = p]
      BY <1>1, <2>1, <2>3, WithShare
    <3> QED
      BY <1>1, <3>1 DEF ShareRow, SameCounter
  <2>4. ASSUME NEW p \in BOOLEAN, change = [preview |-> p]
        PROVE  SameCounter
    <3>1. share' = [share EXCEPT !.preview = p] /\ askedShare' = [askedShare EXCEPT !.preview = p]
      BY <1>1, <2>1, <2>4, WithShare
    <3> QED
      BY <1>1, <3>1 DEF ShareRow, SameCounter
  <2> QED
    BY <2>2, <2>3, <2>4
<1> QED
  BY <1>2, <1>3

LEMMA OwnerSpends ==
  ASSUME Inv, Spends, NEW r \in Request, ShareOwnerStep(r)
  PROVE  Spends'
<1>1. CASE FindSource(r)
  <2>1. Settled
    BY <1>1, StepSettles DEF FindSource, At, shareVars
  <2> QED
    BY <1>1, <2>1, NothingSpent DEF FindSource, shareVars, shareRows, SameCounter, SameLink
<1>2. CASE DeleteSource(r)
  <2>1. Settled
    BY <1>2, StepSettles DEF DeleteSource, At
  <2> QED
    BY <1>2, <2>1, NothingSpent DEF DeleteSource, shareRows, SameCounter, SameLink
<1>3. CASE DeleteShare(r) \/ DeleteShareBySourceIDs(r)
  <2>1. Settled
    BY <1>3, LeaveSettles DEF DeleteShare, DeleteShareBySourceIDs
  <2>2. SameCounter
    BY <1>3, OwnerSpendsNothing DEF DeleteShare, DeleteShareBySourceIDs
  <2> QED
    BY <1>3, <2>1, <2>2, NothingSpent DEF DeleteShare, DeleteShareBySourceIDs, SameLink
<1>4. ASSUME NEW change, EditShare(r, change),
             \/ \E p \in Password \cup {Open} : change = [pass |-> p]
             \/ \E p \in BOOLEAN : change = [preview |-> p]
      PROVE  Spends'
  <2>1. Settled
    BY <1>4, LeaveSettles DEF EditShare
  <2>2. SameCounter
    BY <1>4, OwnerSpendsNothing DEF EditShare
  <2> QED
    BY <1>4, <2>1, <2>2, NothingSpent DEF EditShare, SameLink
<1>5. ASSUME NEW pass \in Password \cup {Open}, NEW limit \in (1..Limit) \cup {Unlimited},
             NEW preview \in BOOLEAN, CreateShare(r, pass, limit, preview)
      PROVE  Spends'
  <2>1. Settled
    BY <1>5, LeaveSettles DEF CreateShare
  <2>2. Links'
    BY <1>5, <2>1, LinksKept DEF CreateShare, Settled, Spends
  <2>3. /\ share'.state = "live" /\ share'.remain = limit /\ askedShare'.remain = limit
        /\ charges' = charges /\ share.state = "none"
    BY <1>5 DEF CreateShare
  <2>4. \A q \in Request : ~Pending(q)'
    BY <2>1, <2>3 DEF Settled, NoneWaits, Spends, Credits, Limits
  <2>5. charges = 0
    BY <2>3 DEF Spends, Credits, Limits
  <2>6. Limits'
    BY <2>3, <2>4, <2>5 DEF Limits
  <2>7. ASSUME limit # Unlimited
        PROVE  Budget'
    <3>1. limit \in Nat
      BY <2>7, LimitOk
    <3>2. 2 * 0 + limit * (limit + 1) + 2 * limit <= limit * (limit + 3)
      BY <3>1
    <3>3. Room(charges', limit, limit, limit)
      BY <2>3, <2>5, <3>2 DEF Room
    <3>4. Left' = limit
      BY <2>3 DEF Left
    <3> QED
      BY <2>3, <2>4, <3>3, <3>4 DEF Budget, Fits
  <2> QED
    BY <2>2, <2>3, <2>6, <2>7 DEF Spends, Credits
<1> QED
  BY <1>1, <1>2, <1>3, <1>4, <1>5 DEF ShareOwnerStep

-----------------------------------------------------------------------------
(* A visitor copies the row.                                                *)
LEMMA AvailableSpends == ASSUME Inv, Spends, NEW r \in Request, ShareAvailable(r) PROVE Spends'
<1>1. /\ req[r].pc = "begun" /\ share.state = "live" /\ Step(r, "available")
      /\ visit' = [visit EXCEPT ![r] = share]
      /\ UNCHANGED <<shareRows, charges, link, served>>
  BY DEF ShareAvailable, IsAvailable
<1>2. /\ req'[r] = [req[r] EXCEPT !.pc = "available"]
      /\ \A q \in Request \ {r} : req'[q] = req[q] /\ visit'[q] = visit[q]
      /\ visit'[r] = share
  BY <1>1, Steps DEF Pcs, Inv, Requests
<1>3. req'[r].pc = "available"
  BY <1>2 DEF Inv, Requests, Req
<1>4. NoneReads
  BY <1>2, <1>3 DEF NoneReads, Readers, At
<1>5. Links'
  BY <1>1, <1>4, LinksKept DEF Spends
<1>6. \A q \in Request : Pending(q)' => \/ q = r /\ visit'[q].remain = share.remain
                                        \/ q # r /\ Pending(q) /\ visit'[q].remain = visit[q].remain
  BY <1>2 DEF Pending
<1>7. share' = share /\ askedShare' = askedShare /\ charges' = charges /\ Left = share.remain /\ Left' = share.remain
  BY <1>1 DEF shareRows, Left
<1>8. Limits'
  BY <1>1, <1>6, <1>7 DEF Limits, Spends, Credits
<1>9. Budget => Budget'
  BY <1>6, <1>7 DEF Budget, Fits
<1> QED
  BY <1>5, <1>7, <1>8, <1>9 DEF Spends, Credits

LEMMA UnlockedSpends == ASSUME Inv, Spends, NEW r \in Request, CheckShareUnlocked(r) PROVE Spends'
<1>1. /\ req[r].pc = "available" /\ Step(r, "unlocked") /\ visit' = visit
      /\ UNCHANGED <<shareRows, charges, link, served>>
  BY DEF CheckShareUnlocked, shareVars
<1>2. /\ req'[r] = [req[r] EXCEPT !.pc = "unlocked"]
      /\ \A q \in Request \ {r} : req'[q] = req[q]
  BY <1>1, Steps DEF Pcs, Inv, Requests
<1>3. req'[r].pc = "unlocked" /\ req'[r].op = req[r].op
  BY <1>2 DEF Inv, Requests, Req
<1>4. NoneReads
  BY <1>2, <1>3 DEF NoneReads, Readers, At
<1>5. NoneWaits
  BY <1>1, <1>2, <1>3 DEF NoneWaits, Pending
<1> QED
  BY <1>1, <1>4, <1>5, NothingSpent DEF Settled, SameCounter, SameLink, shareRows

(* ... and is charged.                                                      *)
LEMMA ChargeSpends == ASSUME Inv, Spends, NEW r \in Request, ChargeDownload(r) PROVE Spends'
<1> DEFINE v    == visit[r].remain
           left == IF v = Unlimited THEN Unlimited ELSE v - 1
           n    == askedShare.remain
<1>1. /\ req[r].op \in Charged /\ req[r].pc = "unlocked" /\ UpdateShare([remain |-> left], <<>>)
      /\ charges' = IF v = Unlimited THEN charges ELSE charges + 1
      /\ Step(r, "save") /\ visit' = visit /\ UNCHANGED <<link, served>>
  BY DEF ChargeDownload, Downloaded
<1>2. Pending(r) /\ v # 0 /\ v \in (0..Limit) \cup {Unlimited}
  BY <1>1 DEF Pending, Inv, Whole, Copies, ShareCopy, Requests, ShareRow
<1>3. Settled
  <2>1. req[r].op # "download"
    BY <1>1 DEF Charged
  <2> QED
    BY <1>1, <2>1, StepSettles
<1>4. ~Pending(r)' /\ \A q \in Request : Pending(q)' => Pending(q) /\ visit'[q].remain = visit[q].remain /\ q # r
  <2>1. req'[r].pc = "save"
    BY <1>1 DEF Step, Inv, Requests, Req
  <2> QED
    BY <1>3, <2>1 DEF Settled, NoneWaits, Pending
<1>5. Links'
  BY <1>1, <1>3, LinksKept DEF Spends, Settled
<1>6. v = Unlimited <=> n = Unlimited
  BY <1>2 DEF Spends, Credits, Limits
<1> HIDE DEF left
<1>7. /\ askedShare' = askedShare /\ share'.state = share.state
      /\ share'.remain = IF share.state = "live" THEN left ELSE share.remain
  <2>1. share \in ShareRow /\ askedShare \in ShareRow
    BY DEF Inv, ShareTrue
  <2>2. CASE share.state # "live"
    BY <1>1, <2>2 DEF UpdateShare, shareRows
  <2>3. CASE share.state = "live"
    <3>1. share' = With(share, [remain |-> left]) /\ askedShare' = With(askedShare, <<>>)
      BY <1>1, <2>3 DEF UpdateShare
    <3>2. share' = [share EXCEPT !.remain = left] /\ askedShare' = askedShare
      BY <2>1, <3>1, WithShare
    <3> QED
      BY <2>1, <2>3, <3>2 DEF ShareRow
  <2> QED BY <2>2, <2>3
<1>8. left = Unlimited <=> n = Unlimited
  BY <1>2, <1>6, LimitOk DEF left
<1>9. Limits'
  <2>1. share'.state # "none"
    BY <1>2, <1>7 DEF Spends, Credits, Limits
  <2>2. share'.remain = Unlimited <=> askedShare'.remain = Unlimited
    BY <1>7, <1>8 DEF Spends, Credits, Limits
  <2>3. askedShare'.remain = Unlimited => charges' = 0
    BY <1>1, <1>6, <1>7 DEF Spends, Credits, Limits
  <2>4. \A q \in Request : Pending(q)' => (visit'[q].remain = Unlimited <=> askedShare'.remain = Unlimited)
    BY <1>4, <1>7 DEF Spends, Credits, Limits
  <2> QED
    BY <2>1, <2>2, <2>3, <2>4 DEF Limits
<1>10. ASSUME Cardinality(Request) = 2, n # Unlimited
       PROVE  Budget'
  <2> DEFINE l == Left'
             m == Left
  <2>1. /\ n \in Nat /\ charges \in Nat /\ v \in Nat \ {0} /\ charges' = charges + 1
        /\ share.remain \in Nat /\ m \in Nat
    BY <1>1, <1>2, <1>6, <1>10, LimitOk DEF Inv, ShareTrue, ShareRow, Spends, Credits, Limits, Left
  <2>2. l \in {0, v - 1}
    BY <1>6, <1>7, <1>10 DEF Left, left
  <2>3. Room(charges, v, m, n)
    BY <1>2, <1>10 DEF Spends, Credits, Budget, Fits
  <2> HIDE DEF l, m
  <2>4. Room(charges', l, l, n)
    BY <2>1, <2>2, <2>3, Spend
  <2>5. ASSUME NEW q \in Request, Pending(q)'
        PROVE  Room(charges', l, visit'[q].remain, n) /\ Room(charges', visit'[q].remain, l, n)
    <3>1. Pending(q) /\ visit'[q].remain = visit[q].remain /\ q # r
      BY <1>4, <2>5
    <3>2. Room(charges, v, visit[q].remain, n) /\ Room(charges, visit[q].remain, v, n)
      BY <1>2, <1>10, <3>1 DEF Spends, Credits, Budget, Fits
    <3>3. visit[q].remain \in Nat
      BY <1>10, <3>1 DEF Inv, Requests, ShareRow, Spends, Credits, Limits
    <3> HIDE DEF v, n
    <3> QED
      BY <2>1, <2>2, <3>1, <3>2, <3>3, Spend
  <2>6. ASSUME NEW p \in Request, NEW q \in Request, p # q, Pending(p)', Pending(q)'
        PROVE  FALSE
    <3>1. p # r /\ q # r
      BY <1>4, <2>6
    <3>2. {p, q, r} \subseteq Request /\ Cardinality({p, q, r}) = 3
      <4>1. Cardinality({r}) = 1 /\ IsFiniteSet({r})
        BY FS_Singleton, Zenon
      <4>2. Cardinality({r} \cup {q}) = 2 /\ IsFiniteSet({r} \cup {q})
        <5>1. /\ IsFiniteSet({r} \cup {q})
              /\ Cardinality({r} \cup {q}) = IF q \in {r} THEN Cardinality({r}) ELSE Cardinality({r}) + 1
          BY <4>1, FS_AddElement, Zenon
        <5> QED
          BY <3>1, <4>1, <5>1
      <4>3. Cardinality(({r} \cup {q}) \cup {p}) = 3
        BY <2>6, <3>1, <4>2, FS_AddElement
      <4>4. ({r} \cup {q}) \cup {p} = {p, q, r}
        OBVIOUS
      <4> QED
        BY <4>3, <4>4
    <3>3. 3 <= Cardinality(Request)
      BY <3>2, BoundsOk, FS_Subset
    <3> QED
      BY <1>10, <3>3
  <2> QED
    BY <1>7, <2>4, <2>5, <2>6 DEF Budget, Fits, l
<1> QED
  BY <1>5, <1>7, <1>9, <1>10 DEF Spends, Credits

-----------------------------------------------------------------------------
(* The link.                                                                *)
LEMMA FindLinkSpends == ASSUME Inv, Spends, NEW r \in Request, FindLink(r) PROVE Spends'
<1>1. /\ req[r].pc = "begun" /\ link = "live" /\ Step(r, "read") /\ visit' = visit
      /\ UNCHANGED <<shareRows, charges, link, served>>
  BY DEF FindLink, At, shareVars
<1>2. /\ req'[r] = [req[r] EXCEPT !.pc = "read"]
      /\ \A q \in Request \ {r} : req'[q] = req[q]
  BY <1>1, Steps DEF Pcs, Inv, Requests
<1>3. req'[r].pc = "read"
  BY <1>2 DEF Inv, Requests, Req
<1>4. NoneWaits
  BY <1>1, <1>2, <1>3 DEF NoneWaits, Pending
<1>5. Credits'
  BY <1>1, <1>4, CreditsKept DEF Spends, shareRows
<1>6. served = 0 /\ served' = 0
  BY <1>1 DEF Spends, Links
<1>7. Cardinality(Readers') <= Cardinality(Request) /\ Cardinality(Readers') \in Nat
  <2>1. Readers' \subseteq Request
    BY DEF Readers
  <2> QED
    BY <2>1, BoundsOk, FS_Subset, FS_CardinalityType
<1>8. Links'
  BY <1>1, <1>6, <1>7 DEF Links
<1> QED
  BY <1>5, <1>8 DEF Spends

LEMMA ServeLinkSpends == ASSUME Inv, Spends, NEW r \in Request, ServeLink(r) PROVE Spends'
<1>1. /\ At(r, "download", "read") /\ Leave(r) /\ link' \in {link, "gone"}
      /\ served' = served \/ (served' = served + 1 /\ link' = "gone")
      /\ UNCHANGED <<shareRows, charges>>
  BY DEF ServeLink, LinkAfter
<1>2. Settled
  BY <1>1, LeaveSettles
<1>3. Credits'
  BY <1>1, <1>2, CreditsKept DEF Spends, Settled, shareRows
<1>4. r \in Readers /\ Readers' \subseteq Readers \ {r}
  <2>1. req'[r] = Idle
    BY <1>1, Finishes DEF Leave, Inv, Requests
  <2> QED
    BY <1>1, <1>2, <2>1 DEF Settled, NoneReads, Readers, At, Idle
<1>5. IsFiniteSet(Readers)
  BY BoundsOk, FS_Subset DEF Readers
<1>6. Cardinality(Readers \ {r}) = Cardinality(Readers) - 1 /\ IsFiniteSet(Readers \ {r})
  BY <1>4, <1>5, FS_RemoveElement
<1>7. /\ Cardinality(Readers') <= Cardinality(Readers) - 1
      /\ Cardinality(Readers) \in Nat /\ Cardinality(Readers') \in Nat
  <2>1. Cardinality(Readers') <= Cardinality(Readers \ {r}) /\ IsFiniteSet(Readers')
    BY <1>4, <1>6, FS_Subset
  <2> QED
    BY <1>5, <1>6, <2>1, FS_CardinalityType
<1>8. served \in Nat /\ Cardinality(Request) \in Nat
  BY BoundsOk, FS_CardinalityType DEF Inv, ShareTrue
<1>9. served' + Cardinality(Readers') <= Cardinality(Request)
  BY <1>1, <1>7, <1>8 DEF Spends, Links
<1>10. link' # "gone" => served' = 0
  BY <1>1 DEF Spends, Links
<1> QED
  BY <1>3, <1>9, <1>10 DEF Spends, Links

LEMMA VisitSpends ==
  ASSUME Inv, Spends, NEW r \in Request, VisitStep(r)
  PROVE  Spends'
<1>1. CASE ShareAvailable(r) \/ CheckShareUnlocked(r) \/ ChargeDownload(r) \/ FindLink(r) \/ ServeLink(r)
  BY <1>1, AvailableSpends, UnlockedSpends, ChargeSpends, FindLinkSpends, ServeLinkSpends
<1>2. CASE UnlockShare(r)
  <2>1. /\ req'[r] = Idle
        /\ \A q \in Request \ {r} : req'[q] = req[q] /\ visit'[q] = visit[q]
    BY <1>2, Finishes DEF UnlockShare, Inv, Requests
  <2>2. Settled
    BY <2>1, Settles DEF Calm, Idle
  <2> QED
    BY <1>2, <2>2, NothingSpent DEF UnlockShare, SameCounter, SameLink, shareRows
<1>3. CASE RememberDownload(r)
  <2>1. Step(r, "charged") /\ req[r].op # "download" /\ visit' = visit
    BY <1>3 DEF RememberDownload, Charged
  <2>2. Settled
    BY <2>1, StepSettles
  <2> QED
    BY <1>3, <2>2, NothingSpent DEF RememberDownload, SameCounter, SameLink, shareRows
<1>4. CASE DownloadAgain(r)
  <2>1. Step(r, "charged") /\ req[r].op # "download" /\ visit' = visit
    BY <1>4 DEF DownloadAgain, Charged, shareVars
  <2>2. Settled
    BY <2>1, StepSettles
  <2> QED
    BY <1>4, <2>2, NothingSpent DEF DownloadAgain, SameCounter, SameLink, shareVars, shareRows
<1>5. CASE ShowShare(r)
  BY <1>5, LeaveSettles, NothingSpent DEF ShowShare, SameCounter, SameLink, shareRows
<1>6. CASE CreateDownloadSession(r)
  BY <1>6, LeaveSettles, NothingSpent DEF CreateDownloadSession, SameCounter, SameLink, shareRows
<1> QED
  BY <1>1, <1>2, <1>3, <1>4, <1>5, <1>6 DEF VisitStep

LEMMA NextSpends == ASSUME Inv, Spends, [Next]_vars PROVE Spends'
<1>1. CASE AccountsNext /\ NoShareStep
  <2>1. Settled
    BY <1>1, AccountsSettle
  <2> QED
    BY <1>1, <2>1, NothingSpent DEF NoShareStep, SameCounter, SameLink, shareRows
<1>2. CASE \E r \in Request : ShareOwnerStep(r) \/ VisitStep(r)
  BY <1>2, OwnerSpends, VisitSpends
<1>3. CASE Expire \/ ForgetLink \/ (\E u \in User : ForgetUser(u)) \/ (\E c \in Cookie : ForgetSession(c))
           \/ UNCHANGED vars
  <2>1. req' = req /\ visit' = visit
    BY <1>3 DEF Expire, ForgetLink, ForgetUser, ForgetSession, accountVars, vars, shareVars
  <2>2. Settled
    BY <2>1, Settles
  <2>3. share \in ShareRow /\ askedShare \in ShareRow
    BY DEF Inv, ShareTrue
  <2>4. SameCounter
    BY <1>3, <2>3 DEF Expire, ForgetLink, ForgetUser, ForgetSession, accountVars, vars, shareVars, shareRows,
       SameCounter, ShareRow
  <2>5. SameLink
    BY <1>3 DEF Expire, ForgetLink, ForgetUser, ForgetSession, vars, shareVars, SameLink
  <2> QED
    BY <2>2, <2>4, <2>5, NothingSpent
<1> QED
  BY <1>1, <1>2, <1>3 DEF Next, NoShareStep

LEMMA InitSpends == Init => Spends
<1> SUFFICES ASSUME Init PROVE Spends
  OBVIOUS
<1>1. /\ \A r \in Request : req[r] = Idle
      /\ share = NoShare /\ askedShare = NoShare /\ charges = 0 /\ link = "none" /\ served = 0
  BY DEF Init, AccountsInit
<1>2. Credits
  BY <1>1 DEF Credits, Limits, Pending, Idle, NoShare
<1>3. Readers = {}
  BY <1>1 DEF Readers, At, Idle
<1>4. Cardinality(Readers) = 0 /\ Cardinality(Request) \in Nat
  BY <1>3, BoundsOk, FS_EmptySet, FS_CardinalityType
<1> QED
  BY <1>1, <1>2, <1>4 DEF Spends, Links

(* Two handlers charge a share with limit n at most n(n+3)/2 times, however *)
(* their copies of its counter interleave (Share.Downloaded), and a one-time*)
(* link serves no more requests than had looked it up before the first of   *)
(* them took it away (Download).                                            *)
THEOREM CreditsAreBounded == Spec => []CreditsBound
<1>1. Init => Inv /\ Spends
  BY InitInv, InitSpends
<1>2. (Inv /\ Spends) /\ [Next]_vars => (Inv /\ Spends)'
  BY NextInv, NextSpends
<1>3. Inv /\ Spends => CreditsBound
  BY Bounds DEF Spends
<1> QED
  BY <1>1, <1>2, <1>3, PTL DEF Spec
=============================================================================
