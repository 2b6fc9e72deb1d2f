------------------------------ MODULE Accounts ------------------------------
(***************************************************************************)
(* What HTTP requests do to the rows of users, groups and policies, to the *)
(* sessions of the browsers and to the cache of policies.                  *)
(*                                                                         *)
(* A request works on copies.  The session store gives it the whole        *)
(* session when it first looks at it, and Save writes the whole session    *)
(* back.  A row is read once, and is written back as a whole (Save), by    *)
(* column (Update), or as one column that holds a whole JSON document.     *)
(*                                                                         *)
(* Columns and session keys that no step reads are left out (nick, theme   *)
(* and home page are the options, the others act like them or less).       *)
(***************************************************************************)
EXTENDS Naturals, FiniteSets

CONSTANTS
  User,         \* rows of table users
  Root,         \* the initial user, id 1
  Members,      \* users who registered earlier
  Protected,    \* those of them with a second factor
  Group,        \* rows of table groups
  AdminGroup,   \* id 1
  DefaultGroup, \* setting default_group, a system group too
  Cookie,       \* browsers
  Request,      \* handlers that may run at the same time
  Captcha,      \* setting login_captcha
  EmailActive,  \* setting email_active
  Option,       \* of a user: profile_off, preferred_theme
  Key,          \* WebAuthn credentials
  Loads,        \* what clients do in one behaviour: kinds of requests, and the
                \* browsers that send them
  MaxStorage,   \* bound of the storage charged to a user
  MaxVersion,   \* bound of the versions of the policy's row
  None, Nobody  \* no user; the empty User that a lookup without a row leaves

SignedIn == {"signOut", "enable2fa", "option", "addKey", "removeKey",
             "createShare", "editShare", "deleteShare", "deleteSource"}
Admins   == {"edit", "ban", "delete", "deleteGroup", "savePolicy"}
(* Not requests of a browser: the storage counter and policies are used by  *)
(* every transfer.                                                          *)
Internal == {"charge", "getPolicy", "newKey"}
(* Routes without a user, the visits to a share (Shares) among them.         *)
Public   == {"config", "captcha", "login", "2fa", "register",
             "getShare", "preview", "content", "info", "list", "thumb", "download"}
Op       == {"idle"} \cup SignedIn \cup Admins \cup Internal \cup Public

ASSUME UsersOk == Root \in User /\ Members \subseteq User \ {Root} /\ Protected \subseteq Members
                 /\ {None, Nobody} \cap User = {} /\ None # Nobody
ASSUME GroupsOk == {AdminGroup, DefaultGroup} \subseteq Group
ASSUME SettingsOk == {Captcha, EmailActive} \subseteq BOOLEAN
ASSUME LoadsOk == \A l \in Loads : l.ops \subseteq Op \ {"idle"} /\ l.cookies \subseteq Cookie
ASSUME BoundsOk == {MaxStorage, MaxVersion} \subseteq Nat /\ None \notin Cookie /\ IsFiniteSet(Request)

VARIABLES
  load,     \* the requests made in this behaviour
  user,     \* table users
  groups,   \* table groups
  session,  \* the session store
  version,  \* version of the policy's row
  cached,   \* version that the cache has of it
  req,      \* progress and copies of each handler
  askedUser, askedSession, \* the rows and sessions, had each update been made
                           \* to what the one before it left
  stale,    \* copies of handlers that are older than what they copy
  lost      \* what was overwritten from such a copy

rows  == <<user, askedUser>>
sessions == <<session, askedSession>>
policies == <<version, cached>>
accountVars == <<load, user, groups, session, version, cached, req,
                 askedUser, askedSession, stale, lost>>

-----------------------------------------------------------------------------
Row == [status    : {"absent", "active", "notActivated", "banned", "deleted"},
        group     : Group,
        storage   : 0..MaxStorage,
        twoFactor : BOOLEAN,
        options   : SUBSET Option,
        keys      : SUBSET Key]
Column == {"status", "group", "storage", "twoFactor", "options", "keys"}

NoRow == [status |-> "absent", group |-> DefaultGroup, storage |-> 0,
          twoFactor |-> FALSE, options |-> {}, keys |-> {}]

(* unlocked and charged are the keys share_unlock_<id> and share_<id>_0.    *)
Session == [user : User \cup {None, Nobody}, twoFactor : User \cup {None},
            captcha : BOOLEAN, unlocked : BOOLEAN, charged : BOOLEAN]
NoSession == [user |-> None, twoFactor |-> None, captcha |-> FALSE,
              unlocked |-> FALSE, charged |-> FALSE]

(* me is the user in the context, of the row that row copies.               *)
Req == [op : Op, pc : {"begun", "read", "save", "clean", "available", "unlocked", "charged", "sweep"},
        cookie : Cookie \cup {None}, sess : Session,
        me : User \cup {None, Nobody}, of : User \cup {None}, row : Row,
        seen : 0..MaxVersion]
Idle == [op |-> "idle", pc |-> "begun", cookie |-> None, sess |-> NoSession,
         me |-> None, of |-> None, row |-> NoRow, seen |-> 0]

AccountsInit ==
  /\ load \in Loads
  /\ user = [u \in User |->
               [NoRow EXCEPT !.status = IF u \in Members \cup {Root} THEN "active" ELSE "absent",
                             !.group  = IF u = Root THEN AdminGroup ELSE DefaultGroup,
                             !.twoFactor = u \in Protected]]
  /\ groups = Group
  /\ session \in {[c \in Cookie |-> [NoSession EXCEPT !.user = as[c]]] :
                   as \in {f \in [Cookie -> Members \cup {Root, None}] :
                             \A c \in Cookie \ load.cookies : f[c] = None}}
  /\ version = 0 /\ cached = {}
  /\ req = [r \in Request |-> Idle]
  /\ askedUser = user /\ askedSession = session
  /\ stale = {} /\ lost = {}

-----------------------------------------------------------------------------
At(r, op, pc) == req[r].op = op /\ req[r].pc = pc
Finish(r)     == req' = [req EXCEPT ![r] = Idle]
Step(r, pc)   == req' = [req EXCEPT ![r].pc = pc]

(* GetActivateUserByID: Find gives an empty user and no error.              *)
GetActivateUserByID(u) == IF u \in User /\ user[u].status = "active" THEN u ELSE Nobody

Exists(u) == user[u].status \notin {"absent", "deleted"}

(* middleware.CurrentUser.                                                  *)
CurrentUser(c) == IF session[c].user = None THEN None ELSE GetActivateUserByID(session[c].user)

IsAdmin(u) == u \in User /\ (user[u].group = AdminGroup \/ u = Root)

(* The copies that handlers have of a session, or of columns of a row.      *)
Holders(r, c)       == {<<q, "session">> : q \in {q \in Request \ {r} : req[q].cookie = c}}
RowHolders(r, u, cols) == {q \in Request \ {r} : req[q].of = u} \X cols

(* Copies that are older than their original, once r has ended or read anew *)
(* and made those in made old.                                              *)
Others(r, made) == {x \in stale : x[1] # r} \cup made

(* The fields in change are set, the others stay as they are in old.        *)
With(old, change) == [x \in DOMAIN old |-> IF x \in DOMAIN change THEN change[x] ELSE old[x]]

(* sessions.Save after Set or Delete of the keys in change.                 *)
SaveSession(r, change) ==
  LET c == req[r].cookie
  IN  /\ session' = [session EXCEPT ![c] = With(req[r].sess, change)]
      /\ askedSession' = [askedSession EXCEPT ![c] = With(@, change)]
      /\ lost' = IF <<r, "session">> \in stale THEN lost \cup {<<c, "session">>} ELSE lost
      /\ stale' = Others(r, Holders(r, c))

(* UPDATE of the columns in change, from what the row now holds.            *)
Update(r, u, change) ==
  IF ~Exists(u)
    THEN stale' = Others(r, {}) /\ UNCHANGED rows
    ELSE /\ user' = [user EXCEPT ![u] = With(@, change)]
         /\ askedUser' = [askedUser EXCEPT ![u] = With(@, change)]
         /\ stale' = Others(r, RowHolders(r, u, DOMAIN change))

(* A column is overwritten with a document made from the copy.              *)
UpdateDocument(r, u, col, new, asked) ==
  IF ~Exists(u)
    THEN stale' = Others(r, {}) /\ UNCHANGED <<user, askedUser, lost>>
    ELSE /\ user' = [user EXCEPT ![u][col] = new]
         /\ askedUser' = [askedUser EXCEPT ![u][col] = asked]
         /\ stale' = Others(r, RowHolders(r, u, {col}))
         /\ lost' = IF <<r, col>> \in stale THEN lost \cup {<<u, col>>} ELSE lost

(* gorm's Save: all columns, inserting the row again if it has gone.        *)
SaveRow(r, u, change) ==
  /\ user' = [user EXCEPT ![u] = With(req[r].row, change)]
  /\ askedUser' = [askedUser EXCEPT ![u] = With(@, change)]
  /\ stale' = Others(r, RowHolders(r, u, Column))
  /\ lost' = lost \cup {<<u, col>> : col \in {col \in Column \ DOMAIN change : <<r, col>> \in stale}}

PutRow(u, row) ==
  /\ user' = [user EXCEPT ![u] = row]
  /\ askedUser' = [askedUser EXCEPT ![u] = row]

-----------------------------------------------------------------------------
(* A request begins: the session is loaded and the current user looked up,  *)
(* then AuthRequired and IsAdmin.                                           *)
Begin(r, c, op) ==
  /\ req[r] = Idle
  /\ LET me == CurrentUser(c)
     IN  /\ op \in SignedIn \cup Admins => me # None
         /\ op \in Admins => IsAdmin(me)
         /\ req' = [req EXCEPT ![r] =
                      [Idle EXCEPT !.op = op, !.cookie = c, !.sess = session[c], !.me = me,
                                   !.of = IF op \in Admins \/ me = Nobody THEN None ELSE me,
                                   !.row = IF me \in User THEN user[me] ELSE NoRow]]
  /\ stale' = Others(r, {})
  /\ UNCHANGED <<load, rows, groups, sessions, policies, lost>>

BeginInternal(r, op) ==
  /\ req[r] = Idle
  /\ req' = [req EXCEPT ![r] = [Idle EXCEPT !.op = op]]
  /\ stale' = Others(r, {})
  /\ UNCHANGED <<load, rows, groups, sessions, policies, lost>>

(* A request ends early: wrong credentials or parameters, a failing query.  *)
Refuse(r) ==
  /\ req[r] # Idle /\ req[r].pc \notin {"save", "clean", "sweep"}
  /\ Finish(r)
  /\ stale' = Others(r, {})
  /\ UNCHANGED <<load, rows, groups, sessions, policies, lost>>

-----------------------------------------------------------------------------
(* Sessions.                                                                *)

(* CSRFInit saves the session with every request for the configuration.     *)
CSRFInit(r) ==
  /\ At(r, "config", "begun")
  /\ SaveSession(r, <<>>)
  /\ Finish(r)
  /\ UNCHANGED <<load, rows, groups, policies>>

GetCaptcha(r) ==
  /\ At(r, "captcha", "begun")
  /\ SaveSession(r, [captcha |-> TRUE])
  /\ Finish(r)
  /\ UNCHANGED <<load, rows, groups, policies>>

(* CaptchaRequired uses the captcha up, right or wrong.                     *)
CaptchaRequired(r) ==
  /\ At(r, "login", "begun") /\ Captcha
  /\ SaveSession(r, [captcha |-> FALSE])
  /\ req' = IF req[r].sess.captcha
              THEN [req EXCEPT ![r].pc = "read", ![r].sess.captcha = FALSE]
              ELSE [req EXCEPT ![r] = Idle]
  /\ UNCHANGED <<load, rows, groups, policies>>

(* Login with the right password: the account must be active ...            *)
Login(r, u) ==
  /\ At(r, "login", IF Captcha THEN "read" ELSE "begun")
  /\ user[u].status = "active"
  /\ req' = [req EXCEPT ![r].pc = "save", ![r].me = u, ![r].row = user[u]]
  /\ UNCHANGED <<load, rows, groups, sessions, policies, stale, lost>>

(* ... and is signed in, or has to bring its second factor.                 *)
LoginSession(r) ==
  /\ At(r, "login", "save")
  /\ SaveSession(r, IF req[r].row.twoFactor THEN [twoFactor |-> req[r].me] ELSE [user |-> req[r].me])
  /\ Finish(r)
  /\ UNCHANGED <<load, rows, groups, policies>>

(* Enable2FA.Login with the right code: the two keys are saved one by one.  *)
SecondFactor(r) ==
  /\ At(r, "2fa", "begun")
  /\ LET u == req[r].sess.twoFactor
     IN  /\ u # None
         /\ SaveSession(r, [twoFactor |-> None])
         /\ req' = [req EXCEPT ![r].pc = "save", ![r].me = GetActivateUserByID(u),
                               ![r].sess.twoFactor = None]
  /\ UNCHANGED <<load, rows, groups, policies>>

SecondFactorSession(r) ==
  /\ At(r, "2fa", "save")
  /\ SaveSession(r, [user |-> req[r].me])
  /\ Finish(r)
  /\ UNCHANGED <<load, rows, groups, policies>>

UserSignOut(r) ==
  /\ At(r, "signOut", "begun")
  /\ SaveSession(r, [user |-> None])
  /\ Finish(r)
  /\ UNCHANGED <<load, rows, groups, policies>>
-----------------------------------------------------------------------------
(* Rows of users.                                                           *)

(* Activate never runs: its controller wants an error of the binding.  A    *)
(* second account with the same address is possible, the index that should  *)
(* forbid it is not made.                                                   *)
Register(r, u) ==
  /\ At(r, "register", "begun")
  /\ user[u].status = "absent"
  /\ PutRow(u, [NoRow EXCEPT !.status = IF EmailActive THEN "notActivated" ELSE "active"])
  /\ Finish(r)
  /\ stale' = Others(r, {})
  /\ UNCHANGED <<load, groups, sessions, policies, lost>>

(* Enable2FA.Update turns the second factor on, or off again.               *)
Enable2FA(r) ==
  /\ At(r, "enable2fa", "begun") /\ req[r].of # None
  /\ Update(r, req[r].of, [twoFactor |-> ~req[r].row.twoFactor])
  /\ Finish(r)
  /\ UNCHANGED <<load, groups, sessions, policies, lost>>

(* HomePage and ThemeChose change one option and write them all.            *)
UpdateOptions(r, opt) ==
  /\ At(r, "option", "begun") /\ req[r].of # None
  /\ \E put \in {{}, {opt}} :
       UpdateDocument(r, req[r].of, "options", (req[r].row.options \ {opt}) \cup put,
                      (askedUser[req[r].of].options \ {opt}) \cup put)
  /\ Finish(r)
  /\ UNCHANGED <<load, groups, sessions, policies>>

RegisterAuthn(r, k) ==
  /\ At(r, "addKey", "begun") /\ req[r].of # None
  /\ UpdateDocument(r, req[r].of, "keys", req[r].row.keys \cup {k},
                    askedUser[req[r].of].keys \cup {k})
  /\ Finish(r)
  /\ UNCHANGED <<load, groups, sessions, policies>>

RemoveAuthn(r, k) ==
  /\ At(r, "removeKey", "begun") /\ req[r].of # None
  /\ UpdateDocument(r, req[r].of, "keys", req[r].row.keys \ {k},
                    askedUser[req[r].of].keys \ {k})
  /\ Finish(r)
  /\ UNCHANGED <<load, groups, sessions, policies>>

(* User.ChangeStorage and IncreaseStorageWithoutCheck add in the database.  *)
(* Bound: only members upload.                                              *)
ChangeStorage(r, u) ==
  /\ At(r, "charge", "begun")
  /\ {user[u].storage, askedUser[u].storage} \subseteq 0..(MaxStorage - 1)
  /\ Exists(u)
  /\ user' = [user EXCEPT ![u].storage = @ + 1]
  /\ askedUser' = [askedUser EXCEPT ![u].storage = @ + 1]
  /\ stale' = Others(r, RowHolders(r, u, {"storage"}))
  /\ Finish(r)
  /\ UNCHANGED <<load, groups, sessions, policies, lost>>

-----------------------------------------------------------------------------
(* The administrators' requests.                                            *)

(* GetUserByID of the user to be changed.                                   *)
ReadUser(r, u) ==
  /\ req[r].op \in {"edit", "ban", "delete"} /\ req[r].pc = "begun"
  /\ Exists(u)
  /\ req' = [req EXCEPT ![r].pc = "read", ![r].of = u, ![r].row = user[u]]
  /\ stale' = Others(r, {})
  /\ UNCHANGED <<load, rows, groups, sessions, policies, lost>>

(* AddUserService.Add of an existing user saves the row that was read.      *)
SaveUser(r, status, g) ==
  /\ At(r, "edit", "read")
  /\ req[r].of = Root => g = AdminGroup
  /\ SaveRow(r, req[r].of, [status |-> status, group |-> g])
  /\ Finish(r)
  /\ UNCHANGED <<load, groups, sessions, policies>>

(* ... of a new one, or of one that is not there, inserts a row.            *)
AddUser(r, u, g) ==
  /\ At(r, "edit", "begun")
  /\ user[u].status = "absent"
  /\ PutRow(u, [NoRow EXCEPT !.status = "active", !.group = g])
  /\ Finish(r)
  /\ stale' = Others(r, {})
  /\ UNCHANGED <<load, groups, sessions, policies, lost>>

(* Variant: the whole row is saved.                                         *)
Ban_Saved(r) ==
  /\ At(r, "ban", "read") /\ req[r].of # Root
  /\ user' = [user EXCEPT ![req[r].of] = [req[r].row EXCEPT !.status = "banned"]]
  /\ askedUser' = [askedUser EXCEPT ![req[r].of].status = "banned"]
  /\ Finish(r)
  /\ stale' = Others(r, {})
  /\ UNCHANGED <<load, groups, sessions, policies, lost>>

Ban(r) ==
  /\ At(r, "ban", "read") /\ req[r].of # Root
  /\ Update(r, req[r].of,
            [status |-> IF req[r].row.status = "active" THEN "banned" ELSE "active"])
  /\ Finish(r)
  /\ UNCHANGED <<load, groups, sessions, policies, lost>>

(* UserBatchService.Delete, after the user's files, folders, downloads,     *)
(* tasks and tags.                                                          *)
DeleteUser(r) ==
  /\ At(r, "delete", "read") /\ req[r].of # Root
  /\ PutRow(req[r].of, [NoRow EXCEPT !.status = "deleted"])
  /\ stale' = Others(r, RowHolders(r, req[r].of, Column))
  /\ lost' = lost \ ({req[r].of} \X Column)
  /\ Finish(r)
  /\ UNCHANGED <<load, groups, sessions, policies>>

(* GroupService.Delete counts the users of the group, then deletes it.      *)
CountUsers(r, g) ==
  /\ At(r, "deleteGroup", "begun")
  /\ g \in groups \ {AdminGroup, DefaultGroup}
  /\ \A u \in User : Exists(u) => user[u].group # g
  /\ req' = [req EXCEPT ![r].pc = "read", ![r].row.group = g]
  /\ stale' = Others(r, {})
  /\ UNCHANGED <<load, rows, groups, sessions, policies, lost>>

DeleteGroup(r) ==
  /\ At(r, "deleteGroup", "read")
  /\ groups' = groups \ {req[r].row.group}
  /\ Finish(r)
  /\ stale' = Others(r, {})
  /\ UNCHANGED <<load, rows, sessions, policies, lost>>

-----------------------------------------------------------------------------
(* The row of a storage policy and its cache.  Deleting and showing one     *)
(* panics, its id is of another type than GetPolicyByID asserts.            *)

GetPolicyByID(r) ==
  /\ At(r, "getPolicy", "begun")
  /\ IF cached # {}
       THEN Finish(r)
       ELSE req' = [req EXCEPT ![r].pc = "save", ![r].seen = version]
  /\ stale' = Others(r, {})
  /\ UNCHANGED <<load, rows, groups, sessions, policies, lost>>

CachePolicy(r) ==
  /\ At(r, "getPolicy", "save")
  /\ cached' = {req[r].seen}
  /\ lost' = IF <<r, "policy">> \in stale THEN lost \cup {<<None, "policy">>} ELSE lost \ {<<None, "policy">>}
  /\ Finish(r)
  /\ stale' = Others(r, {})
  /\ UNCHANGED <<load, rows, groups, sessions, version>>

(* Variant: the cache is emptied before the row is written.                 *)
SavePolicy_CleanFirst(r) ==
  /\ req[r].op \in {"savePolicy", "newKey"} /\ req[r].pc = "begun"
  /\ version < MaxVersion
  /\ version' = version + 1
  /\ stale' = Others(r, {q \in Request : At(q, "getPolicy", "save")} \X {"policy"})
  /\ Finish(r)
  /\ UNCHANGED <<load, rows, groups, sessions, cached, lost>>

(* AddPolicyService.Add and UpdateAccessKeyAndClearCache write the row ...  *)
SavePolicy(r) ==
  /\ req[r].op \in {"savePolicy", "newKey"} /\ req[r].pc = "begun"
  /\ version < MaxVersion
  /\ version' = version + 1
  /\ stale' = Others(r, {q \in Request : At(q, "getPolicy", "save")} \X {"policy"})
  /\ Step(r, "clean")
  /\ UNCHANGED <<load, rows, groups, sessions, cached, lost>>

(* ... and then take it out of the cache.                                   *)
CleanCache(r) ==
  /\ req[r].pc = "clean"
  /\ cached' = {}
  /\ lost' = lost \ {<<None, "policy">>}
  /\ Finish(r)
  /\ stale' = Others(r, {})
  /\ UNCHANGED <<load, rows, groups, sessions, version>>

(* The cache drops an entry, or the store is empty after a restart.         *)
Evict ==
  /\ "getPolicy" \in load.ops /\ cached # {}
  /\ cached' = {}
  /\ lost' = lost \ {<<None, "policy">>}
  /\ UNCHANGED <<load, rows, groups, sessions, version, req, stale>>

-----------------------------------------------------------------------------
SessionStep(r) ==
  \/ CSRFInit(r) \/ GetCaptcha(r) \/ CaptchaRequired(r) \/ LoginSession(r)
  \/ SecondFactor(r) \/ SecondFactorSession(r) \/ UserSignOut(r)
  \/ \E u \in User : Login(r, u)

SettingStep(r) ==
  \/ Enable2FA(r)
  \/ \E opt \in Option : UpdateOptions(r, opt)
  \/ \E k \in Key : RegisterAuthn(r, k) \/ RemoveAuthn(r, k)

AdminStep(r) ==
  \/ \E u \in User : ReadUser(r, u)
  \/ \E g \in Group : \/ \E status \in {"active", "banned"} : SaveUser(r, status, g)
                      \/ \E u \in User : AddUser(r, u, g)
  \/ Ban(r) \/ DeleteUser(r) \/ DeleteGroup(r)
  \/ \E g \in Group : CountUsers(r, g)

PolicyStep(r) == GetPolicyByID(r) \/ CachePolicy(r) \/ SavePolicy(r) \/ CleanCache(r)

AccountsNext ==
  \/ \E r \in Request :
       \/ \E c \in load.cookies, op \in load.ops \ Internal : Begin(r, c, op)
       \/ \E op \in load.ops \cap Internal : BeginInternal(r, op)
       \/ Refuse(r) \/ SessionStep(r) \/ SettingStep(r) \/ AdminStep(r) \/ PolicyStep(r)
       \/ \E u \in User : Register(r, u)
       \/ \E u \in Members : ChangeStorage(r, u)
  \/ Evict

-----------------------------------------------------------------------------
AccountsTypeOK ==
  /\ load \in Loads
  /\ {user, askedUser} \subseteq [User -> Row]
  /\ groups \subseteq Group
  /\ {session, askedSession} \subseteq [Cookie -> Session]
  /\ version \in 0..MaxVersion /\ cached \in SUBSET (0..MaxVersion) /\ Cardinality(cached) <= 1
  /\ req \in [Request -> Req]
  /\ stale \subseteq Request \X (Column \cup {"session", "policy"})
  /\ lost \subseteq (Cookie \X {"session"}) \cup (User \X Column) \cup {<<None, "policy">>}

(* What an update must not be overwritten by (UpdatesKept of Shares).       *)
AccountUpdatesKept ==
  /\ \A c \in Cookie : session[c] # askedSession[c] => <<c, "session">> \in lost
  /\ \A u \in User : \A col \in Column :
       user[u][col] # askedUser[u][col] => <<u, col>> \in lost /\ col \notin {"status", "group"}

(* The cache never holds an old row of a policy once CleanCache has run,    *)
(* unless a lookup that read the row before it was written came later.      *)
PolicyFresh ==
  cached \subseteq {version} \/ <<None, "policy">> \in lost \/ \E r \in Request : req[r].pc = "clean"
=============================================================================
