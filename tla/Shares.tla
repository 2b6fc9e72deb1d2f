------------------------------- MODULE Shares -------------------------------
(***************************************************************************)
(* A share of a file, its visitors, and the download links they are given, *)
(* together with the requests of Accounts: the share's owner can be banned,*)
(* a visitor be signed in or not, a browser send several requests at once. *)
(*                                                                         *)
(* The row of the share is copied once, by ShareAvailable.  What follows   *)
(* looks at the copy, and Downloaded writes the counter that was computed  *)
(* from it.                                                                *)
(***************************************************************************)
EXTENDS Accounts

CONSTANTS
  Password,    \* passwords of shares
  Open,        \* no password
  Limit,       \* the largest number of downloads a share can be created with
  Unlimited,   \* no such number
  Downloaders, \* groups with option share_download, None the anonymous group
  Sharers,     \* groups with share_enabled
  OneTimers,   \* groups with option one_time_download, None as above
  Owner        \* of the shared file

ASSUME OwnerOk == Owner \in Members
ASSUME LimitOk == Limit \in Nat \ {0} /\ Unlimited \notin Nat

VARIABLES
  share,      \* its row
  askedShare, \* its row as its owner and time have made it
  source,     \* is the shared file there
  visit,      \* the handlers' copies of the row
  memory,     \* users that the cache remembers as having downloaded it
  charges,    \* downloads that were charged to its limit
  link,       \* a download session for it: not made yet, in the cache, or gone
  served      \* times that was used by a user who may use it once

shareRows == <<share, askedShare>>
shareVars == <<shareRows, source, visit, memory, charges, link, served>>
vars      == <<accountVars, shareVars>>

ShareRow == [state : {"none", "live", "deleted"},
             pass : Password \cup {Open}, remain : (0..Limit) \cup {Unlimited},
             preview : BOOLEAN, expired : BOOLEAN]
NoShare  == [state |-> "none", pass |-> Open, remain |-> Unlimited,
             preview |-> FALSE, expired |-> FALSE]

(* The routes below /share; the first three of them are charged for.        *)
Charged  == {"getShare", "preview", "content"}
Previews == {"preview", "thumb"}
Visits   == Charged \cup {"info", "list", "thumb"}

Init ==
  /\ AccountsInit
  /\ share = NoShare /\ askedShare = NoShare
  /\ source = TRUE
  /\ visit = [r \in Request |-> NoShare]
  /\ memory = {} /\ charges = 0
  /\ link = "none" /\ served = 0

-----------------------------------------------------------------------------
Leave(r) ==
  /\ Finish(r)
  /\ visit' = [visit EXCEPT ![r] = NoShare]
  /\ stale' = Others(r, {})

(* UPDATE of columns of the share's row, when it is still there.            *)
UpdateShare(change, asked) ==
  IF share.state = "live"
    THEN share' = With(share, change) /\ askedShare' = With(askedShare, asked)
    ELSE UNCHANGED shareRows

-----------------------------------------------------------------------------
(* The owner.                                                               *)

(* Create asks for the file ...                                             *)
FindSource(r) ==
  /\ At(r, "createShare", "begun")
  /\ req[r].me = Owner /\ req[r].row.group \in Sharers
  /\ source
  /\ Step(r, "read")
  /\ UNCHANGED <<load, rows, groups, sessions, policies, stale, lost, shareVars>>

(* ... and inserts the share.  Only one with a limit expires.               *)
CreateShare(r, pass, limit, preview) ==
  /\ At(r, "createShare", "read")
  /\ share.state = "none"
  /\ share' = [state |-> "live", pass |-> pass, remain |-> limit,
               preview |-> preview, expired |-> FALSE]
  /\ askedShare' = share'
  /\ Leave(r)
  /\ UNCHANGED <<load, rows, groups, sessions, policies, lost, source, memory, charges, link, served>>

(* ShareAvailable and ShareOwner, then Update of one column.                *)
EditShare(r, change) ==
  /\ At(r, "editShare", "available")
  /\ req[r].me = Owner
  /\ UpdateShare(change, change)
  /\ Leave(r)
  /\ UNCHANGED <<load, rows, groups, sessions, policies, lost, source, memory, charges, link, served>>

(* Service.Delete, or an administrator's Batch.Delete of shares.            *)
DeleteShare(r) ==
  /\ At(r, "deleteShare", "begun")
  /\ req[r].me = Owner \/ IsAdmin(req[r].me)
  /\ UpdateShare([state |-> "deleted"], [state |-> "deleted"])
  /\ Leave(r)
  /\ UNCHANGED <<load, rows, groups, sessions, policies, lost, source, memory, charges, link, served>>

(* FileSystem.Delete: the row of the file, then the shares of it.           *)
DeleteSource(r) ==
  /\ At(r, "deleteSource", "begun") /\ req[r].me = Owner
  /\ source' = FALSE
  /\ Step(r, "sweep")
  /\ UNCHANGED <<load, rows, groups, sessions, policies, stale, lost, shareRows, visit, memory,
                 charges, link, served>>

DeleteShareBySourceIDs(r) ==
  /\ At(r, "deleteSource", "sweep")
  /\ UpdateShare([state |-> "deleted"], [state |-> "deleted"])
  /\ Leave(r)
  /\ UNCHANGED <<load, rows, groups, sessions, policies, lost, source, memory, charges, link, served>>

-----------------------------------------------------------------------------
(* The visitors.                                                            *)

(* Variant: a share without downloads left is still available.              *)
IsAvailable_Zero(s) ==
  /\ s.state = "live" /\ ~s.expired
  /\ user[Owner].status = "active"
  /\ source

(* One step: the row of the share, its creator and the file are read.       *)
IsAvailable(s) ==
  /\ s.state = "live" /\ s.remain # 0 /\ ~s.expired
  /\ user[Owner].status = "active"
  /\ source

ShareAvailable(r) ==
  /\ req[r].op \in Visits \cup {"editShare"} /\ req[r].pc = "begun"
  /\ IsAvailable(share)
  /\ Step(r, "available")
  /\ visit' = [visit EXCEPT ![r] = share]
  /\ UNCHANGED <<load, rows, groups, sessions, policies, stale, lost, shareRows, source, memory,
                 charges, link, served>>

(* ShareGetService.Get: the right password opens the share for the session. *)
UnlockShare(r) ==
  /\ At(r, "info", "available") /\ visit[r].pass # Open
  /\ SaveSession(r, [unlocked |-> TRUE])
  /\ Finish(r)
  /\ visit' = [visit EXCEPT ![r] = NoShare]
  /\ UNCHANGED <<load, rows, groups, policies, shareRows, source, memory, charges, link, served>>

(* CheckShareUnlocked and, for some routes, ShareCanPreview.                *)
CheckShareUnlocked(r) ==
  /\ req[r].op \in Visits \ {"info"} /\ req[r].pc = "available"
  /\ visit[r].pass = Open \/ req[r].sess.unlocked
  /\ req[r].op \in Previews => visit[r].preview
  /\ Step(r, "unlocked")
  /\ UNCHANGED <<load, rows, groups, sessions, policies, stale, lost, shareVars>>

(* The group of an anonymous user has the options of None, a user whose     *)
(* account is not active has none.                                          *)
HasOption(r, with) ==
  IF req[r].me \in User THEN req[r].row.group \in groups \cap with
                        ELSE req[r].me = None /\ None \in with

WasDownloadedBy(r) ==
  IF req[r].me \in User THEN req[r].me \in memory ELSE req[r].sess.charged

(* Variant: the counter is left alone when it is at its last.               *)
Downloaded_NotLast(r) ==
  LET left == IF visit[r].remain = Unlimited \/ visit[r].remain = 1 THEN visit[r].remain
                                                                    ELSE visit[r].remain - 1
  IN  UpdateShare([remain |-> left], <<>>)

(* Share.Downloaded counts down in the copy, which ShareAvailable has found *)
(* not to be 0, and writes what that gives.                                 *)
Downloaded(r) ==
  LET left == IF visit[r].remain = Unlimited THEN Unlimited ELSE visit[r].remain - 1
  IN  UpdateShare([remain |-> left], <<>>)

(* BeforeShareDownload: a visitor who has not downloaded the share before   *)
(* is charged for it ...                                                    *)
ChargeDownload(r) ==
  /\ req[r].op \in Charged /\ req[r].pc = "unlocked"
  /\ HasOption(r, Downloaders) /\ ~WasDownloadedBy(r)
  /\ Downloaded(r)
  /\ charges' = IF visit[r].remain = Unlimited THEN charges ELSE charges + 1
  /\ Step(r, "save")
  /\ UNCHANGED <<load, rows, groups, sessions, policies, stale, lost, source, visit, memory, link,
                 served>>

(* ... and then remembered, in the cache or in the session.                 *)
RememberDownload(r) ==
  /\ At(r, req[r].op, "save") /\ req[r].op \in Charged
  /\ IF req[r].me \in User
       THEN memory' = memory \cup {req[r].me} /\ UNCHANGED <<sessions, stale, lost>>
       ELSE SaveSession(r, [charged |-> TRUE]) /\ UNCHANGED memory
  /\ Step(r, "charged")
  /\ UNCHANGED <<load, rows, groups, policies, shareRows, source, visit, charges, link, served>>

DownloadAgain(r) ==
  /\ req[r].op \in Charged /\ req[r].pc = "unlocked"
  /\ HasOption(r, Downloaders) /\ WasDownloadedBy(r)
  /\ Step(r, "charged")
  /\ UNCHANGED <<load, rows, groups, sessions, policies, stale, lost, shareVars>>

(* What a route shows after that changes nothing.                           *)
ShowShare(r) ==
  /\ \/ req[r].op \in {"preview", "content"} /\ req[r].pc = "charged"
     \/ req[r].op \in {"list", "thumb"} /\ req[r].pc = "unlocked"
     \/ req[r].op = "info" /\ req[r].pc = "available"
  /\ Leave(r)
  /\ UNCHANGED <<load, rows, groups, sessions, policies, lost, shareRows, source, memory, charges,
                 link, served>>

(* CreateDownloadSession: the file that ShareAvailable has looked up is put *)
(* in the cache below a new key.                                            *)
CreateDownloadSession(r) ==
  /\ At(r, "getShare", "charged")
  /\ link' = IF link = "none" THEN "live" ELSE link
  /\ Leave(r)
  /\ UNCHANGED <<load, rows, groups, sessions, policies, lost, shareRows, source, memory, charges,
                 served>>

-----------------------------------------------------------------------------
(* One of the links.                                                        *)

(* DownloadService.Download looks it up ...                                 *)
FindLink(r) ==
  /\ At(r, "download", "begun")
  /\ link = "live"
  /\ Step(r, "read")
  /\ UNCHANGED <<load, rows, groups, sessions, policies, stale, lost, shareVars>>

LinkAfter(r) == IF HasOption(r, OneTimers) THEN "gone" ELSE link

(* ... opens the file, and only then takes the link out of the cache.       *)
ServeLink(r) ==
  /\ At(r, "download", "read")
  /\ source
  /\ link' = LinkAfter(r)
  /\ served' = IF HasOption(r, OneTimers) THEN served + 1 ELSE served
  /\ Leave(r)
  /\ UNCHANGED <<load, rows, groups, sessions, policies, lost, shareRows, source, memory, charges>>

-----------------------------------------------------------------------------
(* What time does: shares expire, the cache and browsers forget.            *)
Expire ==
  /\ share.state = "live" /\ share.remain # Unlimited /\ ~share.expired
  /\ share' = [share EXCEPT !.expired = TRUE]
  /\ askedShare' = [askedShare EXCEPT !.expired = TRUE]
  /\ UNCHANGED <<accountVars, source, visit, memory, charges, link, served>>

ForgetUser(u) ==
  /\ u \in memory /\ memory' = memory \ {u}
  /\ UNCHANGED <<accountVars, shareRows, source, visit, charges, link, served>>

ForgetLink ==
  /\ link = "live" /\ link' = "gone"
  /\ UNCHANGED <<accountVars, shareRows, source, visit, memory, charges, served>>

(* The visitor comes back with another browser, or without its cookies.     *)
ForgetSession(c) ==
  /\ session[c].charged
  /\ \A r \in Request : req[r].cookie # c
  /\ session' = [session EXCEPT ![c] = NoSession]
  /\ askedSession' = [askedSession EXCEPT ![c] = NoSession]
  /\ lost' = lost \ {<<c, "session">>}
  /\ UNCHANGED <<load, rows, groups, policies, req, stale, shareVars>>

-----------------------------------------------------------------------------
ShareOwnerStep(r) ==
  \/ FindSource(r) \/ DeleteShare(r) \/ DeleteSource(r) \/ DeleteShareBySourceIDs(r)
  \/ \E pass \in Password \cup {Open}, limit \in (1..Limit) \cup {Unlimited}, preview \in BOOLEAN :
       CreateShare(r, pass, limit, preview)
  \/ \E pass \in Password \cup {Open} : EditShare(r, [pass |-> pass])
  \/ \E preview \in BOOLEAN : EditShare(r, [preview |-> preview])

VisitStep(r) ==
  \/ ShareAvailable(r) \/ UnlockShare(r) \/ CheckShareUnlocked(r)
  \/ ChargeDownload(r) \/ RememberDownload(r) \/ DownloadAgain(r) \/ ShowShare(r)
  \/ CreateDownloadSession(r) \/ FindLink(r) \/ ServeLink(r)

Next ==
  \/ AccountsNext /\ UNCHANGED <<shareRows, source, memory, charges, link, served>>
                  /\ visit' = [r \in Request |-> IF req'[r] = Idle THEN NoShare ELSE visit[r]]
  \/ \E r \in Request : ShareOwnerStep(r) \/ VisitStep(r)
  \/ Expire \/ ForgetLink
  \/ \E u \in User : ForgetUser(u)
  \/ \E c \in Cookie : ForgetSession(c)

Spec == Init /\ [][Next]_vars

-----------------------------------------------------------------------------
TypeOK ==
  /\ AccountsTypeOK
  /\ {share, askedShare} \subseteq ShareRow
  /\ source \in BOOLEAN
  /\ visit \in [Request -> ShareRow]
  /\ memory \subseteq User
  /\ charges \in Nat
  /\ link \in {"none", "live", "gone"} /\ served \in Nat

(* Two handlers that count down from copies of one row charge a share with  *)
(* limit n more than n times, since the slower one takes the counter back   *)
(* to what it had.  But every time it does so one lower: n(n+3)/2 is the    *)
(* most they can do (Share.Downloaded).  A one-time link serves those who   *)
(* looked it up before the first of them took it away, and nobody later.    *)
CreditsBound ==
  /\ LET n == askedShare.remain
     IN  Cardinality(Request) = 2 => charges = 0 \/ 2 * charges <= n * (n + 3)
  /\ served <= Cardinality(Request)

(* An update is lost only where a request overwrote it from an older copy:  *)
(* by saving a session, an edited user, the options or the credentials.     *)
(* Nothing takes back a ban or a change of group.  What the owner sets on a *)
(* share, and its deletion, is not undone by visitors who have a copy of    *)
(* the row from before (Share.Update and Share.Downloaded write different   *)
(* columns).                                                                *)
UpdatesKept ==
  /\ AccountUpdatesKept
  /\ \A col \in {"state", "pass", "preview", "expired"} : share[col] = askedShare[col]
=============================================================================
