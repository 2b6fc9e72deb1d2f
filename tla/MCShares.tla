------------------------------ MODULE MCShares ------------------------------
(* What clients do at the same time.  Two browsers only meet where they     *)
(* share a row; in one browser two requests share the session.              *)
EXTENDS Shares, TLC

OneBrowser ==
  {{"config", "captcha", "login", "signOut"}, {"captcha", "login", "2fa"},
   {"enable2fa", "signOut"},
   {"register", "option"}, {"addKey", "removeKey", "ban"}, {"edit", "charge"}, {"edit", "deleteGroup"},
   {"edit", "ban"}, {"edit", "delete"}, {"savePolicy", "newKey", "getPolicy"}}

TwoBrowsers ==
  {{"createShare", "info", "list"}, {"createShare", "editShare", "list"},
   {"createShare", "editShare", "deleteShare", "preview"},
   {"createShare", "getShare", "download"},
   {"createShare", "info", "deleteSource", "ban"}}

MCLoads ==
  {[ops |-> ops, cookies |-> {c}] : ops \in OneBrowser, c \in Cookie}
    \cup {[ops |-> ops, cookies |-> Cookie] : ops \in TwoBrowsers}

(* Nothing distinguishes a handler or a browser from another one.           *)
Symmetry == Permutations(Request) \cup Permutations(Cookie)
=============================================================================
