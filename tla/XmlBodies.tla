----------------------------- MODULE XmlBodies -----------------------------
(***************************************************************************)
(* What the XML code of the WebDAV server promises, stated on whole        *)
(* documents: no decoder state, no stack, no printer.  Elements are found  *)
(* by their nesting and names by the declarations in scope.                *)
(***************************************************************************)
EXTENDS XmlWriter

CONSTANTS
  Fragments,                 \* documents of arbitrary elements
  PropfindDocs, ProppatchDocs, LockDocs,
  Answers                    \* responses: sequences of the properties of their propstats

VARIABLE body   \* the kind of a document, the document, and what it was read as, if it was

Unfold(doc) ==
  FlattenSeq([i \in 1..Len(doc) |->
    IF doc[i].kind = "start" /\ doc[i].empty
      THEN <<[doc[i] EXCEPT !.empty = FALSE], EndTag(doc[i].name)>> ELSE <<doc[i]>>])

(* The nesting of an unfolded document: its elements from their start tags *)
(* to their ends, 0 if there is none.                                      *)
Nesting(u) ==
  LET change(kind) == IF kind = "start" THEN 1 ELSE IF kind = "end" THEN -1 ELSE 0
      level == FoldLeft(LAMBDA l, t : Append(l, Last(l) + change(t.kind)), <<0>>, u)
  IN  [i \in {j \in 1..Len(u) : u[j].kind = "start"} |->
         LET below == level[i+1]
             ends == {j \in i+1..Len(u) : level[j+1] < below}
         IN  IF ends = {} THEN 0 ELSE Min(ends)]

Tree(doc) == LET u == Unfold(doc) IN [tok |-> u, end |-> Nesting(u)]
Inside(t, i, k) == i < k /\ (t.end[i] = 0 \/ k < t.end[i])
Kids(t, i) ==
  {k \in DOMAIN t.end : Inside(t, i, k) /\ \A j \in DOMAIN t.end : Inside(t, i, j) => ~Inside(t, j, k)}
InOrder(S) == SetToSortSeq(S, <)

(* The name of something on the start tag i: the innermost declaration of  *)
(* its prefix counts.                                                      *)
Url(t, i, prefix, otherwise) ==
  LET declared(k) == {j \in 1..Len(t.tok[k].attr) :
                        /\ Declares(t.tok[k].attr[j])
                        /\ t.tok[k].attr[j].name = IF prefix = "" THEN <<"", "xmlns">> ELSE <<"xmlns", prefix>>}
      scopes == {k \in DOMAIN t.end : (k = i \/ Inside(t, k, i)) /\ declared(k) # {}}
  IN  IF scopes = {} THEN otherwise
      ELSE LET k == Max(scopes) IN t.tok[k].attr[Max(declared(k))].value
FullName(t, i, name) ==
  IF name[1] = "xmlns" THEN name
  ELSE IF name[1] = "xml" THEN <<XmlURL, name[2]>> ELSE <<Url(t, i, name[1], name[1]), name[2]>>
NameOf(t, i) == FullName(t, i, t.tok[i].name)

(* The first element of the document is complete.                          *)
Complete(t) ==
  /\ DOMAIN t.end # {}
  /\ LET first == Min(DOMAIN t.end) IN
       /\ t.end[first] # 0
       /\ \A i \in 1..t.end[first] : t.tok[i].kind # "bad" /\ (i < first => t.tok[i].kind # "end")
       /\ \A i \in DOMAIN t.end : i < t.end[first] => FullName(t, i, t.tok[t.end[i]].name) = NameOf(t, i)
RootAt(t) == Min(DOMAIN t.end)
Alone(t) == Complete(t) /\ t.end[RootAt(t)] = Len(t.tok)

(* What an element contains that counts.                                   *)
Content(t, i) == {k \in i+1..t.end[i]-1 : t.tok[k].kind # "misc"}
KidsNamed(t, i, name) == InOrder({k \in Kids(t, i) : NameOf(t, k) = name})
NamesIn(t, elements) ==
  FlattenSeq([e \in 1..Len(elements) |->
    LET kids == InOrder(Kids(t, elements[e])) IN [k \in 1..Len(kids) |-> NameOf(t, kids[k])]])

(* A list of properties is never empty, and in a PROPFIND they have no     *)
(* values: the comments on propfindProps and proppatchProps.               *)
PropfindMeaning(doc) ==
  LET t == Tree(doc)
      r == RootAt(t)
      of(l) == KidsNamed(t, r, <<"DAV:", l>>)
      fits == /\ Complete(t) /\ NameOf(t, r) = <<"DAV:", "propfind">>
              /\ \A e \in ToSet(of("prop") \o of("include")) :
                   Kids(t, e) # {} /\ \A k \in Kids(t, e) : Content(t, k) = {}
      none == [kind |-> IF doc = <<>> THEN "empty" ELSE "broken",
               allprop |-> FALSE, propname |-> FALSE, prop |-> <<>>, include |-> <<>>]
  IN  IF ~fits THEN none
      ELSE [kind |-> "doc", allprop |-> of("allprop") # <<>>, propname |-> of("propname") # <<>>,
            prop |-> NamesIn(t, of("prop")), include |-> NamesIn(t, of("include"))]

(* The value of a property may be any XML if it is set: the comment in     *)
(* xmlValue.UnmarshalXML.                                                  *)
ProppatchMeaning(doc) ==
  LET t == Tree(doc)
      r == RootAt(t)
      ops == InOrder(Kids(t, r))
      props(o) == KidsNamed(t, o, <<"DAV:", "prop">>)
      fits == /\ Complete(t) /\ NameOf(t, r) = <<"DAV:", "propertyupdate">>
              /\ \A o \in ToSet(ops) :
                   /\ NameOf(t, o) \in {<<"DAV:", "set">>, <<"DAV:", "remove">>}
                   /\ \A e \in ToSet(props(o)) :
                        /\ Kids(t, e) # {}
                        /\ NameOf(t, o)[2] = "remove" => \A k \in Kids(t, e) : Content(t, k) = {}
  IN  IF ~fits THEN [ok |-> FALSE, patches |-> <<>>]
      ELSE [ok |-> TRUE, patches |-> [o \in 1..Len(ops) |-> NamesIn(t, props(ops[o]))]]

(* Where the code departs from those comments.  An empty list that follows *)
(* another one of its kind is accepted, as the names of both are counted   *)
(* together; a value that has an element named like its property, or an    *)
(* attribute xmlns with a prefix, is refused.                              *)
EmptyAgain(t, e, local) ==
  LET lists == KidsNamed(t, e, <<"DAV:", local>>)
  IN  \E i \in 2..Len(lists) : Kids(t, lists[i]) = {}
Unreadable(t, k) ==
  \E j \in DOMAIN t.end :
    /\ Inside(t, k, j)
    /\ \/ NameOf(t, j) = NameOf(t, k)
       \/ \E a \in ToSet(t.tok[j].attr) : Redefines([a EXCEPT !.name = FullName(t, j, @)])
PropfindDeparts(doc) ==
  LET t == Tree(doc)
  IN  Complete(t) /\ \E l \in {"prop", "include"} : EmptyAgain(t, RootAt(t), l)
ProppatchDeparts(doc) ==
  LET t == Tree(doc)
  IN  /\ Complete(t)
      /\ \E o \in Kids(t, RootAt(t)) :
           \/ EmptyAgain(t, o, "prop")
           \/ \E e \in Kids(t, o) : \E k \in Kids(t, e) : Unreadable(t, k)

(* Local names only, in whatever namespace.                                *)
LockMeaning(doc) ==
  LET t == Tree(doc)
      has(path) == \E i \in Kids(t, RootAt(t)) : \E k \in Kids(t, i) :
                     <<t.tok[i].name[2], t.tok[k].name[2]>> = path
  IN  IF doc = <<>> THEN 0
      ELSE IF ~Complete(t) \/ NameOf(t, RootAt(t))[2] # "lockinfo" THEN 400
      ELSE IF /\ has(<<"lockscope", "exclusive">>) /\ ~has(<<"lockscope", "shared">>)
              /\ has(<<"locktype", "write">>) THEN 0 ELSE 501

(* All tokens of a document, or that there is an error.                    *)
RECURSIVE TokensFrom(_, _)
TokensFrom(d, toks) ==
  LET r == Token(d)
  IN  IF r.err = "EOF" THEN [ok |-> TRUE, toks |-> toks]
      ELSE IF r.err # "" THEN [ok |-> FALSE, toks |-> toks]
      ELSE TokensFrom(r, Append(toks, r.tok))
Tokens(doc) == TokensFrom(NewDecoder(doc), <<>>)

(* A token for those that do not care which prefixes stand for a URL.      *)
Plain(tok) ==
  [kind |-> tok.kind, name |-> tok.name, attr |-> SelectSeq(tok.attr, LAMBDA a : ~IsNamespace(a.name))]
PlainAll(toks) == [i \in 1..Len(toks) |-> Plain(toks[i])]

Meant(t) ==
  LET starts(i) == CHOOSE k \in DOMAIN t.end : t.end[k] = i
      attrs(i) == [j \in 1..Len(t.tok[i].attr) |->
                     [t.tok[i].attr[j] EXCEPT !.name = IF @[1] = "" THEN @ ELSE FullName(t, i, @)]]
  IN  [i \in 1..Len(t.tok) |->
         CASE t.tok[i].kind = "start" -> Plain([t.tok[i] EXCEPT !.name = NameOf(t, i), !.attr = attrs(i)])
           [] t.tok[i].kind = "end" -> Plain(EndTag(NameOf(t, starts(i))))
           [] OTHER -> Plain(t.tok[i])]

Encoded(toks) == FoldLeft(EncodeToken, NewEncoder, toks)

(* An answer, as a client should read it.                                  *)
Wrapped(name, inner) == <<Plain(StartTag(name, <<>>))>> \o inner \o <<Plain(EndTag(name))>>
Dav(local, inner) == Wrapped(<<"DAV:", local>>, inner)
AnswerMeaning(responses) ==
  Dav("multistatus", FlattenSeq([r \in 1..Len(responses) |->
    Dav("response", Dav("href", <<>>) \o FlattenSeq([s \in 1..Len(responses[r]) |->
      Dav("propstat",
        Dav("prop", FlattenSeq([i \in 1..Len(responses[r][s]) |-> Wrapped(responses[r][s][i], <<>>)]))
          \o Dav("status", <<>>))]))]))

(* A document arrives, is handled and is done with.                        *)
Unread == [kind |-> "none", doc |-> <<>>, read |-> <<>>]
Documents ==
  [fragment |-> Fragments, propfind |-> PropfindDocs, proppatch |-> ProppatchDocs,
   lock |-> LockDocs, answer |-> Answers]
Handled(kind, doc) ==
  CASE kind = "fragment" -> Tokens(doc)
    [] kind = "propfind" -> ReadPropfind(doc)
    [] kind = "proppatch" -> ReadProppatch(doc)
    [] kind = "lock" -> ReadLockInfo(doc)
    [] kind = "answer" -> Multistatus(doc)

Arrive ==
  /\ body = Unread
  /\ \E kind \in DOMAIN Documents : \E doc \in Documents[kind] :
       body' = [kind |-> kind, doc |-> doc, read |-> <<>>]
Handle ==
  /\ body # Unread /\ body.read = <<>>
  /\ body' = [body EXCEPT !.read = <<Handled(body.kind, body.doc)>>]

(* What has been read of a document of this kind.                          *)
ReadAs(kind) == IF body.kind = kind THEN ToSet(body.read) ELSE {}
ReadAgain(e, toks) == LET again == Tokens(e.out) IN ~e.err /\ again.ok /\ PlainAll(again.toks) = toks

(* Of each document (Decoder.Token, Encoder.EncodeToken): its names are    *)
(* those that the declarations in scope give them; encoded again, as       *)
(* property values are, and read again they are the same.  The answers of  *)
(* multistatusWriter are read with the names of the properties that went   *)
(* into them, in whatever namespace.                                       *)
NamesKept ==
  /\ \A r \in ReadAs("fragment") :
       /\ LET t == Tree(body.doc) IN Alone(t) => r.ok /\ PlainAll(r.toks) = Meant(t)
       /\ r.ok => LET e == Encoded(r.toks) IN e.err \/ ReadAgain(e, PlainAll(r.toks))
  /\ \A e \in ReadAs("answer") : ReadAgain(e, AnswerMeaning(body.doc))

(* A body of PROPFIND, PROPPATCH or LOCK (readPropfind, readProppatch,     *)
(* readLockInfo) is read as what it says, whatever else it contains, and   *)
(* refused exactly when its first element is incomplete, has another name, *)
(* has an empty list of properties or values where none may be.  Nothing   *)
(* is said of the bodies on which the code departs from its comments.      *)
BodiesRead ==
  /\ \A r \in ReadAs("propfind") : PropfindDeparts(body.doc) \/ r = PropfindMeaning(body.doc)
  /\ \A r \in ReadAs("proppatch") : ProppatchDeparts(body.doc) \/ r = ProppatchMeaning(body.doc)
  /\ \A r \in ReadAs("lock") : r = LockMeaning(body.doc)
=============================================================================
