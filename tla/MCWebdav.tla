------------------------------ MODULE MCWebdav ------------------------------
(* Two folders below the root of the account, /a and /a/b, files x in both, *)
(* and rows to spare for one folder and one file.                           *)
EXTENDS Webdav, XmlBodies

CONSTANTS root, home, d1, d2, d3, f1, f2, f3, r1, r2, r3
MCFolder == {root, home, d1, d2, d3}
MCFile == {f1, f2, f3}
MCOldParent == [n \in MCFolder \cup MCFile |->
  CASE n = home -> root [] n = d1 -> home [] n = d2 -> d1 [] n = f1 -> home [] n = f2 -> d1
    [] OTHER -> Nowhere]
MCOldName == [n \in MCFolder \cup MCFile |->
  CASE n = d1 -> "a" [] n = d2 -> "b" [] n \in {f1, f2} -> "x" [] n = home -> "h" [] OTHER -> "a"]
MCId == [n \in MCFolder \cup MCFile |->
  CASE n = root -> 1 [] n = home -> 2 [] n \in {d1, f1} -> 3 [] n \in {d2, f2} -> 4
    [] n = d3 -> 5 [] n = f3 -> 6]
MCPaths == {<<>>, <<"a">>, <<"a", "b">>}
MCAccountRoot == <<"h">>

-----------------------------------------------------------------------------
(* Documents.  Fragments: three elements, nested or beside each other, of  *)
(* all kinds of names and declarations, and what is left of them when they *)
(* are cut off.                                                            *)
Wrap(start, inner) == <<start>> \o inner \o <<EndTag(start.name)>>
DefaultIs(url) == Attr(<<"", "xmlns">>, url)
PrefixIs(p, url) == Attr(<<"xmlns", p>>, url)
Starts ==
  {StartTag(<<"", "a">>, attr) : attr \in
     {<<>>, <<DefaultIs("u/p")>>, <<DefaultIs("")>>, <<PrefixIs("p", "u/p")>>, <<DefaultIs("urn:x")>>}} \cup
  {StartTag(<<"p", "a">>, attr) : attr \in
     {<<>>, <<PrefixIs("p", "u/p")>>, <<PrefixIs("q", "u/p"), PrefixIs("p", "urn:y")>>,
      <<Attr(<<"p", "x">>, "1"), PrefixIs("p", "v"), DefaultIs("urn:x")>>}} \cup
  {StartTag(<<"q", "b">>, attr) : attr \in
     {<<PrefixIs("q", "urn:x")>>, <<Attr(<<"xml", "lang">>, "1"), Attr(<<"p", "x">>, "1"), Attr(<<"", "y">>, "1")>>,
      <<Attr(<<"p", "xmlns">>, "1")>>}}
Whole ==
  {Wrap(e, Wrap(f, Wrap(g, <<Text>>))) : e \in Starts, f \in Starts, g \in Starts} \cup
  {Wrap(e, Wrap(f, <<Misc>>) \o Wrap(g, <<>>)) : e \in Starts, f \in Starts, g \in Starts}
Cut(docs) == UNION {{SubSeq(d, 1, n) : n \in 0..Len(d)} : d \in docs}
Damaged(docs) == docs \cup Cut(docs) \cup UNION {{RemoveAt(d, n) : n \in 1..Len(d)} : d \in docs}
MCFragments ==
  Whole \cup Damaged({Wrap(e, <<Text>> \o Wrap(f, <<>>)) : e \in Starts, f \in Starts})
    \cup {Front(Wrap(e, <<>>)) \o <<EndTag(<<"q", "a">>)>> :
            e \in {StartTag(<<"p", "a">>, <<PrefixIs("p", "u/p"), PrefixIs("q", "u/p")>>)}}

(* Bodies: a root with up to two parts, whole or damaged.                  *)
D(local) == StartTag(<<"D", local>>, <<>>)
DE(local) == EmptyTag(<<"D", local>>, <<>>)
Author == EmptyTag(<<"", "author">>, <<DefaultIs("urn:x")>>)
RootOf(local) == StartTag(<<"D", local>>, <<PrefixIs("D", "DAV:")>>)
Upto2(S) == {<<>>} \cup S \cup {x \o y : x \in S, y \in S}

Lists == {<<>>, <<DE("getetag")>>, <<Text, Author, Misc, DE("displayname")>>,
          Wrap(D("getetag"), <<Misc>>), Wrap(D("getetag"), <<Text>>), Wrap(D("getetag"), <<DE("href")>>)}
PropfindParts ==
  {Wrap(D("prop"), l) : l \in Lists} \cup {Wrap(D("include"), l) : l \in {<<>>, <<DE("getetag")>>}} \cup
  {<<DE("allprop")>>, <<DE("propname")>>, <<EmptyTag(<<"", "prop">>, <<>>)>>, <<Text>>,
   Wrap(D("other"), Wrap(D("prop"), <<DE("getetag")>>)), <<Bad>>}
MCPropfindDocs ==
  Damaged({Wrap(RootOf("propfind"), parts) : parts \in Upto2(PropfindParts)})
    \cup {<<Misc>> \o Wrap(RootOf("propfind"), <<DE("allprop")>>) \o rest : rest \in {<<Text>>, <<Bad>>}}

Values == {<<>>, <<Misc>>, <<Text>>, <<DE("getetag")>>, <<DE("author")>>,
           <<EmptyTag(<<"", "x">>, <<Attr(<<"D", "xmlns">>, "1")>>)>>}
PropLists ==
  {<<>>} \cup {Wrap(D("author"), v) : v \in Values} \cup
  {<<Author, DE("getetag")>>, Wrap(D("author"), Wrap(D("x"), <<DE("author")>>))}
Instructions ==
  {Wrap(D(op), Wrap(D("prop"), l)) : op \in {"set", "remove"}, l \in PropLists} \cup
  {<<DE("set")>>, Wrap(D("append"), Wrap(D("prop"), <<Author>>)), <<Text>>,
   Wrap(D("set"), Wrap(D("prop"), <<Author>>) \o Wrap(D("prop"), <<>>))}
MCProppatchDocs ==
  {Wrap(RootOf("propertyupdate"), ops) : ops \in Upto2(Instructions)}
    \cup Damaged({Wrap(RootOf("propertyupdate"), op) : op \in Instructions})

Scope(l) == Wrap(StartTag(<<"", "lockscope">>, <<>>), [i \in 1..Len(l) |-> EmptyTag(<<"", l[i]>>, <<>>)])
Type(l) == Wrap(StartTag(<<"", "locktype">>, <<>>), [i \in 1..Len(l) |-> EmptyTag(<<"", l[i]>>, <<>>)])
Owner == Wrap(StartTag(<<"", "owner">>, <<>>), <<Text>>)
MCLockDocs ==
  Damaged({Wrap(StartTag(<<"", "lockinfo">>, <<>>), parts) : parts \in
    Upto2({Scope(l) : l \in {<<>>, <<"exclusive">>, <<"shared">>, <<"exclusive", "shared">>, <<"write">>}}
      \cup {Type(<<"write">>), Type(<<>>), Owner})})

Names2 == {<<"DAV:", "getetag">>, <<"", "author">>, <<"urn:x", "getetag">>, <<"u/p", "author">>, <<XmlURL, "lang">>}
MCAnswers == {<<>>, << <<>> >>} \cup {<<r, s>> : r \in {<<l>> : l \in {<<x, y>> : x \in Names2, y \in Names2}},
                                               s \in {<<l, m>> : l \in {<<x>> : x \in Names2}, m \in {<<x>> : x \in Names2}}}
MCHint == [u \in {"v", "p", "q", "D"} |-> u] @@ ("u/p" :> "p") @@ [u \in {"DAV:", "urn:x", "urn:y"} |-> "_"]
MCPrefixed == {"response", "href", "propstat", "prop", "status", "getetag"}

-----------------------------------------------------------------------------
(* The bodies of the requests, and the documents they are read from.  Of a  *)
(* name, Webdav has the local part.                                         *)
Locals(names) == [i \in 1..Len(names) |-> names[i][2]]
Asks(kind, allprop, propname, prop) ==
  [kind |-> kind, allprop |-> allprop, propname |-> propname, prop |-> prop, include |-> <<>>]
MCBodies ==
  {Asks("empty", FALSE, FALSE, <<>>), Asks("doc", FALSE, TRUE, <<>>), Asks("doc", TRUE, TRUE, <<>>),
   Asks("doc", TRUE, FALSE, <<"getetag">>),
   Asks("doc", FALSE, FALSE, <<"displayname", "getetag", "creationdate", "getetag">>)}
Body(doc) ==
  LET b == ReadPropfind(doc)
  IN  [b EXCEPT !.prop = Locals(@), !.include = Locals(@)]
ASSUME BodiesFromDocuments ==
  MCBodies = {Body(doc) : doc \in {<<>>} \cup {Wrap(RootOf("propfind"), parts) : parts \in
     {<<DE("propname")>>, <<DE("propname"), DE("allprop")>>, <<DE("allprop")>> \o Wrap(D("prop"), <<DE("getetag")>>),
      Wrap(D("prop"), <<DE("displayname"), DE("getetag"), DE("creationdate"), DE("getetag")>>)}}}

MCPatches == {<< <<"author">> >>, << <<"author">>, <<"getetag", "color">> >>}
Patched(doc) == LET ops == ReadProppatch(doc).patches IN [i \in 1..Len(ops) |-> Locals(ops[i])]
ASSUME PatchesFromDocuments ==
  MCPatches = {Patched(Wrap(RootOf("propertyupdate"), ops)) : ops \in
     {Wrap(D("remove"), Wrap(D("prop"), <<DE("author")>>)),
      Wrap(D("set"), Wrap(D("prop"), <<DE("author")>>))
        \o Wrap(D("remove"), Wrap(D("prop"), <<DE("getetag"), DE("color")>>))}}

(* Nothing but a document decides what it is read as, so that a document is *)
(* looked at while no request runs.                                         *)
MCInit == Init /\ body = Unread
Documentary == Init /\ (Arrive \/ Handle) /\ UNCHANGED vars
MCNext == (body = Unread /\ Next /\ UNCHANGED body) \/ Documentary
MCSpec == MCInit /\ [][MCNext]_<<vars, body>>

(* What is left of a request that has been answered: who it was for does    *)
(* not matter any more.                                                     *)
Answered ==
  <<row, account, faults, body,
    [r \in Request |->
       IF req[r].pc # "done" THEN req[r]
       ELSE [method |-> req[r].method, asked |-> req[r].asked,
             entries |-> {<<IsDir(e), e.ok, e.rest>> : e \in ToSet(req[r].answer)}]]>>
Symmetry == Permutations({r1, r2, r3})
=============================================================================
