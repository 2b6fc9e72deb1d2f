----------------------------- MODULE XmlWriter -----------------------------
(***************************************************************************)
(* How XML is written: the printer of pkg/webdav/internal/xml (start and   *)
(* end tags, the prefixes that it declares for namespaces) and what the    *)
(* multistatus answers of pkg/webdav/xml.go make it write.                 *)
(*                                                                         *)
(* What is written is a sequence of lexical tokens as XmlReader reads them.*)
(* Escaping, indentation and text are left out.  Each operation of the     *)
(* printer maps its state to the next one.                                 *)
(***************************************************************************)
EXTENDS XmlReader, TLC

CONSTANTS
  Hint,             \* of a URL: its last path element as a prefix, else "_"
  PrefixedNames     \* the local names that are written as "D:" and the name

DavPrefixed(local) == "D:" \o local

(* A printer:                                                              *)
(*   defaultNS   the default namespace in scope                            *)
(*   attrNS      from prefixes in scope to URLs                            *)
(*   attrPrefix  from URLs to prefixes                                     *)
(*   prefixes    what is undone at the end of the elements, their marks    *)
(*   tags        the names of the open elements                            *)
(*   seq         the number of the last prefix that was made up            *)
(*   out, err    what was written; an operation has failed                 *)
NewEncoder ==
  [defaultNS |-> "", attrNS |-> [p \in {} |-> ""], attrPrefix |-> [u \in {} |-> ""],
   prefixes |-> <<>>, tags |-> <<>>, seq |-> 0, out |-> <<>>, err |-> FALSE]

Without(f, S) == Restrict(f, DOMAIN f \ S)
Write(p, tok) == [p EXCEPT !.out = Append(@, tok)]

NsForPrefix(p, prefix) ==
  IF prefix = "" THEN p.defaultNS
  ELSE IF prefix \in DOMAIN p.attrNS THEN p.attrNS[prefix] ELSE ""

(* An empty prefix stands for the default; an empty URL removes a prefix.  *)
(* No URL has two prefixes.                                                *)
SetAttrPrefix(p, prefix, url) ==
  LET old == {NsForPrefix(p, prefix)}
  IN  IF prefix = "" THEN [p EXCEPT !.defaultNS = url]
      ELSE IF url = "" THEN [p EXCEPT !.attrPrefix = Without(@, old), !.attrNS = Without(@, {prefix})]
      ELSE [p EXCEPT !.attrPrefix = Bind(Without(@, old), url, prefix), !.attrNS = Bind(@, prefix, url)]

PushPrefix(p, prefix, url) ==
  SetAttrPrefix([p EXCEPT !.prefixes =
                   Append(@, [prefix |-> prefix, url |-> NsForPrefix(p, prefix), mark |-> FALSE])],
                prefix, url)

MarkPrefix(p) == [p EXCEPT !.prefixes = Append(@, [prefix |-> "", url |-> "", mark |-> TRUE])]

(* The declarations of the current element, the last one first.            *)
Declared(p) ==
  LET mark == CHOOSE i \in 1..Len(p.prefixes) :
                p.prefixes[i].mark /\ \A j \in i+1..Len(p.prefixes) : ~p.prefixes[j].mark
  IN  Reverse(SubSeq(p.prefixes, mark + 1, Len(p.prefixes)))

PopPrefix(p) ==
  LET undo(q, x) == SetAttrPrefix(q, x.prefix, x.url)
      q == FoldLeft(undo, p, Declared(p))
  IN  [q EXCEPT !.prefixes = SubSeq(@, 1, Len(@) - Len(Declared(p)) - 1)]

IsNamespace(name) == name[2] = "xmlns" \/ name[1] = "xmlns"

(* An explicit declaration.  The default cannot be declared on an element  *)
(* without a namespace, and a URL that has a prefix keeps it.              *)
DefineNS(p, a, ignoreNonEmptyDefault) ==
  LET prefix == IF a.name[2] = "xmlns" THEN "" ELSE a.name[2]
  IN  CASE Redefines(a) -> [p EXCEPT !.err = TRUE]
        [] ~IsNamespace(a.name) -> p
        [] OTHER ->
             IF \/ prefix # "" /\ (a.value = "" \/ a.value \in DOMAIN p.attrPrefix)
                \/ prefix = "" /\ (a.value = p.defaultNS \/ (a.value # "" /\ ignoreNonEmptyDefault))
               THEN p ELSE PushPrefix(p, prefix, a.value)

(* The first number that makes a prefix of the hint that is not taken.     *)
FreeNumber(p, hint) ==
  CHOOSE n \in p.seq+1..p.seq+1+Cardinality(DOMAIN p.attrNS) :
    /\ hint \o "_" \o ToString(n) \notin DOMAIN p.attrNS
    /\ \A m \in p.seq+1..n-1 : hint \o "_" \o ToString(m) \in DOMAIN p.attrNS

(* Variant: the hint is used whether it is taken or not.                   *)
CreateNSPrefix_Taken(p, url, isAttr) ==
  IF url \in DOMAIN p.attrPrefix \/ (~isAttr /\ url = p.defaultNS) THEN p
  ELSE IF url = "" THEN IF p.defaultNS # "" THEN PushPrefix(p, "", "") ELSE p
  ELSE IF url = XmlURL THEN p
  ELSE PushPrefix(p, Hint[url], url)

(* A prefix for a URL that has none.  Names without a namespace need the   *)
(* default to be empty.                                                    *)
CreateNSPrefix(p, url, isAttr) ==
  IF url \in DOMAIN p.attrPrefix \/ (~isAttr /\ url = p.defaultNS) THEN p
  ELSE IF url = "" THEN IF p.defaultNS # "" THEN PushPrefix(p, "", "") ELSE p
  ELSE IF url = XmlURL THEN p
  ELSE IF Hint[url] \notin DOMAIN p.attrNS THEN PushPrefix(p, Hint[url], url)
  ELSE LET n == FreeNumber(p, Hint[url])
       IN  PushPrefix([p EXCEPT !.seq = n], Hint[url] \o "_" \o ToString(n), url)

PrefixForNS(p, url, isAttr) ==
  IF url = XmlURL THEN "xml"
  ELSE IF ~isAttr /\ url = p.defaultNS THEN ""
  ELSE IF url \in DOMAIN p.attrPrefix THEN p.attrPrefix[url] ELSE ""

(* A name as it will be read: prefix and local name, a prefix that is part *)
(* of the local name included.                                             *)
WriteName(p, name, isAttr) ==
  LET prefix == PrefixForNS(p, name[1], isAttr)
      literal == {l \in PrefixedNames : DavPrefixed(l) = name[2]}
  IN  IF prefix = "" /\ literal # {} THEN <<"D", CHOOSE l \in literal : TRUE>> ELSE <<prefix, name[2]>>

WriteNamespaces(p) ==
  [i \in 1..Len(Declared(p)) |->
     LET prefix == Declared(p)[i].prefix
     IN  Attr(IF prefix = "" THEN <<"", "xmlns">> ELSE <<"xmlns", prefix>>, NsForPrefix(p, prefix))]

WriteStart(p, name, attr) ==
  LET define(q, a) == DefineNS(q, a, name[1] = "")
      create(q, a) == IF a.name[1] = "" \/ IsNamespace(a.name) THEN q
                      ELSE CreateNSPrefix(q, a.name[1], TRUE)
      marked == MarkPrefix([p EXCEPT !.tags = Append(@, name)])
      q == CreateNSPrefix(FoldLeft(create, FoldLeft(define, marked, attr), attr), name[1], FALSE)
      plain == SelectSeq(attr, LAMBDA a : ~IsNamespace(a.name))
      written == [i \in 1..Len(plain) |-> Attr(WriteName(q, plain[i].name, TRUE), plain[i].value)]
  IN  IF q.err THEN q ELSE Write(q, StartTag(WriteName(q, name, FALSE), WriteNamespaces(q) \o written))

WriteEnd(p, name) ==
  IF p.tags = <<>> \/ Last(p.tags) # name THEN [p EXCEPT !.err = TRUE]
  ELSE PopPrefix(Write([p EXCEPT !.tags = Front(@)], EndTag(WriteName(p, name, FALSE))))

EncodeToken(p, t) ==
  CASE p.err -> p
    [] ~p.err /\ t.kind = "start" -> WriteStart(p, t.name, t.attr)
    [] ~p.err /\ t.kind = "end" -> WriteEnd(p, t.name)
    [] OTHER -> Write(p, t)

-----------------------------------------------------------------------------
(* A value that marshalValue writes:                                       *)
(*   name      of the element; only the local part if it has no namespace  *)
(*             of its own                                                  *)
(*   explicit  the namespace is part of the name, an empty one too         *)
(*   parts     its fields, or <<>>: elements around them, and values       *)
(*   raw       what innerxml is, written as it is                          *)
Element(name, explicit, parts) == [name |-> name, explicit |-> explicit, parts |-> parts, raw |-> <<>>]
Leaf(local) == Element(<<"", local>>, FALSE, <<>>)
Part(parents, values) == [parents |-> parents, values |-> values]

(* setDefaultNamespace: a namespace becomes the default below its element. *)
SetDefaultNamespace(name) == IF name[1] = "" THEN <<>> ELSE <<Attr(<<"", "xmlns">>, name[1])>>

(* setParents for the field of the multistatus structures: a slice, which  *)
(* is never nil, so that its parents are written for no value as well.     *)
OpenParents(p, parents) ==
  FoldLeft(LAMBDA q, l : WriteStart(q, <<p.defaultNS, l>>, <<>>), p, parents)
CloseParents(p, parents, xmlns) == FoldLeft(LAMBDA q, l : WriteEnd(q, <<xmlns, l>>), p, Reverse(parents))

RECURSIVE MarshalValue(_, _)
RECURSIVE MarshalParts(_, _)
MarshalValue(p, v) ==
  LET name == IF v.explicit THEN v.name ELSE <<p.defaultNS, v.name[2]>>
      q == MarshalParts(WriteStart(p, name, SetDefaultNamespace(name)), v.parts)
  IN  WriteEnd([q EXCEPT !.out = @ \o v.raw], name)
MarshalParts(p, parts) ==
  IF parts = <<>> THEN p
  ELSE LET f == Head(parts)
           q == FoldLeft(MarshalValue, OpenParents(p, f.parents), f.values)
       IN  MarshalParts(CloseParents(q, f.parents, p.defaultNS), Tail(parts))

(* propstat.MarshalXML: names in DAV: get the prefix literally.            *)
PropName(name) == IF name[1] = "DAV:" THEN <<"", DavPrefixed(name[2])>> ELSE name

Propstat(names) ==
  Element(<<"", "D:propstat">>, FALSE,
    << Part(<<"D:prop">>, [i \in 1..Len(names) |-> Element(PropName(names[i]), TRUE, <<>>)]),
       Part(<<>>, <<Leaf("D:status")>>) >>)

Response(stats) ==
  Element(<<"", "D:response">>, TRUE,
    << Part(<<>>, <<Leaf("D:href")>>),
       Part(<<>>, [i \in 1..Len(stats) |-> Propstat(stats[i])]) >>)

(* The multistatus element, its responses, one call of write for each, and *)
(* its end.                                                                *)
WriteHeader == WriteStart(NewEncoder, <<"DAV:", "multistatus">>, <<Attr(<<"xmlns", "D">>, "DAV:")>>)
WriteClose(p) == WriteEnd(p, <<"DAV:", "multistatus">>)
Multistatus(responses) == WriteClose(FoldLeft(LAMBDA p, r : MarshalValue(p, Response(r)), WriteHeader, responses))
=============================================================================
