----------------------------- MODULE XmlReader -----------------------------
(***************************************************************************)
(* How the bodies of PROPFIND and PROPPATCH are read: the decoder of       *)
(* pkg/webdav/internal/xml (tokens, namespaces, the stack of open          *)
(* elements), its Unmarshal into the structures of pkg/webdav/xml.go, and  *)
(* the readers of the two bodies.                                          *)
(*                                                                         *)
(* A document is a sequence of lexical tokens; bytes, entities, quotes and *)
(* line numbers are left out, and whatever the lexer refuses is the token  *)
(* Bad.  A name is <<space, local>>, its space a prefix before translation *)
(* and a URL after it.  Each operation of the decoder maps its state to    *)
(* the next one.                                                           *)
(***************************************************************************)
EXTENDS XmlTypes

StartTag(name, attr) == [kind |-> "start", name |-> name, attr |-> attr, empty |-> FALSE]
EmptyTag(name, attr) == [StartTag(name, attr) EXCEPT !.empty = TRUE]
EndTag(name) == [StartTag(name, <<>>) EXCEPT !.kind = "end"]
Other(kind) == [StartTag(<<"", "">>, <<>>) EXCEPT !.kind = kind]
Text == Other("text")
Misc == Other("misc")               \* a comment, directive or processing instruction
Bad == Other("bad")
Attr(name, value) == [name |-> name, value |-> value]

XmlURL == "http://www.w3.org/XML/1998/namespace"

(* A decoder:                                                              *)
(*   in     what has not been read                                         *)
(*   close  the end tag that an empty element still owes                   *)
(*   ns     from prefixes in scope to URLs                                 *)
(*   stk    the stack, its top first                                       *)
(*   tok    the last token                                                 *)
(*   err    of the last operation: "", "EOF" or "error"                    *)
NewDecoder(doc) ==
  [in |-> doc, close |-> <<>>, ns |-> [p \in {} |-> ""], stk |-> <<>>, tok |-> Misc, err |-> ""]

Fail(d, err) == [d EXCEPT !.err = err]
Took(d, tok) == [d EXCEPT !.tok = tok, !.err = ""]

(* Syntax errors stay: all that follows is Bad.                            *)
SyntaxError(d) == [d EXCEPT !.in = <<Bad>>, !.close = <<>>, !.err = "error"]

(* rawToken, a start tag.                                                  *)
RawStart(d, t) ==
  Took([d EXCEPT !.in = Tail(@), !.close = IF t.empty THEN <<t.name>> ELSE <<>>],
       [t EXCEPT !.empty = FALSE])

(* rawToken, the other tokens.                                             *)
RawToken(d) ==
  CASE d.close # <<>> -> Took([d EXCEPT !.close = <<>>], EndTag(d.close[1]))
    [] d.close = <<>> /\ d.in = <<>> -> Fail(d, "EOF")
    [] OTHER -> LET t == Head(d.in)
                IN  CASE t.kind = "bad" -> SyntaxError(d)
                      [] t.kind = "start" -> RawStart(d, t)
                      [] OTHER -> Took([d EXCEPT !.in = Tail(@)], t)

-----------------------------------------------------------------------------
(* Namespaces and the stack.                                               *)

(* The default namespace is that of elements only.                         *)
Translate(ns, name, isElementName) ==
  LET keeps == \/ name[1] = "xmlns"
               \/ name[1] = "" /\ (~isElementName \/ name[2] = "xmlns")
  IN  IF keeps THEN name
      ELSE IF name[1] = "xml" THEN <<XmlURL, name[2]>>
      ELSE IF name[1] \in DOMAIN ns THEN <<ns[name[1]], name[2]>> ELSE name

StackFrame(kind, name, ok) == [kind |-> kind, name |-> name, ok |-> ok]
Top(d) == IF d.stk = <<>> THEN StackFrame("none", <<"", "">>, FALSE) ELSE Head(d.stk)
PushElement(d, name) == [d EXCEPT !.stk = <<StackFrame("start", name, FALSE)>> \o @]

Bind(ns, prefix, url) == [p \in DOMAIN ns \cup {prefix} |-> IF p = prefix THEN url ELSE ns[p]]
Unbind(ns, prefix) == Restrict(ns, DOMAIN ns \ {prefix})

(* The binding that is hidden lies on the stack until the element ends.    *)
PushNs(d, prefix, url) ==
  LET ok == prefix \in DOMAIN d.ns
      old == <<IF ok THEN d.ns[prefix] ELSE "", prefix>>
  IN  [d EXCEPT !.stk = <<StackFrame("ns", old, ok)>> \o @, !.ns = Bind(@, prefix, url)]

Declares(a) == a.name[1] = "xmlns" \/ a.name = <<"", "xmlns">>
Declare(d, a) == IF Declares(a) THEN PushNs(d, IF a.name[1] = "" THEN "" ELSE a.name[2], a.value) ELSE d

(* Up to the next element or mark, the hidden bindings are restored.       *)
UndoNs(d) ==
  LET i == Cardinality({j \in 1..Len(d.stk) : \A k \in 1..j : d.stk[k].kind = "ns"})
      undo(ns, f) == IF f.ok THEN Bind(ns, f.name[2], f.name[1]) ELSE Unbind(ns, f.name[2])
  IN  [d EXCEPT !.stk = SubSeq(@, i + 1, Len(@)),
                !.ns = FoldLeft(undo, @, SubSeq(d.stk, 1, i))]

PopElement(d, name) ==
  IF Top(d).kind # "start" \/ Top(d).name # name THEN SyntaxError(d)
  ELSE UndoNs([d EXCEPT !.stk = Tail(@)])

(* Variant: the mark stands right below the element, above what its        *)
(* declarations have hidden.                                               *)
PushEOF_Above(d) ==
  LET start == SelectInSeq(d.stk, LAMBDA f : f.kind = "start")
  IN  [d EXCEPT !.stk = InsertAt(@, start + 1, StackFrame("EOF", <<"", "">>, FALSE))]

(* A mark below the current element and its declarations: Token gives EOF  *)
(* once the element has ended.                                             *)
PushEOF(d) ==
  LET start == SelectInSeq(d.stk, LAMBDA f : f.kind = "start")
      last == CHOOSE j \in start..Len(d.stk) :
                /\ \A k \in start+1..j : d.stk[k].kind = "ns"
                /\ j = Len(d.stk) \/ d.stk[j+1].kind # "ns"
  IN  [d EXCEPT !.stk = InsertAt(@, last + 1, StackFrame("EOF", <<"", "">>, FALSE))]

PopEOF(d) == [d EXCEPT !.stk = Tail(@)]

StartToken(d) ==
  LET e == FoldLeft(Declare, d, d.tok.attr)
      name == Translate(e.ns, d.tok.name, TRUE)
      attr == [i \in 1..Len(d.tok.attr) |->
                 [d.tok.attr[i] EXCEPT !.name = Translate(e.ns, @, FALSE)]]
  IN  Took(PushElement(e, name), [d.tok EXCEPT !.name = name, !.attr = attr])

EndToken(d) ==
  LET name == Translate(d.ns, d.tok.name, TRUE)
      e == PopElement(d, name)
  IN  IF e.err # "" THEN e ELSE Took(e, [d.tok EXCEPT !.name = name])

Token(d) ==
  IF Top(d).kind = "EOF" THEN Fail(d, "EOF")
  ELSE LET r == RawToken(d)
       IN  CASE r.err # "" -> r
             [] r.err = "" /\ r.tok.kind = "start" -> StartToken(r)
             [] r.err = "" /\ r.tok.kind = "end" -> EndToken(r)
             [] OTHER -> r

(* next(): comments, processing instructions and directives are passed.    *)
RECURSIVE NextToken(_)
PassMisc(r) == IF r.err = "" /\ r.tok.kind = "misc" THEN NextToken(r) ELSE r
NextToken(d) == PassMisc(Token(d))

(* Skip: up to the end of the element that the last token has started.     *)
RECURSIVE Skip(_)
SkipOn(s) == IF s.err # "" THEN s ELSE Skip(s)
SkipToken(r) ==
  CASE r.err # "" -> r
    [] r.err = "" /\ r.tok.kind = "end" -> r
    [] r.err = "" /\ r.tok.kind = "start" -> SkipOn(Skip(r))
    [] OTHER -> Skip(r)
Skip(d) == SkipToken(Token(d))

-----------------------------------------------------------------------------
(* The values with an UnmarshalXML of their own.  A result is the decoder  *)
(* and the value, <<d, v>>.                                                *)

(* propfindProps: names of empty elements, one at least.  The names that   *)
(* an earlier element of the field gave count.                             *)
RECURSIVE PropfindProps(_, _)
NameElement(e, name, names) ==
  CASE e.err # "" -> <<e, names>>
    [] e.err = "" /\ e.tok.kind = "end" -> PropfindProps(e, Append(names, name))
    [] OTHER -> <<Fail(e, "error"), names>>
NameToken(r, names) ==
  CASE r.err # "" -> <<r, names>>
    [] r.err = "" /\ r.tok.kind = "end" ->
         <<IF names = <<>> THEN Fail(r, "error") ELSE r, names>>
    [] r.err = "" /\ r.tok.kind = "start" -> NameElement(NextToken(r), r.tok.name, names)
    [] OTHER -> PropfindProps(r, names)
PropfindProps(d, names) == NameToken(NextToken(d), names)

(* unmarshalInterface: the value must take its element, not more or less.  *)
Consumed(result) ==
  LET d == result[1]
      marked == Top(d).kind = "EOF"
      e == IF marked THEN PopEOF(d) ELSE d
  IN  <<IF d.err = "" /\ ~marked THEN Fail(e, "error") ELSE e, result[2]>>

(* An attribute xmlns with a prefix, which the encoder refuses.            *)
Redefines(a) == a.name[2] = "xmlns" /\ a.name[1] \notin {"", "xml", XmlURL}

(* xmlValue: the tokens up to the first end tag of the same name.  They    *)
(* are encoded again, as XmlWriter does it.                                *)
RECURSIVE XmlValue(_, _, _)
ValueToken(r, name, value) ==
  CASE r.err # "" -> <<r, value>>
    [] r.err = "" /\ r.tok.kind = "end" /\ r.tok.name = name -> <<r, value>>
    [] r.err = "" /\ \E i \in 1..Len(r.tok.attr) : Redefines(r.tok.attr[i]) -> <<Fail(r, "error"), value>>
    [] OTHER -> XmlValue(r, name, Append(value, r.tok))
XmlValue(d, name, value) == ValueToken(NextToken(d), name, value)

(* proppatchProps: names with their values, one at least.                  *)
RECURSIVE ProppatchProps(_, _)
PropValue(v, name, props) ==
  IF v[1].err # "" THEN <<v[1], props>>
  ELSE ProppatchProps(v[1], Append(props, [name |-> name, value |-> v[2]]))
PropToken(r, props) ==
  CASE r.err # "" -> <<r, props>>
    [] r.err = "" /\ r.tok.kind = "end" ->
         <<IF props = <<>> THEN Fail(r, "error") ELSE r, props>>
    [] r.err = "" /\ r.tok.kind = "start" ->
         PropValue(Consumed(XmlValue(PushEOF(r), r.tok.name, <<>>)), r.tok.name, props)
    [] OTHER -> ProppatchProps(r, props)
ProppatchProps(d, props) == PropToken(NextToken(d), props)

-----------------------------------------------------------------------------
(* Structures, of which Unmarshal knows the typeInfo.  In a part with the  *)
(* name "" of a field's names there may be any.                            *)
(* Before anything is read.  What is not a list is TRUE once it was read.  *)
Zero(fields) ==
  [l \in {fields[i].local : i \in 1..Len(fields)} |->
     IF \E i \in 1..Len(fields) : fields[i].local = l /\ fields[i].kind \in {"names", "values"} THEN <<>> ELSE FALSE]

(* An element without fields: its end is looked for.                       *)
RECURSIVE UnmarshalNothing(_)
NothingOn(s) == IF s.err # "" THEN s ELSE UnmarshalNothing(s)
NothingToken(r) ==
  CASE r.err # "" -> r
    [] r.err = "" /\ r.tok.kind = "end" -> r
    [] r.err = "" /\ r.tok.kind = "start" -> NothingOn(Skip(r))
    [] OTHER -> UnmarshalNothing(r)
UnmarshalNothing(d) == NothingToken(Token(d))

(* unmarshal, for the value of a field; the start tag is d's last token.   *)
PutField(r, f, v) == <<r[1], [v EXCEPT ![f.local] = r[2]]>>
UnmarshalField(d, f, v) ==
  CASE f.kind = "names" -> PutField(Consumed(PropfindProps(PushEOF(d), v[f.local])), f, v)
    [] f.kind = "values" -> PutField(Consumed(ProppatchProps(PushEOF(d), v[f.local])), f, v)
    [] OTHER -> PutField(<<UnmarshalNothing(d), TRUE>>, f, v)

(* unmarshalPath: the first field whose path the element ends, or is on.   *)
(* What no field wants is skipped.                                         *)
On(f, parents, name) ==
  "element" \in f.mode /\ IsPrefix(parents, f.parents) /\ f.space \in {"", name[1]}
Ends(f, parents, name) == On(f, parents, name) /\ f.parents = parents /\ f.local = name[2]
Leads(f, parents, name) ==
  On(f, parents, name) /\ Len(f.parents) > Len(parents) /\ f.parents[Len(parents) + 1] = name[2]

RECURSIVE UnmarshalParent(_, _, _, _)
UnmarshalPath(d, fields, parents, v) ==
  LET i == SelectInSeq(fields, LAMBDA f : Ends(f, parents, d.tok.name) \/ Leads(f, parents, d.tok.name))
  IN  CASE i = 0 -> <<Skip(d), v>>
        [] i > 0 /\ Ends(fields[i], parents, d.tok.name) -> UnmarshalField(d, fields[i], v)
        [] OTHER -> UnmarshalParent(d, fields, Append(parents, d.tok.name[2]), v)
ParentOn(u, fields, parents) == IF u[1].err # "" THEN u ELSE UnmarshalParent(u[1], fields, parents, u[2])
ParentToken(r, fields, parents, v) ==
  CASE r.err # "" -> <<r, v>>
    [] r.err = "" /\ r.tok.kind = "end" -> <<r, v>>
    [] r.err = "" /\ r.tok.kind = "start" -> ParentOn(UnmarshalPath(r, fields, parents, v), fields, parents)
    [] OTHER -> UnmarshalParent(r, fields, parents, v)
UnmarshalParent(d, fields, parents, v) == ParentToken(Token(d), fields, parents, v)

(* The element to decode into: the first of the document.                  *)
RECURSIVE FindStart(_)
UntilStart(r) == IF r.err # "" \/ r.tok.kind = "start" THEN r ELSE FindStart(r)
FindStart(d) == UntilStart(Token(d))

(* unmarshal into a structure: the element must have its name.             *)
UnmarshalStruct(r, info) ==
  CASE r.err # "" -> <<r, Zero(info.fields)>>
    [] r.err = "" /\ (\/ ~info.ok \/ info.xmlname[2] \notin {"", r.tok.name[2]}
                      \/ info.xmlname[1] \notin {"", r.tok.name[1]}) ->
         <<Fail(r, "error"), Zero(info.fields)>>
    [] OTHER -> UnmarshalParent(r, info.fields, <<>>, Zero(info.fields))

(* Of a propertyupdate every child is a setRemove, whatever its name.      *)
RECURSIVE SetRemoves(_, _)
SetRemoveOn(u, name, ops) ==
  IF u[1].err # "" THEN <<u[1], ops>>
  ELSE SetRemoves(u[1], Append(ops, [name |-> name, props |-> u[2]["prop"]]))
SetRemoveToken(r, ops) ==
  CASE r.err # "" -> <<r, ops>>
    [] r.err = "" /\ r.tok.kind = "end" -> <<r, ops>>
    [] r.err = "" /\ r.tok.kind = "start" ->
         SetRemoveOn(UnmarshalStruct(r, TypeInfo(SetRemove)), r.tok.name, ops)
    [] OTHER -> SetRemoves(r, ops)
SetRemoves(d, ops) == SetRemoveToken(Token(d), ops)

UnmarshalUpdate(r, info) ==
  CASE r.err # "" -> <<r, <<>>>>
    [] r.err = "" /\ (~info.ok \/ info.xmlname # r.tok.name) -> <<Fail(r, "error"), <<>>>>
    [] OTHER -> SetRemoves(r, <<>>)

-----------------------------------------------------------------------------
(* readPropfind: the decoded body; Webdav has the rules on what stands     *)
(* together.                                                               *)
PropfindBody(kind, v) ==
  [kind |-> kind, allprop |-> v["allprop"], propname |-> v["propname"],
   prop |-> v["prop"], include |-> v["include"]]
PropfindRead(r, info) ==
  IF r[1].err # "" THEN PropfindBody("broken", Zero(info.fields)) ELSE PropfindBody("doc", r[2])
ReadPropfind(doc) ==
  IF doc = <<>> THEN PropfindBody("empty", Zero(TypeInfo(Propfind).fields))
  ELSE PropfindRead(UnmarshalStruct(FindStart(NewDecoder(doc)), TypeInfo(Propfind)), TypeInfo(Propfind))

(* readProppatch: the properties of each instruction, or that it is bad.   *)
BadUpdate(op) ==
  \/ op.name \notin {<<"DAV:", "set">>, <<"DAV:", "remove">>}
  \/ op.name[2] = "remove" /\ \E i \in 1..Len(op.props) : op.props[i].value # <<>>
ProppatchRead(u) ==
  IF u[1].err # "" \/ \E i \in 1..Len(u[2]) : BadUpdate(u[2][i])
    THEN [ok |-> FALSE, patches |-> <<>>]
  ELSE [ok |-> TRUE, patches |-> [i \in 1..Len(u[2]) |->
          [j \in 1..Len(u[2][i].props) |-> u[2][i].props[j].name]]]
ReadProppatch(doc) ==
  ProppatchRead(UnmarshalUpdate(FindStart(NewDecoder(doc)), TypeInfo(Propertyupdate)))

(* readLockInfo: an empty body refreshes; only exclusive write locks.      *)
LockInfoRead(r) ==
  CASE r[1].err # "" -> 400
    [] r[1].err = "" /\ (~r[2]["exclusive"] \/ r[2]["shared"] \/ ~r[2]["write"]) -> 501
    [] OTHER -> 0
ReadLockInfo(doc) ==
  IF doc = <<>> THEN 0 ELSE LockInfoRead(UnmarshalStruct(FindStart(NewDecoder(doc)), TypeInfo(LockInfo)))
=============================================================================
