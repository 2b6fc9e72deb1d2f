------------------------------ MODULE XmlTypes ------------------------------
(***************************************************************************)
(* How the XML code sees Go structures: typeinfo.go of                     *)
(* pkg/webdav/internal/xml, on the structures of pkg/webdav/xml.go.        *)
(*                                                                         *)
(* A tag is given as its parts: the namespace before the blank, the names  *)
(* between > and the flags after commas.  No structure embeds another one, *)
(* so every field is at the same depth.                                    *)
(***************************************************************************)
EXTENDS Integers, SequencesExt

Modes == {"attr", "chardata", "innerxml", "comment", "any"}

GoField(name, xmlns, path, flags, type) ==
  [name |-> name, xmlns |-> xmlns, path |-> path, flags |-> flags, type |-> type]
Elem(name, xmlns, path, type) == GoField(name, xmlns, path, {}, type)
XMLName(xmlns, local) == Elem("XMLName", xmlns, <<local>>, "Name")
Lang == GoField("Lang", "", <<"xml:lang">>, {"attr", "omitempty"}, "string")
InnerXML == GoField("InnerXML", "", <<>>, {"innerxml"}, "bytes")

(* What a body is decoded into, and the parts of an answer.  A field that  *)
(* is a pointer counts as what it points to.                               *)
Propfind ==
  << XMLName("DAV:", "propfind"),
     Elem("Allprop", "DAV:", <<"allprop">>, "flag"), Elem("Propname", "DAV:", <<"propname">>, "flag"),
     Elem("Prop", "DAV:", <<"prop">>, "names"), Elem("Include", "DAV:", <<"include">>, "names") >>
Propertyupdate ==
  << XMLName("DAV:", "propertyupdate"), Lang, GoField("SetRemove", "", <<>>, {"any"}, "setRemoves") >>
SetRemove == << Elem("XMLName", "", <<>>, "Name"), Lang, Elem("Prop", "DAV:", <<"prop">>, "values") >>
LockInfo ==
  << XMLName("", "lockinfo"),
     Elem("Exclusive", "", <<"lockscope", "exclusive">>, "flag"),
     Elem("Shared", "", <<"lockscope", "shared">>, "flag"),
     Elem("Write", "", <<"locktype", "write">>, "flag"), Elem("Owner", "", <<"owner">>, "owner") >>
XmlError == << XMLName("", "D:error"), InnerXML >>
PropstatType ==
  << Elem("Prop", "", <<"D:prop", "_ignored_">>, "properties"), Elem("Status", "", <<"D:status">>, "string"),
     Elem("Error", "", <<"D:error">>, "xmlError"),
     GoField("ResponseDescription", "", <<"D:responsedescription">>, {"omitempty"}, "string") >>

(* The structures among the types of fields.                               *)
StructOf(type) == CASE type = "xmlError" -> XmlError [] type = "owner" -> <<InnerXML>> [] OTHER -> <<>>

-----------------------------------------------------------------------------
(* structFieldInfo, its flags: one mode at most, and no name beside one    *)
(* that takes no name.                                                     *)
FlagsOk(f) ==
  LET modes == f.flags \cap Modes
  IN  /\ Cardinality(modes) <= 1
      /\ modes # {} => f.name # "XMLName" /\ (f.path = <<>> \/ modes = {"attr"})
      /\ "omitempty" \in f.flags => modes \subseteq {"attr", "any"}
      /\ f.xmlns # "" => f.path # <<>>

Mode(f) ==
  LET modes == f.flags \cap Modes
  IN  IF modes \subseteq {"any"} THEN modes \cup {"element"} ELSE modes

(* lookupXMLName: the names in the tag of XMLName, or none.                *)
LookupXMLName(struct) ==
  {f \in ToSet(struct) : f.name = "XMLName" /\ FlagsOk(f) /\ f.path # <<>>}

(* A field: its name, the elements around it, "" for any namespace.  An    *)
(* element without a namespace is in that of its structure.                *)
FieldInfo(f, space, parents, local) ==
  [space |-> space, parents |-> parents, local |-> local, mode |-> Mode(f), kind |-> f.type]

StructFieldInfo(struct, f) ==
  LET the(names) == CHOOSE x \in names : TRUE
      inner == LookupXMLName(StructOf(f.type))
      outer == LookupXMLName(struct)
      inherits == f.xmlns = "" /\ "attr" \notin f.flags /\ outer # {}
  IN  CASE f.path # <<>> ->
             FieldInfo(f, IF inherits THEN the(outer).xmlns ELSE f.xmlns, Front(f.path), Last(f.path))
        [] f.path = <<>> /\ inner = {} -> FieldInfo(f, "", <<>>, f.name)
        [] OTHER -> FieldInfo(f, the(inner).xmlns, <<>>, the(inner).path[1])

FieldOk(struct, f) ==
  /\ FlagsOk(f)
  /\ f.path # <<>> => /\ Last(f.path) # ""
                      /\ Len(f.path) > 1 => "element" \in Mode(f)
                      /\ "element" \in Mode(f) =>
                           \A x \in LookupXMLName(StructOf(f.type)) : x.path = <<Last(f.path)>>

(* addFieldInfo: fields whose paths are the same, or one a prefix of the   *)
(* other, are in conflict.                                                 *)
Path(f) == Append(f.parents, f.local)
Conflict(f, g) ==
  /\ f.mode = g.mode
  /\ f.space = g.space \/ "" \in {f.space, g.space}
  /\ IsPrefix(Path(f), Path(g)) \/ IsPrefix(Path(g), Path(f))

(* getTypeInfo: the fields in the order of the declaration.  No tag may be *)
(* refused, no two fields be in conflict.                                  *)
TypeInfo(struct) ==
  LET fields == SelectSeq(struct, LAMBDA f : f.name # "XMLName")
      infos == [i \in 1..Len(fields) |-> StructFieldInfo(struct, fields[i])]
      name == LookupXMLName(struct)
  IN  [xmlname |-> IF name = {} THEN <<"", "">> ELSE LET x == CHOOSE x \in name : TRUE IN <<x.xmlns, x.path[1]>>,
       fields |-> infos,
       ok |-> /\ \A f \in ToSet(struct) : FieldOk(struct, f)
              /\ \A i, j \in 1..Len(infos) : i < j => ~Conflict(infos[i], infos[j])]
=============================================================================
