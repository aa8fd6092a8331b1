----------------------------- MODULE DoxyParse -----------------------------
(***************************************************************************)
(* How the classes of DoxyTypes are built from an XML document, written    *)
(* again by export(), and turned into the text of a docstring by           *)
(* description() of doxyxml/text.py.                                       *)
(*                                                                         *)
(* build() calls itself for the child elements: a frame is one active      *)
(* build().  A step handles one child node, and the document is whatever   *)
(* nodes have been handled.  Texts are numbered; their characters are all  *)
(* in ASCII and their spelling, layout and escapes are left out.           *)
(***************************************************************************)
EXTENDS Integers, Sequences, SequencesExt, DoxyTypes

CONSTANTS
  Roots,     \* the classes whose build() is called first
  MaxNodes   \* bound: child nodes handled below an element of each of them

VARIABLES
  stack,   \* the active calls of build(): the element so far and its object
  size,    \* nodes handled
  state    \* "attributes", "children", "done" or "failed"

vars == <<stack, size, state>>

Break == 0     \* the two line ends after a paragraph
Raised == -1   \* an exception instead of a text

-----------------------------------------------------------------------------
(* Documents.                                                              *)

Element(tag, attrs) == [tag |-> tag, attrs |-> attrs, kids |-> <<>>]
TextNode(word) == [tag |-> "#text", word |-> word]
CdataNode(word) == [tag |-> "#cdata", word |-> word]

-----------------------------------------------------------------------------
(* Building objects.                                                       *)

String(words) == [str |-> words]

\* factory() and __init__(): an object has the fields of its class.  The
\* subclasses that are installed give every child that is written as a string
\* the default ''.
factory(type) ==
  LET C == Schema[type]
  IN [type |-> type, attrs |-> {},
      slots |-> [tag \in DOMAIN C.kids |->
                   IF C.kids[tag].how \in {"text", "repr"} THEN <<String(<<>>)>>
                                                          ELSE <<>>]]
     @@ (IF C.shape \in {"leaf", "mixedleaf"} THEN [valueOf_ |-> <<>>] ELSE None)
     @@ (IF C.shape \in {"mixed", "mixedleaf"} THEN [content_ |-> <<>>] ELSE None)
     @@ (IF type = "docParaType" THEN [content |-> <<>>] ELSE None)

\* MixedContainer: a text or a child in line.
MixedContainer(tag, value) == [name |-> tag, value |-> value]

\* A text node.  Only valueOf_ keeps the text of CDATA sections.
AddText(o, word, cdata) ==
  LET item == MixedContainer("", String(<<word>>))
  IN [f \in DOMAIN o |->
        IF f = "valueOf_" THEN Append(o.valueOf_, word)
        ELSE IF f \in {"content", "content_"} /\ ~cdata THEN Append(o[f], item)
        ELSE o[f]]

\* The fault of a setter that adds to what is there.
AddChild_append(o, tag, x) == [o EXCEPT !.slots[tag] = Append(@, x)]

\* A child element that was built, or read as text.
AddChild(o, tag, x) ==
  LET how == Schema[o.type].kids[tag].how
  IN CASE how \in {"set", "repr", "text"} -> [o EXCEPT !.slots[tag] = <<x>>]
       [] how \in {"append", "texts", "extra"} ->
            [o EXCEPT !.slots[tag] = Append(@, x)]
       [] how \in {"mixed", "mixedtext"} ->
            [o EXCEPT !.content_ = Append(@, MixedContainer(tag, x))]
       [] how = "content" -> [o EXCEPT !.content = Append(@, x)]

Top == Head(stack)
Kids == Schema[Top.obj.type].kids
Limit == MaxNodes[Last(stack).obj.type]
Handle(node, obj) ==
  stack' = <<[node |-> [Top.node EXCEPT !.kids = Append(@, node)], obj |-> obj]>>
           \o Tail(stack)

More(n) ==
  /\ state = "children"
  /\ size + n <= Limit
  /\ size' = size + n
  /\ UNCHANGED state

Init ==
  /\ \E type \in Roots :
       stack = <<[node |-> Element(type, {}), obj |-> factory(type)]>>
  /\ size = 0
  /\ state = "attributes"

\* buildAttributes of the first element: with all its attributes or with none.
BuildAttributes ==
  /\ state = "attributes"
  /\ \E A \in {{}, DOMAIN Schema[Top.obj.type].attrs} :
       stack' = <<[node |-> [Top.node EXCEPT !.attrs = A],
                   obj |-> [Top.obj EXCEPT !.attrs = A]]>>
  /\ state' = "children"
  /\ UNCHANGED size

\* An integer attribute that int() refuses: ValueError.
BadInteger ==
  /\ state = "attributes"
  /\ \E a \in DOMAIN Schema[Top.obj.type].attrs :
       Schema[Top.obj.type].attrs[a].form = "int"
  /\ state' = "failed"
  /\ UNCHANGED <<stack, size>>

Text ==
  /\ More(1)
  /\ \E cdata \in BOOLEAN :
       Handle(IF cdata THEN CdataNode(size') ELSE TextNode(size'),
              AddText(Top.obj, size', cdata))

\* A child element of a known class: its build() is called.
Open ==
  /\ More(1)
  /\ \E tag \in DOMAIN Kids :
       /\ Kids[tag].type # ""
       /\ stack' = <<[node |-> Element(tag, {}), obj |-> factory(Kids[tag].type)]>>
                   \o stack

\* A child element that is read as the text in it.
TextChild ==
  \E words \in {<<>>, <<size + 2>>, <<size + 2, size + 3>>} :
    /\ More(1 + Len(words))
    /\ \E tag \in DOMAIN Kids :
         /\ Kids[tag].type = ""
         /\ Handle([Element(tag, {}) EXCEPT !.kids = [i \in DOMAIN words |-> TextNode(words[i])]],
                   AddChild(Top.obj, tag, String(words)))

\* An element in such a child has no text of its own: TypeError.
ElementInText ==
  /\ state = "children"
  /\ size < Limit
  /\ \E tag \in DOMAIN Kids : Kids[tag].type = ""
  /\ state' = "failed"
  /\ UNCHANGED <<stack, size>>

\* An element that the class does not know is skipped with all that is in it.
Skip ==
  /\ More(2)
  /\ Handle([Element("#unknown", {}) EXCEPT !.kids = <<TextNode(size')>>], Top.obj)

\* A build() returns and its caller keeps the object.
Close ==
  /\ state = "children"
  /\ Len(stack) > 1
  /\ LET up == stack[2]
     IN stack' = <<[node |-> [up.node EXCEPT !.kids = Append(@, Top.node)],
                    obj |-> AddChild(up.obj, Top.node.tag, Top.obj)]>>
                 \o SubSeq(stack, 3, Len(stack))
  /\ UNCHANGED <<size, state>>

\* parse() returns.
Return ==
  /\ state = "children"
  /\ Len(stack) = 1
  /\ state' = "done"
  /\ UNCHANGED <<stack, size>>

Next ==
  \/ BuildAttributes \/ BadInteger \/ Text \/ Open \/ TextChild
  \/ ElementInText \/ Skip \/ Close \/ Return

Spec == Init /\ [][Next]_vars

-----------------------------------------------------------------------------
(* export().                                                               *)

exportAttributes(o) ==
  LET A == Schema[o.type].attrs
  IN {<<a, A[a].form>> : a \in {b \in DOMAIN A : A[b].always \/ b \in o.attrs}}

RECURSIVE export(_)

\* One child: an object, the text of a string, or the repr of an object.
exportChild(how, x) ==
  CASE how \in {"set", "append", "mixed"} -> export(x)
    [] how \in {"text", "texts", "repr"} /\ "str" \in DOMAIN x -> [bytes |-> x.str]
    [] how = "mixedtext" -> [raw |-> x.str]
    [] how = "repr" /\ "str" \notin DOMAIN x -> "<object>"

\* What is written for an object: its attributes, valueOf_, the items of
\* content_ in order, and of each tag the children that are not None in order.
export(o) ==
  LET C == Schema[o.type]
      item(x) ==
        <<x.name, IF x.name = "" THEN [raw |-> x.value.str]
                  ELSE exportChild(C.kids[x.name].how, x.value)>>
  IN [attrs |-> exportAttributes(o),
      text |-> IF "valueOf_" \in DOMAIN o THEN o.valueOf_ ELSE <<>>,
      items |-> IF C.shape = "mixed" THEN [i \in DOMAIN o.content_ |-> item(o.content_[i])]
                ELSE <<>>,
      kids |-> IF C.shape = "class"
               THEN [tag \in DOMAIN C.kids |->
                       [i \in DOMAIN o.slots[tag] |->
                          exportChild(C.kids[tag].how, o.slots[tag][i])]]
               ELSE None]

-----------------------------------------------------------------------------
(* doxyxml/text.py.                                                        *)

RECURSIVE description_bit(_)

\* Fault: content_ is looked at first.
bits_content_first(x) ==
  CASE "content_" \in DOMAIN x -> x.content_
    [] "value" \in DOMAIN x -> <<x.value>>

\* What hasattr finds first.
bits(x) ==
  CASE "content" \in DOMAIN x -> x.content
    [] "content" \notin DOMAIN x /\ "content_" \in DOMAIN x -> x.content_
    [] "value" \in DOMAIN x -> <<x.value>>

\* A paragraph is followed by an empty line.
description_bit(x) ==
  IF "str" \in DOMAIN x THEN x.str
  ELSE IF DOMAIN x \cap {"content", "content_", "value"} = {} THEN <<Raised>>
  ELSE FlattenSeq([i \in DOMAIN bits(x) |-> description_bit(bits(x)[i])])
       \o (IF "name" \in DOMAIN x /\ x.name = "para" THEN <<Break>> ELSE <<>>)

-----------------------------------------------------------------------------
(* Properties.                                                             *)

Result == stack[1]
IsText(k) == k.tag \in {"#text", "#cdata"}

TypeOK ==
  /\ state \in {"attributes", "children", "done", "failed"}
  /\ size \in 0..Limit
  /\ \A i \in DOMAIN stack :
       /\ stack[i].obj.type \in DOMAIN Schema
       /\ DOMAIN stack[i].obj.slots = DOMAIN Schema[stack[i].obj.type].kids

RECURSIVE Kept(_, _)

\* What an element of a class keeps of the document: the text of a class that
\* has text, the known children and the texts between them in order, or all
\* children of each list and the last one of each other tag.  A child that holds
\* a string and is not in the document is added, with no text in it.
Kept(type, n) ==
  LET C == Schema[type]
      child(k) ==
        CASE IsText(k) -> [raw |-> <<k.word>>]
          [] ~IsText(k) /\ C.kids[k.tag].how = "repr" -> "<object>"
          [] ~IsText(k) /\ C.kids[k.tag].how \in {"set", "append", "mixed"} ->
               Kept(C.kids[k.tag].type, k)
          [] OTHER -> LET words == [i \in DOMAIN k.kids |-> k.kids[i].word]
                      IN IF C.shape = "mixed" THEN [raw |-> words] ELSE [bytes |-> words]
      texts == SelectSeq(n.kids, IsText)
      inline == SelectSeq(n.kids, LAMBDA k : k.tag \in DOMAIN C.kids \cup {"#text"})
      all(tag) == SelectSeq(n.kids, LAMBDA k : k.tag = tag)
      kept(tag) == IF C.kids[tag].how \in {"append", "texts"} \/ all(tag) = <<>>
                   THEN all(tag) ELSE <<Last(all(tag))>>
  IN [attrs |-> {<<a, C.attrs[a].form>> :
                   a \in {b \in DOMAIN C.attrs : b \in n.attrs \/ C.attrs[b].always}},
      text |-> IF C.shape \in {"leaf", "mixedleaf"}
               THEN [i \in DOMAIN texts |-> texts[i].word] ELSE <<>>,
      items |-> IF C.shape = "mixed"
                THEN [i \in DOMAIN inline |->
                        <<IF IsText(inline[i]) THEN "" ELSE inline[i].tag, child(inline[i])>>]
                ELSE <<>>,
      kids |-> IF C.shape = "class"
               THEN [tag \in DOMAIN C.kids |->
                       IF C.kids[tag].how \in {"text", "repr"} /\ all(tag) = <<>>
                       THEN <<[bytes |-> <<>>]>>
                       ELSE [i \in DOMAIN kept(tag) |-> child(kept(tag)[i])]]
               ELSE None]

\* Whatever the order of the nodes, a document that was read and is written
\* again has every known element once, in the order of its siblings, with its
\* texts.  What is lost: unknown elements, all but the last of a child that is
\* no list, and the lists and links of a paragraph.  What is added: an empty
\* element for each child with a string that the document does not have.
ExportRight ==
  state = "done" => export(Result.obj) = Kept(Result.obj.type, Result.node)

\* The elements whose words belong to the text of an element.
Spoken(tag) ==
  CASE tag \in {"title", "ref", "docTitleType", "docRefTextType"} -> {}
    [] tag \in {"para", "docParaType", "docParamName", "linkedTextType"} -> {"ref"}
    [] OTHER -> {"title", "para", "sect1", "sect2", "sect3", "sect4", "internal"}

SpokenTypes ==
  {"descriptionType", "docTitleType", "docParaType", "docRefTextType",
   "docParamName", "linkedTextType", "docSect1Type", "docSect2Type",
   "docSect3Type", "docSect4Type", "docInternalType", "docInternalS1Type",
   "docInternalS2Type", "docInternalS3Type", "docInternalS4Type"}

RECURSIVE Words(_)

\* The words of an element, read off the document: its own texts and those of
\* the titles, paragraphs, sections and links in it, in order, with an empty
\* line after each paragraph.  Words in lists, tables and emphasis and those in
\* CDATA sections are left out.
Words(n) ==
  LET said(k) ==
        CASE k.tag = "#text" -> <<k.word>>
          [] k.tag \in Spoken(n.tag) ->
               Words(k) \o (IF k.tag = "para" THEN <<Break>> ELSE <<>>)
          [] OTHER -> <<>>
  IN FlattenSeq([i \in DOMAIN n.kids |-> said(n.kids[i])])

\* The text of a description is what its document says, in order and once, and
\* no exception ends it.
DescriptionRight ==
  state = "done" /\ Result.obj.type \in SpokenTypes =>
    description_bit(Result.obj) = Words(Result.node)
=============================================================================
