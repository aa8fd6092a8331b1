----------------------------- MODULE DoxyTypes -----------------------------
(***************************************************************************)
(* The classes that hold the XML of doxygen: generated/compoundsuper.py    *)
(* for the file of a class, a file or a namespace, indexsuper.py for       *)
(* index.xml, with the one subclass of compound.py that changes what is    *)
(* read.  Every class reads and writes itself by the same few schemes; a   *)
(* definition below says which scheme each attribute and child element of  *)
(* its class follows.  DoxyParse gives the schemes their meaning.          *)
(***************************************************************************)
EXTENDS TLC

None == <<>>

Attributes(form, S) == [a \in S |-> [form |-> form, always |-> FALSE]]

Plain(S) == Attributes("quoted", S)  \* written by quote_attrib
Bytes(S) == Attributes("bytes", S)   \* encoded: written as the text of a bytes object
Integer(S) == Attributes("int", S)   \* read by int(), which may refuse the text

\* Attributes that are written even if the document did not give them.
Always(A) == [a \in DOMAIN A |-> [A[a] EXCEPT !.always = TRUE]]

Children(how, type, S) == [tag \in S |-> [how |-> how, type |-> type]]

One(type, S) == Children("set", type, S)          \* set_: the last one counts
Many(type, S) == Children("append", type, S)      \* a list
OneRepr(type, S) == Children("repr", type, S)     \* set_, but written as a string
Mixed(type, S) == Children("mixed", type, S)      \* in line with the text
Content(type, S) == Children("content", type, S)  \* in line, in docParaTypeSub
Extra(type, S) == Children("extra", type, S)      \* a list that is not written

\* Children that are read as the text in them.
Str(S) == Children("text", "", S)
Strs(S) == Children("texts", "", S)
MixedStr(S) == Children("mixedtext", "", S)

\* Child elements, only text, both, and text that is also kept item by item.
Class(attrs, kids) == [shape |-> "class", attrs |-> attrs, kids |-> kids]
Leaf(attrs) == [shape |-> "leaf", attrs |-> attrs, kids |-> None]
MixedClass(attrs, kids) == [shape |-> "mixed", attrs |-> attrs, kids |-> kids]
MixedLeaf(attrs) == [shape |-> "mixedleaf", attrs |-> attrs, kids |-> None]

-----------------------------------------------------------------------------
(* index.xml.                                                              *)

IndexDoxygenType == Class(
  Always(Bytes({"version"})),
  Many("CompoundType", {"compound"}))

CompoundType == Class(
  Always(Plain({"kind"}) @@ Bytes({"refid"})),
  Str({"name"})
  @@ Many("MemberType", {"member"}))

MemberType == Class(Always(Plain({"kind"}) @@ Bytes({"refid"})), Str({"name"}))

-----------------------------------------------------------------------------
(* The file of one compound.                                               *)

DoxygenType == Class(
  Always(Plain({"version"})),
  One("compounddefType", {"compounddef"}))

compounddefType == Class(
  Plain({"kind", "prot"})
  @@ Bytes({"id"}),
  Str({"compoundname"})
  @@ OneRepr("docTitleType", {"title"})
  @@ Many("compoundRefType", {"basecompoundref", "derivedcompoundref"})
  @@ Many("incType", {"includes", "includedby"})
  @@ One("graphType", {"incdepgraph", "invincdepgraph", "inheritancegraph",
         "collaborationgraph"})
  @@ Many("refType", {"innerdir", "innerfile", "innerclass",
         "innernamespace", "innerpage", "innergroup"})
  @@ One("templateparamlistType", {"templateparamlist"})
  @@ Many("sectiondefType", {"sectiondef"})
  @@ One("descriptionType", {"briefdescription", "detaileddescription"})
  @@ One("listingType", {"programlisting"})
  @@ One("locationType", {"location"})
  @@ One("listofallmembersType", {"listofallmembers"}))

listofallmembersType == Class(None, Many("memberRefType", {"member"}))

memberRefType == Class(
  Plain({"virt", "prot"})
  @@ Bytes({"refid", "ambiguityscope"}),
  Str({"scope", "name"}))

scope == Leaf(None)
name == Leaf(None)

compoundRefType == MixedLeaf(Plain({"virt", "prot"}) @@ Bytes({"refid"}))
reimplementType == MixedLeaf(Bytes({"refid"}))

incType == MixedLeaf(Plain({"local"}) @@ Bytes({"refid"}))
refType == MixedLeaf(Plain({"prot"}) @@ Bytes({"refid"}))

refTextType == MixedLeaf(Plain({"kindref"}) @@ Bytes({"refid", "external"}))

sectiondefType == Class(
  Plain({"kind"}),
  Str({"header"})
  @@ One("descriptionType", {"description"})
  @@ Many("memberdefType", {"memberdef"}))

memberdefType == Class(
  Plain({"initonly", "kind", "volatile", "const", "raise", "virt",
      "readable", "prot", "explicit", "new", "final", "writable", "add",
      "static", "remove", "sealed", "mutable", "gettable", "inline",
      "settable"})
  @@ Bytes({"id"}),
  One("templateparamlistType", {"templateparamlist"})
  @@ One("linkedTextType", {"type", "initializer", "exceptions"})
  @@ Str({"definition", "argsstring", "name", "read", "write", "bitfield"})
  @@ Many("reimplementType", {"reimplements", "reimplementedby"})
  @@ Many("paramType", {"param"})
  @@ Many("enumvalueType", {"enumvalue"})
  @@ One("descriptionType", {"briefdescription", "detaileddescription",
         "inbodydescription"})
  @@ One("locationType", {"location"})
  @@ Many("referenceType", {"references", "referencedby"}))

definition == Leaf(None)
argsstring == Leaf(None)

read == Leaf(None)
write == Leaf(None)

bitfield == Leaf(None)

descriptionType == MixedClass(
  None,
  Mixed("docTitleType", {"title"})
  @@ Mixed("docParaType", {"para"})
  @@ Mixed("docSect1Type", {"sect1"})
  @@ Mixed("docInternalType", {"internal"}))

enumvalueType == MixedClass(
  Plain({"prot"})
  @@ Bytes({"id"}),
  MixedStr({"name"})
  @@ Mixed("linkedTextType", {"initializer"})
  @@ Mixed("descriptionType", {"briefdescription", "detaileddescription"}))

templateparamlistType == Class(None, Many("paramType", {"param"}))

paramType == Class(
  None,
  One("linkedTextType", {"type", "defval"})
  @@ Str({"declname", "defname", "array"})
  @@ One("descriptionType", {"briefdescription"}))

declname == Leaf(None)
defname == Leaf(None)

array == Leaf(None)
linkedTextType == MixedClass(None, Mixed("docRefTextType", {"ref"}))

graphType == Class(None, Many("nodeType", {"node"}))

nodeType == Class(
  Bytes({"id"}),
  Str({"label"})
  @@ One("linkType", {"link"})
  @@ Many("childnodeType", {"childnode"}))

label == Leaf(None)

childnodeType == Class(
  Plain({"relation"})
  @@ Bytes({"refid"}),
  Strs({"edgelabel"}))

edgelabel == Leaf(None)
linkType == Leaf(Bytes({"refid", "external"}))

listingType == Class(None, Many("codelineType", {"codeline"}))

codelineType == Class(
  Plain({"external", "refkind"})
  @@ Bytes({"refid"})
  @@ Integer({"lineno"}),
  Many("highlightType", {"highlight"}))

highlightType == MixedClass(
  Plain({"class"}),
  MixedStr({"sp"})
  @@ Mixed("docRefTextType", {"ref"}))

sp == Leaf(None)

referenceType == MixedLeaf(
  Bytes({"refid", "compoundref"})
  @@ Integer({"endline", "startline"}))

locationType == Leaf(
  Bytes({"bodyfile", "file"})
  @@ Integer({"bodystart", "line", "bodyend"}))

docSect1Type == MixedClass(
  Bytes({"id"}),
  Mixed("docTitleType", {"title"})
  @@ Mixed("docParaType", {"para"})
  @@ Mixed("docSect2Type", {"sect2"})
  @@ Mixed("docInternalS1Type", {"internal"}))

docSect2Type == MixedClass(
  Bytes({"id"}),
  Mixed("docTitleType", {"title"})
  @@ Mixed("docParaType", {"para"})
  @@ Mixed("docSect3Type", {"sect3"})
  @@ Mixed("docInternalS2Type", {"internal"}))

docSect3Type == MixedClass(
  Bytes({"id"}),
  Mixed("docTitleType", {"title"})
  @@ Mixed("docParaType", {"para"})
  @@ Mixed("docSect4Type", {"sect4"})
  @@ Mixed("docInternalS3Type", {"internal"}))

docSect4Type == MixedClass(
  Bytes({"id"}),
  Mixed("docTitleType", {"title"})
  @@ Mixed("docParaType", {"para"})
  @@ Mixed("docInternalS4Type", {"internal"}))

docInternalType == MixedClass(
  None,
  Mixed("docParaType", {"para"})
  @@ Mixed("docSect1Type", {"sect1"}))

docInternalS1Type == MixedClass(
  None,
  Mixed("docParaType", {"para"})
  @@ Mixed("docSect2Type", {"sect2"}))

docInternalS2Type == MixedClass(
  None,
  Mixed("docParaType", {"para"})
  @@ Mixed("docSect3Type", {"sect3"}))

docInternalS3Type == MixedClass(
  None,
  Mixed("docParaType", {"para"})
  @@ Mixed("docSect4Type", {"sect3"}))

docInternalS4Type == MixedClass(None, Mixed("docParaType", {"para"}))
docTitleType == MixedLeaf(None)

docParaType == MixedLeaf(None)

\* The subclass also keeps what the para says in order, and the lists in it.
docParaTypeSub == [docParaType EXCEPT
  !.kids = Content("docRefTextType", {"ref"})
           @@ Extra("docParamListType", {"parameterlist"})
           @@ Extra("docSimpleSectType", {"simplesect"})]

docMarkupType == MixedLeaf(None)

docURLLink == MixedLeaf(Bytes({"url"}))
docAnchorType == MixedLeaf(Bytes({"id"}))

docFormulaType == MixedLeaf(Bytes({"id"}))
docIndexEntryType == Class(None, Str({"primaryie", "secondaryie"}))

docListType == Class(None, Many("docListItemType", {"listitem"}))
docListItemType == Class(None, Many("docParaType", {"para"}))

docSimpleSectType == Class(
  Plain({"kind"}),
  One("docTitleType", {"title"})
  @@ Many("docParaType", {"para"}))

docVarListEntryType == Class(None, One("docTitleType", {"term"}))
docVariableListType == Leaf(None)

docRefTextType == MixedLeaf(Plain({"kindref"}) @@ Bytes({"refid", "external"}))

docTableType == Class(
  Integer({"rows", "cols"}),
  Many("docRowType", {"row"})
  @@ One("docCaptionType", {"caption"}))

docRowType == Class(None, Many("docEntryType", {"entry"}))
docEntryType == Class(Plain({"thead"}), Many("docParaType", {"para"}))

docCaptionType == MixedLeaf(None)
docHeadingType == MixedLeaf(Integer({"level"}))

docImageType == MixedLeaf(
  Plain({"type"})
  @@ Bytes({"width", "name", "height"}))

docDotFileType == MixedLeaf(Bytes({"name"}))
docTocItemType == MixedLeaf(Bytes({"id"}))

docTocListType == Class(None, Many("docTocItemType", {"tocitem"}))
docLanguageType == Class(Bytes({"langid"}), Many("docParaType", {"para"}))

docParamListType == Class(
  Plain({"kind"}),
  Many("docParamListItem", {"parameteritem"}))

docParamListItem == Class(
  None,
  Many("docParamNameList", {"parameternamelist"})
  @@ One("descriptionType", {"parameterdescription"}))

docParamNameList == Class(None, Many("docParamName", {"parametername"}))

docParamName == MixedClass(
  Plain({"direction"}),
  Mixed("docRefTextType", {"ref"}))

docXRefSectType == Class(
  Bytes({"id"}),
  Strs({"xreftitle"})
  @@ One("descriptionType", {"xrefdescription"}))

docCopyType == Class(
  Bytes({"link"}),
  Many("docParaType", {"para"})
  @@ Many("docSect1Type", {"sect1"})
  @@ One("docInternalType", {"internal"}))

docCharType == Leaf(Plain({"char"}))
docEmptyType == Leaf(None)

-----------------------------------------------------------------------------
\* What factory() makes for each class.
Schema ==
  [IndexDoxygenType |-> IndexDoxygenType, CompoundType |-> CompoundType,
   MemberType |-> MemberType, DoxygenType |-> DoxygenType,
   compounddefType |-> compounddefType,
   listofallmembersType |-> listofallmembersType,
   memberRefType |-> memberRefType, scope |-> scope, name |-> name,
   compoundRefType |-> compoundRefType, reimplementType |-> reimplementType,
   incType |-> incType, refType |-> refType, refTextType |-> refTextType,
   sectiondefType |-> sectiondefType, memberdefType |-> memberdefType,
   definition |-> definition, argsstring |-> argsstring, read |-> read,
   write |-> write, bitfield |-> bitfield,
   descriptionType |-> descriptionType, enumvalueType |-> enumvalueType,
   templateparamlistType |-> templateparamlistType, paramType |-> paramType,
   declname |-> declname, defname |-> defname, array |-> array,
   linkedTextType |-> linkedTextType, graphType |-> graphType,
   nodeType |-> nodeType, label |-> label, childnodeType |-> childnodeType,
   edgelabel |-> edgelabel, linkType |-> linkType,
   listingType |-> listingType, codelineType |-> codelineType,
   highlightType |-> highlightType, sp |-> sp,
   referenceType |-> referenceType, locationType |-> locationType,
   docSect1Type |-> docSect1Type, docSect2Type |-> docSect2Type,
   docSect3Type |-> docSect3Type, docSect4Type |-> docSect4Type,
   docInternalType |-> docInternalType,
   docInternalS1Type |-> docInternalS1Type,
   docInternalS2Type |-> docInternalS2Type,
   docInternalS3Type |-> docInternalS3Type,
   docInternalS4Type |-> docInternalS4Type, docTitleType |-> docTitleType,
   docParaType |-> docParaTypeSub, docMarkupType |-> docMarkupType,
   docURLLink |-> docURLLink, docAnchorType |-> docAnchorType,
   docFormulaType |-> docFormulaType, docIndexEntryType |-> docIndexEntryType,
   docListType |-> docListType, docListItemType |-> docListItemType,
   docSimpleSectType |-> docSimpleSectType,
   docVarListEntryType |-> docVarListEntryType,
   docVariableListType |-> docVariableListType,
   docRefTextType |-> docRefTextType, docTableType |-> docTableType,
   docRowType |-> docRowType, docEntryType |-> docEntryType,
   docCaptionType |-> docCaptionType, docHeadingType |-> docHeadingType,
   docImageType |-> docImageType, docDotFileType |-> docDotFileType,
   docTocItemType |-> docTocItemType, docTocListType |-> docTocListType,
   docLanguageType |-> docLanguageType, docParamListType |-> docParamListType,
   docParamListItem |-> docParamListItem,
   docParamNameList |-> docParamNameList, docParamName |-> docParamName,
   docXRefSectType |-> docXRefSectType, docCopyType |-> docCopyType,
   docCharType |-> docCharType, docEmptyType |-> docEmptyType]
=============================================================================
