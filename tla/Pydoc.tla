------------------------------- MODULE Pydoc -------------------------------
(***************************************************************************)
(* From the XML of doxygen to the docstrings of the bindings: DoxyIndex    *)
(* (docs/doxygen/doxyxml) reads index.xml and the files it names, `scrape' *)
(* (update_pydoc.py) makes a dictionary of docstrings, and `sub' puts them *)
(* into the slots of the *_pydoc_template.h files.                         *)
(*                                                                         *)
(* A name is the sequence of its words and of the "::" and "_" between     *)
(* them.  A text is a sequence of passages, each marked with the entity it *)
(* was written for and with what the pattern of `sub' can trip over.       *)
(* Class names are qualified, so that no class passes the test for an old  *)
(* style block: its make function is looked up by a name that get_member   *)
(* splits at "::".  Groups are kept but never opened.                      *)
(*                                                                         *)
(* What a list or a dictionary leaves out is a gap in a sequence here.     *)
(*                                                                         *)
(* A file is "good", "malformed" (no XML: ExpatError) or "refused": it is  *)
(* not there, or it is XML for which the reader raises ValueError or       *)
(* TypeError (BadInteger and ElementInText of DoxyParse).                  *)
(***************************************************************************)
EXTENDS Integers, Sequences, SequencesExt

CONSTANTS
  Tokens,      \* what names are made of
  Indexes,     \* what doxygen may have written: sequences of compounds
  Templates,   \* the templates in the order of glob: [base, slots]
  Filters      \* the values of --filter

VARIABLES
  index_file,  \* whether index.xml can be read: "good", "malformed" or "refused"
  index,     \* the compounds of index.xml
  filter,    \* --filter, <<>> without one
  pc,        \* "index", "blocks", "functions", "classes", "sub", "done" or "crashed"
  i,         \* the next compound, member or key
  t,         \* the next template
  members,   \* DoxyIndex._members
  output,    \* the entries that dict.update was given, one after another
  slots,     \* slots[t]: the text in each slot of a template
  status     \* the lines of docstring_status

input == <<index_file, index, filter>>
vars == <<input, pc, i, t, members, output, slots, status>>

Heading == <<[of |-> <<>>, form |-> "plain"]>>

MemberKinds == {"function", "friend"}
OtherKinds == {"variable", "struct", "union", "define", "typedef", "enum",
               "dir", "page", "signal", "slot", "property"}
CompoundKinds == {"class", "file", "namespace", "group"}

\* get_cls finds a class.
CanParse(x) == x.kind \in MemberKinds \cup OtherKinds \cup CompoundKinds

-----------------------------------------------------------------------------
(* doxyxml.                                                                *)

\* What convert_mem makes of a kind that no class parses.  It is in no category.
None == [kind |-> "none"]

First(c, n) == \A m \in 1..(n - 1) : c.members[m].name # c.members[n].name

\* Fault: all overloads of a name are kept.
process_memberdefs_all(c) ==
  [n \in DOMAIN c.members |-> IF CanParse(c.members[n]) THEN c.members[n] ELSE None]

\* Of the members with one name the first counts, also when it is converted to
\* None.
process_memberdefs(c) ==
  [n \in DOMAIN c.members |->
     IF CanParse(c.members[n]) /\ First(c, n) THEN c.members[n] ELSE None]

\* get_member(name, DoxyFunction) and get_member(name, DoxyOther) of a class.
Member(c, name, kinds) ==
  {m \in Range(process_memberdefs(c)) : m.kind \in kinds /\ m.name = name}

\* The contents of namespaces and of headers become members of the index.
Opened(c) == c.kind = "namespace" \/ (c.kind = "file" /\ c.header)

-----------------------------------------------------------------------------
(* update_pydoc.py.                                                        *)

Entry(name, text) == [key |-> name, text |-> text]

\* make_entry gives '' for an operator.
NoEntry == Entry(<<>>, <<>>)

make_entry(name, text) ==
  IF "operator " \in Range(name) THEN NoEntry ELSE Entry(name, text)

method(c, m) == c.name \o <<"::">> \o m.name

\* Fault: the methods are entered by the name of the class.
make_class_entry_merged(c, text, ignored) ==
  LET entry(m) == IF m.kind # "function" THEN NoEntry ELSE make_entry(c.name, m.text)
      ms == process_memberdefs(c)
  IN <<make_entry(c.name, text)>> \o [n \in DOMAIN ms |-> entry(ms[n])]

\* The class and its functions, the ignored ones left out.
make_class_entry(c, text, ignored) ==
  LET entry(m) == IF m.kind # "function" \/ m.name \in ignored THEN NoEntry
                  ELSE make_entry(method(c, m), m.text)
      ms == process_memberdefs(c)
  IN <<make_entry(c.name, text)>> \o [n \in DOMAIN ms |-> entry(ms[n])]

Makes(c) == Member(c, <<"make">>, {"function"})

\* A class with a function make and a type sptr is a block.
Block2(c) ==
  /\ c.kind = "class"
  /\ c.file = "good"
  /\ Makes(c) # {}
  /\ Member(c, <<"sptr">>, OtherKinds) # {}

\* The class and its make function get the text of both.
make_block2_entry(c) ==
  LET make == CHOOSE m \in Makes(c) : TRUE
      text == c.text \o Heading \o make.text \o make.params
  IN make_class_entry(c, text, {<<"make">>}) \o <<make_entry(method(c, make), text)>>

-----------------------------------------------------------------------------
Init ==
  /\ index_file \in {"good", "malformed", "refused"}
  /\ index \in Indexes
  /\ filter \in Filters
  /\ pc = "index"
  /\ i = 1
  /\ t = 1
  /\ members = <<>>
  /\ output = <<>>
  /\ slots = [n \in DOMAIN Templates |-> [s \in Templates[n].slots |-> <<>>]]
  /\ status = {}

Crash == pc' = "crashed" /\ UNCHANGED <<input, i, t, members, output, slots, status>>

\* DoxyIndex._parse catches nothing that the reader of index.xml raises.
IndexFileCrash ==
  /\ pc = "index"
  /\ index_file # "good"
  /\ Crash

\* DoxyIndex._parse: one compound of index.xml.
IndexCompound ==
  /\ pc = "index"
  /\ index_file = "good"
  /\ i <= Len(index)
  /\ CanParse(index[i])
  /\ Opened(index[i]) => index[i].file = "good"
  /\ members' = members
       \o (IF Opened(index[i]) THEN process_memberdefs(index[i]) ELSE <<>>)
       \o (IF index[i].kind = "file" /\ ~index[i].header THEN <<>> ELSE <<index[i]>>)
  /\ i' = i + 1
  /\ UNCHANGED <<input, pc, t, output, slots, status>>

\* An unknown kind: convert_mem prints what get_cls raises, but _parse calls
\* get_cls once more.  The file of a namespace or a header: _parse looks at the
\* compound before it looks at _error.
IndexCrash ==
  /\ pc = "index"
  /\ index_file = "good"
  /\ i <= Len(index)
  /\ \/ ~CanParse(index[i])
     \/ Opened(index[i]) /\ index[i].file # "good"
  /\ Crash

\* in_category(Block) opens the file of every class.  One that is not XML sets
\* _error; one that is not there, or that the reader refuses, raises another
\* exception than retrieve_data catches.
IndexEnd ==
  /\ pc = "index"
  /\ index_file = "good"
  /\ i > Len(index)
  /\ ~\E n \in DOMAIN members : members[n].kind = "class" /\ members[n].file = "refused"
  /\ pc' = "blocks"
  /\ i' = 1
  /\ UNCHANGED <<input, t, members, output, slots, status>>

ClassCrash ==
  /\ pc = "index"
  /\ index_file = "good"
  /\ i > Len(index)
  /\ \E n \in DOMAIN members : members[n].kind = "class" /\ members[n].file = "refused"
  /\ Crash

\* One member of the index in one of the three loops of get_docstrings_dict.
Scrape(stage, entries) ==
  /\ pc = stage
  /\ i <= Len(members)
  /\ output' = output \o entries
  /\ i' = i + 1
  /\ UNCHANGED <<input, pc, t, members, slots, status>>

BlockEntries(m) == IF Block2(m) THEN make_block2_entry(m) ELSE <<>>

\* A function goes by the name in its definition.
FunctionEntries(m) ==
  IF m.kind = "function" THEN <<make_entry(m.definition, m.text)>> ELSE <<>>

\* A class whose file is no XML is left out: ParsingError is caught.
ClassEntries(m) ==
  IF m.kind = "class" /\ m.file = "good" /\ ~Block2(m) /\ Head(m.name) # "std"
  THEN make_class_entry(m, m.text, {})
  ELSE <<>>

Blocks == Scrape("blocks", BlockEntries(members[i]))
Functions == Scrape("functions", FunctionEntries(members[i]))
Classes == Scrape("classes", ClassEntries(members[i]))

NextStage ==
  /\ pc \in {"blocks", "functions", "classes"}
  /\ i > Len(members)
  /\ pc' = [blocks |-> "functions", functions |-> "classes", classes |-> "sub"][pc]
  /\ i' = 1
  /\ UNCHANGED <<input, t, members, output, slots, status>>

-----------------------------------------------------------------------------
(* sub_docstring_in_pydoc_h.                                               *)

\* A dictionary has its keys in the order in which they came first, and keeps
\* the last text of each.
IsItem(n) ==
  /\ output[n].key # <<>>
  /\ \A m \in 1..(n - 1) : output[m].key # output[n].key

IsLast(m, key) ==
  /\ output[m].key = key
  /\ \A k \in DOMAIN output : k > m => output[k].key # key

Item(n) == Entry(output[n].key, output[CHOOSE m \in DOMAIN output : IsLast(m, output[n].key)].text)

\* '_'.join(key.split('::'))
doc_key(name) == [n \in DOMAIN name |-> IF name[n] = "::" THEN "_" ELSE name[n]]

\* A key is tried on a template if it starts with the filter and its base name.
Selected(key, n) ==
  filter # <<>> => IsPrefix(filter \o <<"::">> \o Templates[n].base, key)

Form(text, form) == \E n \in DOMAIN text : text[n].form = form

\* The value is part of the replacement, behind a \1.  A digit in front makes it
\* the number of a group that does not exist, two octal digits the code of a
\* character, which then stands where the slot began.
Begins(text, form) == text # <<>> /\ Head(text).form = form
BadReplacement(text) == Begins(text, "digit")
SpoilsSlot(text) == Begins(text, "octal")

\* What is between the brackets must not hold one that closes.
Matches(n, key) ==
  doc_key(key) \in DOMAIN slots[n] /\ ~Form(slots[n][doc_key(key)], "bracket")

Without(f, x) == [y \in DOMAIN f \ {x} |-> f[y]]

\* Fault: after a failure the slots are as in the template again.
Sub_reset ==
  /\ pc = "sub"
  /\ t <= Len(Templates)
  /\ i <= Len(output)
  /\ LET e == Item(i)
         tried == IsItem(i) /\ Selected(e.key, t)
         bad == tried /\ BadReplacement(e.text)
         good == tried /\ ~bad /\ Matches(t, e.key)
     IN /\ slots' = CASE good /\ SpoilsSlot(e.text) ->
                         [slots EXCEPT ![t] = Without(@, doc_key(e.key))]
                       [] good /\ ~SpoilsSlot(e.text) ->
                         [slots EXCEPT ![t][doc_key(e.key)] = e.text]
                       [] bad -> [slots EXCEPT ![t] = [s \in DOMAIN @ |-> <<>>]]
                       [] OTHER -> slots
        /\ status' = status \cup (IF good THEN {<<"PASS", t>>} ELSE {})
                           \cup (IF bad THEN {<<"FAIL", t>>} ELSE {})
  /\ i' = i + 1
  /\ UNCHANGED <<input, pc, t, members, output>>

\* One key on one template.
Sub ==
  /\ pc = "sub"
  /\ t <= Len(Templates)
  /\ i <= Len(output)
  /\ LET e == Item(i)
         tried == IsItem(i) /\ Selected(e.key, t)
         bad == tried /\ BadReplacement(e.text)
         good == tried /\ ~bad /\ Matches(t, e.key)
     IN /\ slots' = IF ~good THEN slots
                    ELSE IF SpoilsSlot(e.text)
                      THEN [slots EXCEPT ![t] = Without(@, doc_key(e.key))]
                    ELSE [slots EXCEPT ![t][doc_key(e.key)] = e.text]
        /\ status' = status \cup (IF good THEN {<<"PASS", t>>} ELSE {})
                           \cup (IF bad THEN {<<"FAIL", t>>} ELSE {})
  /\ i' = i + 1
  /\ UNCHANGED <<input, pc, t, members, output>>

NextTemplate ==
  /\ pc = "sub"
  /\ t <= Len(Templates)
  /\ i > Len(output)
  /\ t' = t + 1
  /\ i' = 1
  /\ UNCHANGED <<input, pc, members, output, slots, status>>

Done ==
  /\ pc = "sub"
  /\ t > Len(Templates)
  /\ pc' = "done"
  /\ UNCHANGED <<input, i, t, members, output, slots, status>>

Next ==
  \/ IndexFileCrash \/ IndexCompound \/ IndexCrash \/ IndexEnd \/ ClassCrash
  \/ Blocks \/ Functions \/ Classes \/ NextStage
  \/ Sub \/ NextTemplate \/ Done

Spec == Init /\ [][Next]_vars

-----------------------------------------------------------------------------
(* Properties.                                                             *)

TypeOK ==
  /\ index_file \in {"good", "malformed", "refused"}
  /\ pc \in {"index", "blocks", "functions", "classes", "sub", "done", "crashed"}
  /\ i \in Nat \ {0}
  /\ t \in 1..(Len(Templates) + 1)
  /\ status \subseteq {"PASS", "FAIL"} \X DOMAIN Templates

\* The dictionary.
Items == {Item(n) : n \in {m \in DOMAIN output : IsItem(m)}}

Says(name, text) ==
  \E e \in Items : e.key = name /\ Range(text) \subseteq Range(e.text)

\* The name by which a function of a compound goes.
NameIn(c, m) == IF c.kind = "class" THEN method(c, m) ELSE m.definition

\* The functions of a compound that are to be documented: not a conversion, and
\* of the members with one name only the first.
Documented(c) ==
  {c.members[n] : n \in {k \in DOMAIN c.members :
     /\ c.members[k].kind = "function"
     /\ "operator " \notin Range(NameIn(c, c.members[k]))
     /\ First(c, k)}}

\* The names that belong to a class.
NamesOf(c) == {c.name} \cup {method(c, m) : m \in {k \in Range(c.members) : k.kind = "function"}}

\* A class file that is not XML costs the docstrings of that class and nothing
\* else: every class, method and free function of the other files is in the
\* dictionary with its own words, the standard library excepted.  Only an index
\* that cannot be read, a kind it does not know, a file that is not there or is
\* refused, and a broken file of a namespace or a header end the scrape.
ScrapeRight ==
  /\ pc = "crashed" =>
       \/ index_file # "good"
       \/ \E n \in DOMAIN index :
            \/ ~CanParse(index[n])
            \/ index[n].file = "refused"
            \/ index[n].file = "malformed" /\ index[n].kind # "class"
  /\ pc \in {"sub", "done"} => index_file = "good"
  /\ pc \in {"sub", "done"} =>
       \A n \in DOMAIN index :
         LET c == index[n]
         IN /\ c.kind = "class" /\ c.file = "good" /\ Head(c.name) # "std" =>
                 /\ Says(c.name, c.text)
                 /\ \A m \in Documented(c) : Says(method(c, m), m.text)
            /\ c.kind = "class" /\ c.file # "good" =>
                 \A e \in Items : e.key \notin NamesOf(c)
            /\ Opened(c) =>
                 \A m \in Documented(c) :
                   \E x \in Range(index) :
                     Opened(x) /\ \E m2 \in Documented(x) :
                       m2.definition = m.definition /\ Says(m.definition, m2.text)

\* A slot holds no words but those of an entity it is named for, or for the
\* class and the make function of a block those of the two.
OwnWords ==
  \A n \in DOMAIN slots : \A s \in DOMAIN slots[n] : \A p \in Range(slots[n][s]) :
    p \in Range(Heading) \/ doc_key(p.of) = s
    \/ doc_key(p.of) = s \o <<"_", "make">> \/ s = doc_key(p.of) \o <<"_", "make">>

\* When `sub' ends, every docstring that has a slot is in it or a FAIL line tells
\* of its template.  The exceptions are names outside the filter and the base
\* name of the template, names that become one with another name, and a text
\* that spoils its slot, for which the status says PASS.
NothingUnsaid ==
  pc = "done" =>
    \A e \in Items, n \in DOMAIN Templates :
      doc_key(e.key) \in Templates[n].slots =>
        \/ doc_key(e.key) \in DOMAIN slots[n] /\ slots[n][doc_key(e.key)] = e.text
        \/ doc_key(e.key) \notin DOMAIN slots[n] /\ SpoilsSlot(e.text)
        \/ <<"FAIL", n>> \in status /\ BadReplacement(e.text)
        \/ filter # <<>> /\ ~IsPrefix(filter \o <<"::">> \o Templates[n].base, e.key)
        \/ \E o \in Items : o # e /\ doc_key(o.key) = doc_key(e.key)

-----------------------------------------------------------------------------
(* What is assumed of the input.                                           *)

Name == Seq(Tokens) \ {<<>>}
Text == Seq([of : Name \cup {<<>>}, form : {"plain", "bracket", "digit", "octal"}])

MemberRecord ==
  [kind : STRING, name : Name, definition : Name, text : Text, params : Text]

CompoundRecord ==
  [kind : STRING, name : Name, header : BOOLEAN, file : {"good", "malformed", "refused"},
   text : Text, members : Seq(MemberRecord)]

Marked(text, name) == \A p \in Range(text) : p.of = name

\* The kinds of compounds and of members are different ones, the names of classes
\* are qualified, and each passage is marked with the entity it is about.
WellFormed(c) ==
  /\ c.kind \notin MemberKinds
  /\ \A m \in Range(c.members) : m.kind \notin CompoundKinds
  /\ c.kind = "class" =>
       /\ "::" \in Range(c.name) /\ "operator " \notin Range(c.name)
       /\ Marked(c.text, c.name)
  /\ c.kind = "class" \/ Opened(c) =>
       \A m \in Range(c.members) : m.kind = "function" =>
         Marked(m.text, NameIn(c, m)) /\ Marked(m.params, NameIn(c, m))

\* In C++ no other class, and no free function, has a name of a class.
OneMeaning(x) ==
  \A m, n \in DOMAIN x : x[m].kind = "class" =>
    /\ x[n].kind = "class" /\ m # n => NamesOf(x[m]) \cap NamesOf(x[n]) = {}
    /\ Opened(x[n]) =>
         \A k \in Range(x[n].members) : k.kind = "function" => k.definition \notin NamesOf(x[m])

PydocAssumption ==
  /\ {"::", "_", "make"} \subseteq Tokens
  /\ Indexes \subseteq Seq(CompoundRecord)
  /\ Templates \in Seq([base : Name, slots : SUBSET Name])
  /\ Filters \subseteq Name \cup {<<>>}
  /\ \A x \in Indexes : OneMeaning(x) /\ \A n \in DOMAIN x : WellFormed(x[n])

=============================================================================
