---------------------------- MODULE MCBuildTools ----------------------------
(***************************************************************************)
(* The tools that run around a build, one of them in each behaviour: the   *)
(* reader of doxygen's XML, the docstrings, and the hook on headers.       *)
(***************************************************************************)
EXTENDS BuildTools

VARIABLES
  tool,                \* which of the three
  stack, size, state   \* of DoxyParse

reader_vars == <<stack, size, state>>
mcvars == <<tool, reader_vars, docs_vars, hook_vars>>

\* The indexes below are what doxygen can write.
ASSUME ToolsAssumption == PydocAssumption

-----------------------------------------------------------------------------
(* The reader starts at every class of the schema.                         *)

Types == INSTANCE DoxyTypes

Roots == DOMAIN Types!Schema
MaxNodes == [c \in Roots |-> IF c = "descriptionType" THEN 5 ELSE 3]

Reader == INSTANCE DoxyParse

-----------------------------------------------------------------------------
(* Docstrings of a class probe that is a block and has a method rate, of a *)
(* class probe_rate whose name becomes one with that of the method, of a   *)
(* namespace and a header with free functions; and a source file, a group  *)
(* and a compound of a kind that the index does not know.                  *)

gr == <<"gr", "::", "cuda">>
In(x) == gr \o <<"::">> \o x

Say(name, form) == <<[of |-> name, form |-> form]>>

Method(c, name, form) ==
  [kind |-> "function", name |-> name, definition |-> c \o <<"::">> \o name,
   text |-> Say(c \o <<"::">> \o name, form), params |-> <<>>]

Free(name, form) ==
  [kind |-> "function", name |-> <<name>>, definition |-> In(<<name>>),
   text |-> Say(In(<<name>>), form), params |-> <<>>]

Other(kind, name) ==
  [kind |-> kind, name |-> name, definition |-> name, text |-> <<>>, params |-> <<>>]

Compound(kind, name, is_header, text, ms) ==
  [kind |-> kind, name |-> name, header |-> is_header, file |-> "good",
   text |-> text, members |-> ms]

Probe == In(<<"probe">>)
ProbeRate == In(<<"probe", "_", "rate">>)

Compounds ==
  {Compound("class", Probe, FALSE, Say(Probe, form),
     <<Other("typedef", <<"sptr">>), Method(Probe, <<"rate">>, "plain"),
       [Method(Probe, <<"make">>, "plain") EXCEPT
          !.params = Say(Probe \o <<"::", "make">>, "bracket")],
       Method(Probe, <<"operator ", "bool">>, "plain"),
       Method(Probe, <<"rate">>, "digit")>>) : form \in {"plain", "digit"}}
  \cup
  {Compound("class", ProbeRate, FALSE, Say(ProbeRate, "bracket"),
     <<Other("event", <<"changed">>), Method(ProbeRate, <<"start">>, "digit")>>),
   Compound("namespace", gr, FALSE, Say(gr, "plain"),
     <<Free("wait", "plain"), Free("wait", "digit"), Other("variable", <<"x">>)>>),
   Compound("file", <<"probe.h">>, TRUE, <<>>, <<Free("wait", "bracket"), Free("mark", "octal")>>),
   Compound("file", <<"probe.cc">>, FALSE, <<>>, <<Free("hidden", "plain")>>),
   Compound("group", <<"cuda">>, FALSE, Say(<<"cuda">>, "plain"), <<>>),
   Compound("concept", <<"sized">>, FALSE, <<>>, <<>>)}

Files == {[c EXCEPT !.file = f] : c \in Compounds, f \in {"good", "malformed", "refused"}}

\* Up to three compounds of different names, in any order.
SomeIndexes ==
  {x \in UNION {[1..n -> Files] : n \in 1..3} :
     \A m, n \in DOMAIN x : m # n => x[m].name # x[n].name}

AllTokens == STRING

SomeTemplates ==
  <<[base |-> <<"probe">>,
     slots |-> {doc_key(Probe), doc_key(Probe \o <<"::", "make">>),
                doc_key(Probe \o <<"::", "rate">>), doc_key(Probe \o <<"::", "probe">>)}],
    [base |-> <<"probe", "_", "rate">>,
     slots |-> {doc_key(ProbeRate), doc_key(ProbeRate \o <<"::", "start">>)}],
    [base |-> <<"cuda", "_", "helpers">>, slots |-> {doc_key(In(<<"wait">>)), doc_key(In(<<"mark">>))}]>>

SomeFilters == {<<>>, gr}

-----------------------------------------------------------------------------
ReaderIdle == stack = <<>> /\ size = 0 /\ state = "idle"

MCInit ==
  \/ tool = "reader" /\ Reader!Init /\ HookIdle /\ DocsIdle
  \/ tool = "pydoc" /\ Init /\ ReaderIdle /\ HookIdle
  \/ tool = "hook" /\ Hook!Init /\ ReaderIdle /\ DocsIdle

MCNext ==
  /\ \/ tool = "reader" /\ Reader!Next /\ UNCHANGED <<hook_vars, docs_vars>>
     \/ tool = "pydoc" /\ Next /\ UNCHANGED <<hook_vars, reader_vars>>
     \/ tool = "hook" /\ Hook!Next /\ UNCHANGED <<reader_vars, docs_vars>>
  /\ UNCHANGED tool

MCSpec == MCInit /\ [][MCNext]_mcvars

-----------------------------------------------------------------------------
(* The properties of Pydoc are those of its module: nothing is said of an  *)
(* idle one.                                                               *)

TypesOK ==
  CASE tool = "reader" -> Reader!TypeOK
    [] tool = "pydoc" -> TypeOK
    [] tool = "hook" -> Hook!TypeOK

\* Reader: what was read can be written again.
ExportRight == tool = "reader" => Reader!ExportRight

\* Reader: a description is what its document says.
DescriptionRight == tool = "reader" => Reader!DescriptionRight
=============================================================================
