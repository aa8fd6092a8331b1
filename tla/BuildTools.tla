----------------------------- MODULE BuildTools -----------------------------
(***************************************************************************)
(* The two tools around a build that work on more than one document: the   *)
(* docstrings, whose state is that of Pydoc, and the hook on headers.      *)
(***************************************************************************)
EXTENDS Pydoc

CONSTANTS Bindings, Dirs, Names, MaxVersion    \* of BindingHash

VARIABLES header, version, made, metadata, head, todo, errors, hook   \* of BindingHash

docs_vars == vars
hook_vars == <<header, version, made, metadata, head, todo, errors, hook>>

Hook == INSTANCE BindingHash WITH pc <- hook

-----------------------------------------------------------------------------
(* A tool that is not run.                                                 *)

DocsIdle ==
  /\ index_file = "good" /\ index = <<>> /\ filter = <<>> /\ pc = "idle" /\ i = 1 /\ t = 1
  /\ members = <<>> /\ output = <<>> /\ slots = <<>> /\ status = {}

HookIdle ==
  /\ header = <<>> /\ version = 0 /\ made = <<>> /\ metadata = <<>>
  /\ head = <<>> /\ todo = {} /\ errors = {} /\ hook = "idle"

-----------------------------------------------------------------------------
\* In a commit each binding with metadata fits the one header of its name, if the
\* hook was run for it; else the header may also be missing.
CommittedInSync == Hook!CommittedInSync
=============================================================================
