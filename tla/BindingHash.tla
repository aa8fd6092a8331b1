---------------------------- MODULE BindingHash ----------------------------
(***************************************************************************)
(* Headers, the bindings that are made from them, and the commits that     *)
(* scripts/check_bindtool_header_hashes.py guards.  It is the third hook   *)
(* of .pre-commit-config.yaml; hooks that come after it rewrite headers,   *)
(* and a commit in which a hook fails or changes a file is refused.  The   *)
(* hook is run for a commit that adds, changes or moves a header or a      *)
(* binding: a file that a commit deletes is none of the files that         *)
(* pre-commit compares with the `files' of a hook.                         *)
(*                                                                         *)
(* A header is a directory and a base name; the hash of its content is its *)
(* version.  A binding is made from one header, and its metadata (the two  *)
(* BINDTOOL_HEADER_FILE comments) may be missing.                          *)
(***************************************************************************)
EXTENDS Integers

CONSTANTS
  Bindings,    \* the binding files
  Dirs,        \* directories below include/gnuradio
  Names,       \* base names of headers
  MaxVersion   \* bound: versions of the content of headers

VARIABLES
  header,     \* header[d][n]: the version of that file, 0 if there is none
  version,    \* the last version given to a content
  made,       \* made[b]: the name and the version of the header b is made from
  metadata,   \* metadata[b]: the binding records them in the form the hook reads
  head,       \* the headers and bindings of the last commit: <<header, made>>
  todo,       \* the bindings that the hook has still to check
  errors,     \* the bindings it complains about
  pc          \* "edit", "hook", "format", and after a commit "committed" if the
              \* hook was run for it, "unchecked" if not

tree == <<header, version, made, metadata>>
vars == <<tree, head, todo, errors, pc>>

Here(n) == {d \in Dirs : header[d][n] > 0}

-----------------------------------------------------------------------------
\* find_header_file: the only header of that name, or none.
find_header_file(n) == IF \E d \in Dirs : Here(n) = {d} THEN Here(n) ELSE {}

\* Fault: the first one found.
find_header_file_any(n) == IF Here(n) = {} THEN {} ELSE {CHOOSE d \in Here(n) : TRUE}

\* check_binding_file.
check_binding_file(b) ==
  metadata[b] =>
    /\ find_header_file(made[b].name) # {}
    /\ \A d \in find_header_file(made[b].name) :
         header[d][made[b].name] = made[b].version

-----------------------------------------------------------------------------
Init ==
  /\ \E d \in Dirs :
       header = [e \in Dirs |-> [n \in Names |-> IF e = d THEN 1 ELSE 0]]
  /\ version = 1
  /\ made \in [Bindings -> [name : Names, version : {1}]]
  /\ metadata \in [Bindings -> BOOLEAN]
  /\ head = <<header, made>>
  /\ todo = {}
  /\ errors = {}
  /\ pc = "edit"

\* A developer writes a header, or a hook formats it: it has a new content.
Rewrite(d, n) ==
  /\ version < MaxVersion
  /\ version' = version + 1
  /\ header' = [header EXCEPT ![d][n] = version']
  /\ UNCHANGED <<made, metadata>>

Edit ==
  /\ pc \in {"edit", "committed", "unchecked"}
  /\ \/ \E d \in Dirs, n \in Names : Rewrite(d, n)
     \/ \E d, e \in Dirs, n \in Names, copy \in BOOLEAN :
          /\ d # e /\ header[d][n] > 0 /\ header[e][n] = 0
          /\ header' = [header EXCEPT ![e][n] = header[d][n],
                                     ![d][n] = IF copy THEN @ ELSE 0]
          /\ UNCHANGED <<version, made, metadata>>
     \/ \E d \in Dirs, n \in Names :
          /\ header[d][n] > 0
          /\ header' = [header EXCEPT ![d][n] = 0]
          /\ UNCHANGED <<version, made, metadata>>
     \/ \E b \in Bindings, d \in Dirs :   \* gr_modtool bind
          /\ header[d][made[b].name] > 0
          /\ made' = [made EXCEPT ![b].version = header[d][made[b].name]]
          /\ UNCHANGED <<header, version, metadata>>
  /\ pc' = "edit"
  /\ UNCHANGED <<head, todo, errors>>

\* A header that the next commit adds, changes or moves.
Changed(d, n) == header[d][n] > 0 /\ header[d][n] # head[1][d][n]

\* What pre-commit finds for the `files' of the hook.
Staged == made # head[2] \/ \E d \in Dirs, n \in Names : Changed(d, n)

\* git commit -a: main() begins with all bindings.
Commit ==
  /\ pc = "edit"
  /\ Staged
  /\ todo' = Bindings
  /\ errors' = {}
  /\ pc' = "hook"
  /\ UNCHANGED <<tree, head>>

\* The hook is skipped, and those after it find no header to rewrite.
CommitUnchecked ==
  /\ pc = "edit"
  /\ ~Staged
  /\ head' = <<header, made>>
  /\ pc' = "unchecked"
  /\ UNCHANGED <<tree, todo, errors>>

\* Fault: a binding that has failed is checked again.
Check_again ==
  /\ pc = "hook"
  /\ \E b \in todo :
       /\ todo' = IF check_binding_file(b) THEN todo \ {b} ELSE todo
       /\ errors' = IF check_binding_file(b) THEN errors ELSE errors \cup {b}
  /\ UNCHANGED <<tree, head, pc>>

\* main(): one binding file.
Check ==
  /\ pc = "hook"
  /\ \E b \in todo :
       /\ todo' = todo \ {b}
       /\ errors' = IF check_binding_file(b) THEN errors ELSE errors \cup {b}
  /\ UNCHANGED <<tree, head, pc>>

CheckEnd ==
  /\ pc = "hook"
  /\ todo = {}
  /\ pc' = "format"
  /\ UNCHANGED <<tree, head, todo, errors>>

\* Fault: what the later hooks change is committed.
Format_commits ==
  /\ pc = "format"
  /\ \E d \in Dirs, n \in Names : Changed(d, n) /\ Rewrite(d, n)
  /\ pc' = IF errors = {} THEN "committed" ELSE "edit"
  /\ head' = IF errors = {} THEN <<header', made>> ELSE head
  /\ UNCHANGED <<todo, errors>>

\* The later hooks change a header of the commit: it is refused.
Format ==
  /\ pc = "format"
  /\ \E d \in Dirs, n \in Names : Changed(d, n) /\ Rewrite(d, n)
  /\ pc' = "edit"
  /\ UNCHANGED <<head, todo, errors>>

\* They change nothing: the commit is made if the hook has returned 0.
Finish ==
  /\ pc = "format"
  /\ pc' = IF errors = {} THEN "committed" ELSE "edit"
  /\ head' = IF errors = {} THEN <<header, made>> ELSE head
  /\ UNCHANGED <<tree, todo, errors>>

Next == Edit \/ Commit \/ CommitUnchecked \/ Check \/ CheckEnd \/ Format \/ Finish

Spec == Init /\ [][Next]_vars

-----------------------------------------------------------------------------
TypeOK ==
  /\ header \in [Dirs -> [Names -> 0..MaxVersion]]
  /\ version \in 1..MaxVersion
  /\ made \in [Bindings -> [name : Names, version : 1..MaxVersion]]
  /\ todo \subseteq Bindings
  /\ errors \subseteq Bindings \ todo
  /\ pc \in {"edit", "hook", "format", "committed", "unchecked"}

\* The only header a binding can mean is the one it is made from.
InSync(b) ==
  /\ \E d \in Dirs : Here(made[b].name) = {d}
  /\ \A d \in Here(made[b].name) : header[d][made[b].name] = made[b].version

\* In a commit each binding with metadata fits the one header of its name,
\* although headers are rewritten after the hook has looked at them.  In one for
\* which the hook was not run a header may be missing, but is none out of step.
CommittedInSync ==
  /\ pc = "committed" => \A b \in Bindings : metadata[b] => InSync(b)
  /\ pc = "unchecked" =>
       \A b \in Bindings : metadata[b] => InSync(b) \/ Here(made[b].name) = {}

\* scripts/check_bindtool_header_hashes.py:5-6 and 157: no binding file is in a
\* commit that no longer fits the header it was made from.
AllInSync ==
  pc = "committed" =>
    \A b \in Bindings : \A d \in Here(made[b].name) :
      header[d][made[b].name] = made[b].version
=============================================================================
