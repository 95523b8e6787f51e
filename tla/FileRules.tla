------------------------------ MODULE FileRules ------------------------------
(***************************************************************************)
(* The transition functions of the rules that follow files over many calls:*)
(* read_db_large (src/src/rules.h) and the functions gen_recursive_        *)
(* traversal and gen_path_openat_count write (src/rule_codegen.py).        *)
(*                                                                         *)
(* A function takes the index k of the state it is called in, the state's  *)
(* data and the event; it gives the index it returns and the data it       *)
(* leaves.  A path stands for the absolute path it is resolved to.         *)
(***************************************************************************)
EXTENDS Integers, FiniteSets

CONSTANTS
  Paths,                    \* absolute paths
  Db,                       \* those is_db_file_path accepts
  AllowPaths, DenyPaths,    \* those the allow, and the deny, conditions match
  NoData,                   \* std::any()
  Large,                    \* bytes that make a read of a database large
  Threshold                 \* "threshold" of the two counting rules

ASSUME PathsAssumption ==
  /\ Db \subseteq Paths /\ AllowPaths \subseteq Paths /\ DenyPaths \subseteq Paths
  /\ Large \in Nat \ {0} /\ Threshold \in Nat \ {0}

Goto(index, d) == [next |-> index, data |-> d]
NO_MATCH(d) == Goto(-1, d)

\* O_RDONLY and O_RDWR, O_WRONLY, O_DIRECTORY.
Modes == {"read", "write", "directory"}
Opened(e) == e.call.op = "openat" /\ e.retval >= 0

-----------------------------------------------------------------------------
(* read_db_large: a state begins at an open; reads through its descriptor  *)
(* are added up; the first dup2 is followed.                               *)

\* pread64 is read by the same branch as read.
Reads == {"read", "copy_file_range"}

\* Mutants: reads through any descriptor count; Large itself is not enough.
count_bytes_any(k, d, e, final) ==
  IF e.call.op \in Reads /\ e.retval > 0
  THEN Goto(IF d.bytes + e.retval < Large THEN k ELSE final,
            [d EXCEPT !.bytes = @ + e.retval])
  ELSE NO_MATCH(d)

count_bytes_above(k, d, e, final) ==
  IF e.call.op \in Reads /\ e.retval > 0 /\ e.call.fd = d.fd
  THEN Goto(IF d.bytes + e.retval <= Large THEN k ELSE final,
            [d EXCEPT !.bytes = @ + e.retval])
  ELSE NO_MATCH(d)

count_bytes(k, d, e, final) ==
  IF e.call.op \in Reads /\ e.retval > 0 /\ e.call.fd = d.fd
  THEN Goto(IF d.bytes + e.retval < Large THEN k ELSE final,
            [d EXCEPT !.bytes = @ + e.retval])
  ELSE NO_MATCH(d)

step_openat_db(k, d, e) ==
  IF Opened(e) /\ e.call.mode # "write" /\ e.call.path \in Db
  THEN Goto(k + 1, [fd |-> e.retval, bytes |-> 0])
  ELSE NO_MATCH(d)

\* Mutants: the match goes on with the old descriptor; a large read is sent
\* to the state for duplicates instead of the end.
step_read_db_large_old(k, d, e) ==
  IF e.call.op = "dup2" /\ e.retval >= 0 /\ e.call.fd = d.fd
  THEN Goto(k + 1, d)
  ELSE count_bytes(k, d, e, k + 2)

step_read_db_large_short(k, d, e) ==
  IF e.call.op = "dup2" /\ e.retval >= 0 /\ e.call.fd = d.fd
  THEN Goto(k + 1, [d EXCEPT !.fd = e.call.newfd])
  ELSE count_bytes(k, d, e, k + 1)

step_read_db_large(k, d, e) ==
  IF e.call.op = "dup2" /\ e.retval >= 0 /\ e.call.fd = d.fd
  THEN Goto(k + 1, [d EXCEPT !.fd = e.call.newfd])
  ELSE count_bytes(k, d, e, k + 2)

step_read_db_large_dup2(k, d, e) == count_bytes(k, d, e, k + 1)

read_db_large(k, d, e) ==
  CASE k = 0 -> step_openat_db(k, d, e)
    [] k = 1 -> step_read_db_large(k, d, e)
    [] k = 2 -> step_read_db_large_dup2(k, d, e)

-----------------------------------------------------------------------------
(* The counting rules.                                                     *)

\* gen_path_skip_expr: the allow conditions come first; with neither list
\* nothing is skipped.
path_skip(p) ==
  \/ AllowPaths # {} /\ p \in AllowPaths
  \/ DenyPaths # {} /\ p \notin DenyPaths

Watched(e) == Opened(e) /\ ~path_skip(e.call.path)

Paths_of(d) == IF d = NoData THEN {} ELSE d.paths

\* Mutant: each directory starts the set of paths anew.
traversal_0_forgets(k, d, e) ==
  IF Watched(e)
  THEN Goto(k + 1, [fd |-> e.retval, paths |-> {}])
  ELSE NO_MATCH(d)

\* State 0 waits for a directory, state 1 for its entries to be read.
traversal_0(k, d, e) ==
  IF Watched(e)
  THEN Goto(k + 1, [fd |-> e.retval, paths |-> Paths_of(d)])
  ELSE NO_MATCH(d)

\* Mutant: an empty directory, or the end of one, counts.
ReadsNoEntries(d, e) ==
  e.call.op = "getdents64" /\ e.retval >= 0 /\ e.call.fd = d.fd

\* e.call.path is what /proc says the descriptor is.  A directory whose end
\* is reached gives 0.
ReadsEntries(d, e) ==
  e.call.op = "getdents64" /\ e.retval > 0 /\ e.call.fd = d.fd

traversal_1(k, d, e) ==
  LET paths == d.paths \cup {e.call.path}
  IN  CASE Watched(e) -> Goto(k, [d EXCEPT !.fd = e.retval])
        [] e.call.op = "close" /\ e.retval = 0 ->
             Goto(IF e.call.fd = d.fd THEN k - 1 ELSE k, d)
        [] ReadsEntries(d, e) ->
             Goto(IF Cardinality(paths) < Threshold THEN k - 1 ELSE k + 1,
                  [d EXCEPT !.paths = paths])
        [] OTHER -> NO_MATCH(d)

recursive_traversal(k, d, e) ==
  IF k = 0 THEN traversal_0(k, d, e) ELSE traversal_1(k, d, e)

\* Mutants: one file more is needed; directories count.
path_openat_count_more(k, d, e) ==
  LET paths == Paths_of(d) \cup {e.call.path}
  IN  IF Watched(e) /\ e.call.mode # "directory"
      THEN Goto(IF Cardinality(paths) <= Threshold THEN k ELSE k + 1,
                [paths |-> paths])
      ELSE NO_MATCH(d)

path_openat_count_all(k, d, e) ==
  LET paths == Paths_of(d) \cup {e.call.path}
  IN  IF Watched(e)
      THEN Goto(IF Cardinality(paths) < Threshold THEN k ELSE k + 1,
                [paths |-> paths])
      ELSE NO_MATCH(d)

path_openat_count(k, d, e) ==
  LET paths == Paths_of(d) \cup {e.call.path}
  IN  IF Watched(e) /\ e.call.mode # "directory"
      THEN Goto(IF Cardinality(paths) < Threshold THEN k ELSE k + 1,
                [paths |-> paths])
      ELSE NO_MATCH(d)

===============================================================================
