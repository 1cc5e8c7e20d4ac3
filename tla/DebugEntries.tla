------------------------------ MODULE DebugEntries ------------------------------
(***************************************************************************)
(* DebugInfoParser::parse_entries (src/src/debug_info.cc): the tree of     *)
(* debug entries, built while it is read.                                  *)
(*                                                                         *)
(* levels holds pointers to the vectors that are being filled, one inside  *)
(* an entry of the other.  A vector is named by the path of its entry, the *)
(* top one by <<>>; a pointer remembers how many entries the vector around *)
(* it had, since push_back may move them.  The input is a choice at every  *)
(* turn: what can be read there.                                           *)
(***************************************************************************)
EXTENDS Integers, Sequences, FiniteSets, SequencesExt

CONSTANTS
    MaxDepth,       \* limits_.max_debug_depth
    MaxTurns        \* a bound on the turns of a run

ASSUME TreeAssumption == MaxDepth \in Nat

VARIABLES
    tree_stage,     \* "start", "reading" or "done"
    tree_error,     \* the error of the call; "silent": failed without one
    tree,           \* what was read: entries with their paths, and end marks
    levels          \* levels

tree_vars == <<tree_stage, tree_error, tree, levels>>

EntryPaths == {item.path : item \in {i \in ToSet(tree) : i.kind # "end"}}
ChildCount(path) ==
    Cardinality({p \in EntryPaths : Len(p) = Len(path) + 1 /\ Front(p) = path})

Stop(error) ==
    /\ tree_stage' = "done"
    /\ tree_error' = error
    /\ UNCHANGED <<tree, levels>>

StartEntries ==
    /\ tree_stage = "start"
    /\ \/ Stop("resource_limit")        \* more bytes than the limit
       \/ /\ tree_stage' = "reading"
          /\ UNCHANGED <<tree_error, tree, levels>>

\* The loop ends with the input, whatever is still open.
EndOfInput == tree_stage = "reading" /\ Stop("none")

TagTruncated == tree_stage = "reading" /\ Stop("truncated")

\* A tag of zero closes a level, or ends the loop.
CloseLevel ==
    /\ tree_stage = "reading"
    /\ Len(tree) < MaxTurns
    /\ IF Len(levels) = 1 THEN Stop("none")
       ELSE /\ levels' = Front(levels)
            /\ tree' = Append(tree, [kind |-> "end", path |-> <<>>])
            /\ UNCHANGED <<tree_stage, tree_error>>

\* An entry whose header or attributes cannot be read, after the depth check.
EntryFails(error) ==
    /\ tree_stage = "reading"
    /\ Stop(IF Len(levels) > MaxDepth THEN "resource_limit" ELSE error)

\* A bug in ReadEntry: the entries after one with children are added beside it,
\* and the pointer to its children is kept.
ReadEntryBeside(children) ==
    LET owner == levels[1].path
        path == Append(owner, ChildCount(owner) + 1)
    IN
    /\ tree_stage = "reading"
    /\ Len(tree) < MaxTurns
    /\ Len(levels) <= MaxDepth
    /\ tree' = Append(tree, [kind |-> IF children THEN "open" ELSE "leaf",
                             path |-> path])
    /\ levels' = IF children
                 THEN Append(levels, [path |-> path,
                                      around |-> ChildCount(owner) + 1])
                 ELSE levels
    /\ UNCHANGED <<tree_stage, tree_error>>

\* An entry is added to the last level, and its children are the next one.
ReadEntry(children) ==
    LET owner == Last(levels).path
        path == Append(owner, ChildCount(owner) + 1)
    IN
    /\ tree_stage = "reading"
    /\ Len(tree) < MaxTurns
    /\ Len(levels) <= MaxDepth
    /\ tree' = Append(tree, [kind |-> IF children THEN "open" ELSE "leaf",
                             path |-> path])
    /\ levels' = IF children
                 THEN Append(levels, [path |-> path,
                                      around |-> ChildCount(owner) + 1])
                 ELSE levels
    /\ UNCHANGED <<tree_stage, tree_error>>

TreeInit ==
    /\ tree_stage = "start"
    /\ tree_error = "none"
    /\ tree = <<>>
    /\ levels = <<[path |-> <<>>, around |-> 0]>>

\* The next call, for a new unit.
NextTree ==
    /\ tree_stage = "done"
    /\ tree_stage' = "start"
    /\ tree_error' = "none"
    /\ tree' = <<>>
    /\ levels' = <<[path |-> <<>>, around |-> 0]>>

TreeNext ==
    \/ StartEntries
    \/ NextTree
    \/ EndOfInput
    \/ TagTruncated
    \/ CloseLevel
    \/ \E error \in {"truncated", "invalid_debug_info", "silent"} :
          EntryFails(error)
    \/ \E children \in BOOLEAN : ReadEntry(children)

TreeSpec == TreeInit /\ [][TreeNext]_tree_vars

-----------------------------------------------------------------------------
(* The nesting of a list of entries and end marks.                         *)

\* The items of a kind in a part of the list.
CountOf(list, kind, from, to) ==
    Cardinality({k \in from..to : list[k].kind = kind})

\* Entry j is open before item n: it has children, and what came in between
\* did not end them.
IsOpen(list, j, n) ==
    /\ list[j].kind = "open"
    /\ \A m \in (j + 1)..(n - 1) :
          CountOf(list, "end", j + 1, m) <= CountOf(list, "open", j + 1, m)

Enclosing(list, n) == {j \in 1..(n - 1) : IsOpen(list, j, n)}

\* The entries of the tree are nested as the input nests them: the parent of an
\* entry is the last one before it that was opened and not closed.  No entry is
\* deeper than the limit, and the nesting error is only given for one that
\* would be.  No pointer in levels is left behind by a push_back: the vector
\* around the entry it points into has not grown since
\* (DebugInfoParser::parse_entries).
EntriesNestAsWritten ==
    /\ \A n \in 1..Len(tree) :
          tree[n].kind # "end" =>
             /\ Len(tree[n].path) = Cardinality(Enclosing(tree, n)) + 1
             /\ Len(tree[n].path) <= MaxDepth
             /\ \A j \in Enclosing(tree, n) : IsPrefix(tree[j].path, tree[n].path)
    /\ tree_error = "resource_limit" =>
          tree = <<>> \/ Cardinality(Enclosing(tree, Len(tree) + 1)) = MaxDepth
    /\ \A i \in 2..Len(levels) :
          /\ Front(levels[i].path) = levels[i - 1].path
          /\ levels[i].around = ChildCount(levels[i - 1].path)
================================================================================
