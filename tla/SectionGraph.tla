------------------------------ MODULE SectionGraph ------------------------------
(***************************************************************************)
(* SectionGraphAnalyzer::analyze (src/src/section_graph.cc): the graph of  *)
(* references between the sections of an image, and its strongly connected *)
(* components by a depth-first search with low links.  The recursion of    *)
(* strong_connect is a stack of frames; one step is one edge that is       *)
(* followed, one call or one return.                                       *)
(*                                                                         *)
(* A component is a set, and so is the list of components: the two sorts   *)
(* of the code have nothing left to do.  The texts that give the reasons   *)
(* of a relation are left out.                                             *)
(***************************************************************************)
EXTENDS Integers, Sequences, FiniteSets, SequencesExt

CONSTANTS
    GraphImages,        \* the images callers analyze: a function
    MaxGraphSections    \* limits_.max_sections

\* What the types of an image say of the fields that analyze reads.
IsGraphImage(i) ==
    /\ i.sections \in Seq([index : Nat, kind : STRING, link : Nat, info : Nat])
    /\ i.segments \in Seq([sections : Seq(Nat)])
    /\ i.symbols \in Seq([section_index : Nat])
    /\ i.relocations \in Seq([target_section : Nat, symbol_index : Nat])

ASSUME GraphAssumption ==
    /\ MaxGraphSections \in Nat
    /\ \A k \in DOMAIN GraphImages : IsGraphImage(GraphImages[k])

VARIABLES
    call,           \* the image of the call: GraphImages[call]
    graph_pc,       \* "idle", "searching" or "returned"
    graph_error,    \* the error of the call
    relations,      \* graph.relations
    components,     \* graph.components
    cyclic,         \* graph.cyclic
    index_of, low_link, stack, on_stack, next_index,    \* of the search
    node,           \* the loop over all sections
    frames          \* the active calls of strong_connect: [node, edge]

search == <<index_of, low_link, stack, on_stack, next_index>>
graph_vars == <<call, graph_pc, graph_error, relations, components, cyclic,
                index_of, low_link, stack, on_stack, next_index, node, frames>>

graph_image == GraphImages[call]
SectionCount(i) == Len(i.sections)
Nodes == 0..(SectionCount(graph_image) - 1)

-----------------------------------------------------------------------------
(* The references of an image, in the order in which they are found.       *)

SectionReferences(section) ==
    (IF section.link # 0 THEN <<<<section.index, section.link>>>> ELSE <<>>)
    \o (IF section.kind \in {"relocations", "relocation_addends"}
        THEN <<<<section.index, section.info>>>> ELSE <<>>)

SegmentReferences(segment) ==
    IF segment.sections = <<>> THEN <<>>
    ELSE [n \in 1..(Len(segment.sections) - 1) |->
            <<segment.sections[n], segment.sections[n + 1]>>]

SymbolReferences(i, rel) ==
    IF rel.symbol_index < Len(i.symbols)
    THEN <<<<rel.target_section, i.symbols[rel.symbol_index + 1].section_index>>>>
    ELSE <<>>

References(i) ==
    FlattenSeq([n \in DOMAIN i.sections |-> SectionReferences(i.sections[n])])
    \o FlattenSeq([n \in DOMAIN i.segments |-> SegmentReferences(i.segments[n])])
    \o FlattenSeq([n \in DOMAIN i.relocations |->
                     SymbolReferences(i, i.relocations[n])])

\* A reference to what is not a section is refused.
AddRelation(count, known, r) ==
    LET at == {n \in DOMAIN known :
                  known[n].source = r[1] /\ known[n].target = r[2]}
    IN  IF r[1] >= count \/ r[2] >= count THEN known
        ELSE IF at = {}
        THEN Append(known, [source |-> r[1], target |-> r[2], references |-> 1])
        ELSE [n \in DOMAIN known |->
                IF n \in at THEN [known[n] EXCEPT !.references = @ + 1]
                ELSE known[n]]

Relations(i) ==
    LET found == References(i)
        known[k \in 0..Len(found)] ==
            IF k = 0 THEN <<>>
            ELSE AddRelation(SectionCount(i), known[k - 1], found[k])
    IN  known[Len(found)]

\* adjacency[n]: the targets of the relations that leave n, in their order.
Adjacency(n) ==
    LET out[k \in 0..Len(relations)] ==
            IF k = 0 THEN <<>>
            ELSE IF relations[k].source = n
            THEN Append(out[k - 1], relations[k].target)
            ELSE out[k - 1]
    IN  out[Len(relations)]

Indegree(n) == Cardinality({k \in DOMAIN relations : relations[k].target = n})
Roots == {n \in Nodes : Indegree(n) = 0}
Orphans == {n \in Roots : Adjacency(n) = <<>>}

-----------------------------------------------------------------------------
(* The search.                                                             *)

GraphInit ==
    /\ call \in DOMAIN GraphImages
    /\ graph_pc = "idle"
    /\ graph_error = "none"
    /\ relations = <<>>
    /\ components = {}
    /\ cyclic = FALSE
    /\ index_of = [n \in Nodes |-> -1]
    /\ low_link = [n \in Nodes |-> -1]
    /\ stack = <<>>
    /\ on_stack = [n \in Nodes |-> FALSE]
    /\ next_index = 0
    /\ node = 0
    /\ frames = <<>>

BeginGraph ==
    /\ graph_pc = "idle"
    /\ \/ /\ SectionCount(graph_image) > MaxGraphSections
          /\ graph_pc' = "returned"
          /\ graph_error' = "resource_limit"
          /\ UNCHANGED relations
       \/ /\ SectionCount(graph_image) <= MaxGraphSections
          /\ graph_pc' = "searching"
          /\ relations' = Relations(graph_image)
          /\ UNCHANGED graph_error
    /\ UNCHANGED <<call, components, cyclic, search, node, frames>>

\* The first lines of strong_connect(n).
EnterNode(n) ==
    /\ index_of' = [index_of EXCEPT ![n] = next_index]
    /\ low_link' = [low_link EXCEPT ![n] = next_index]
    /\ next_index' = next_index + 1
    /\ stack' = Append(stack, n)
    /\ on_stack' = [on_stack EXCEPT ![n] = TRUE]
    /\ frames' = Append(frames, [node |-> n, edge |-> 1])

\* The loop over all nodes calls strong_connect for those not seen yet.
NextNode ==
    /\ graph_pc = "searching"
    /\ frames = <<>>
    /\ node < SectionCount(graph_image)
    /\ node' = node + 1
    /\ \/ index_of[node] < 0 /\ EnterNode(node)
       \/ index_of[node] >= 0 /\ UNCHANGED <<search, frames>>
    /\ UNCHANGED <<call, graph_pc, graph_error, relations, components, cyclic>>

TopFrame == frames[Len(frames)]
Lesser(a, b) == IF a < b THEN a ELSE b

\* A bug in Follow: a node whose component is complete still counts.
FollowClosed ==
    LET n == TopFrame.node
        target == Adjacency(n)[TopFrame.edge]
    IN
    /\ graph_pc = "searching"
    /\ frames # <<>>
    /\ TopFrame.edge <= Len(Adjacency(n))
    /\ \/ index_of[target] < 0 /\ EnterNode(target)
       \/ /\ index_of[target] >= 0
          /\ low_link' = [low_link EXCEPT ![n] = Lesser(@, index_of[target])]
          /\ frames' = [frames EXCEPT ![Len(frames)].edge = @ + 1]
          /\ UNCHANGED <<index_of, stack, on_stack, next_index>>
    /\ UNCHANGED <<call, graph_pc, graph_error, relations, components, cyclic, node>>

\* One turn of the loop over adjacency[node]; the edge of a call is passed
\* when the call returns.
Follow ==
    LET n == TopFrame.node
        target == Adjacency(n)[TopFrame.edge]
        next == [frames EXCEPT ![Len(frames)].edge = @ + 1]
    IN
    /\ graph_pc = "searching"
    /\ frames # <<>>
    /\ TopFrame.edge <= Len(Adjacency(n))
    /\ \/ /\ index_of[target] < 0
          /\ EnterNode(target)
       \/ /\ index_of[target] >= 0 /\ on_stack[target]
          /\ low_link' = [low_link EXCEPT ![n] = Lesser(@, index_of[target])]
          /\ frames' = next
          /\ UNCHANGED <<index_of, stack, on_stack, next_index>>
       \/ /\ index_of[target] >= 0 /\ ~on_stack[target]
          /\ frames' = next
          /\ UNCHANGED search
    /\ UNCHANGED <<call, graph_pc, graph_error, relations, components, cyclic, node>>

\* A bug in ClosesCycle: a section that refers to itself is not a cycle.
ClosesCycleOfTwo(n, component) == Cardinality(component) > 1

ClosesCycle(n, component) ==
    \/ Cardinality(component) > 1
    \/ n \in Range(Adjacency(n))

\* The nodes that are popped with n.
Popped(n) ==
    LET first == CHOOSE k \in DOMAIN stack : stack[k] = n
    IN  SubSeq(stack, first, Len(stack))

OffStack(n) == [m \in Nodes |-> on_stack[m] /\ m \notin Range(Popped(n))]

\* The lines after the loop, and the return to the caller's loop.
ReturnNode ==
    LET n == TopFrame.node
        component == Range(Popped(n))
        depth == Len(frames) - 1
        caller == frames[depth].node
    IN
    /\ graph_pc = "searching"
    /\ frames # <<>>
    /\ TopFrame.edge > Len(Adjacency(n))
    /\ \/ /\ low_link[n] # index_of[n]
          /\ UNCHANGED <<stack, on_stack, components, cyclic>>
       \/ /\ low_link[n] = index_of[n]
          /\ stack' = SubSeq(stack, 1, Len(stack) - Len(Popped(n)))
          /\ on_stack' = OffStack(n)
          /\ components' = components \cup {component}
          /\ cyclic' = (cyclic \/ ClosesCycle(n, component))
    /\ \/ /\ depth = 0
          /\ frames' = <<>>
          /\ UNCHANGED low_link
       \/ /\ depth > 0
          /\ frames' = [SubSeq(frames, 1, depth) EXCEPT ![depth].edge = @ + 1]
          /\ low_link' = [low_link EXCEPT
                            ![caller] = Lesser(@, low_link[n])]
    /\ UNCHANGED <<call, graph_pc, graph_error, relations, index_of, next_index, node>>

FinishGraph ==
    /\ graph_pc = "searching"
    /\ frames = <<>>
    /\ node = SectionCount(graph_image)
    /\ graph_pc' = "returned"
    /\ UNCHANGED <<call, graph_error, relations, components, cyclic, search, node,
                   frames>>

\* The caller analyzes the image again.
NextGraph ==
    /\ graph_pc = "returned"
    /\ graph_pc' = "idle"
    /\ graph_error' = "none"
    /\ relations' = <<>>
    /\ components' = {}
    /\ cyclic' = FALSE
    /\ index_of' = [n \in Nodes |-> -1]
    /\ low_link' = [n \in Nodes |-> -1]
    /\ next_index' = 0
    /\ node' = 0
    /\ UNCHANGED <<call, stack, on_stack, frames>>

GraphNext ==
    BeginGraph \/ NextNode \/ Follow \/ ReturnNode \/ FinishGraph \/ NextGraph

GraphSpec == GraphInit /\ [][GraphNext]_graph_vars

-----------------------------------------------------------------------------
(* What the analysis promises, against the paths of the graph.             *)

Edges == {<<relations[k].source, relations[k].target>> : k \in DOMAIN relations}

\* The sets of sections that refer to none outside of them.
ClosedSets ==
    LET edges == Edges
    IN  {set \in SUBSET Nodes : \A e \in edges : e[1] \in set => e[2] \in set}

\* The classes of the sections that paths lead to and back from.  A path leads
\* from one section to another if no closed set holds the first alone.
StrongComponents ==
    LET closed == ClosedSets
        leads(m, n) == \A set \in closed : m \in set => n \in set
    IN  {{m \in Nodes : leads(n, m) /\ leads(m, n)} : n \in Nodes}

\* on_stack is kept next to the stack; the open nodes, which are visited and
\* not yet in a component, are the ones on the stack, each of them once.
StackHoldsTheOpen ==
    /\ Cardinality(Range(stack)) = Len(stack)
    /\ \A n \in Nodes :
          /\ on_stack[n] <=> n \in Range(stack)
          /\ on_stack[n] <=> index_of[n] >= 0 /\ n \notin UNION components

\* A component is final when it is reported: it holds every section that a
\* path leads to and back from, and no other, although the search has not
\* seen the rest of the graph yet; and the stack is what the search takes it
\* for (strong_connect of SectionGraphAnalyzer::analyze).
ComponentsAreFinal ==
    /\ components # {} => components \subseteq StrongComponents
    /\ StackHoldsTheOpen

\* No reference is counted twice or lost when references of several kinds
\* name the same two sections.
ReferencesAreCounted ==
    \A r \in Nodes \X Nodes :
        LET all == References(graph_image)
            known == {k \in DOMAIN relations :
                        <<relations[k].source, relations[k].target>> = r}
            found == {k \in DOMAIN all : all[k] = r}
        IN  /\ Cardinality(known) <= 1
            /\ found # {} => \E k \in known :
                  relations[k].references = Cardinality(found)
            /\ found = {} => known = {}

\* When the analysis returns, the components are those of the graph, and the
\* graph is reported cyclic exactly if a path leads from a section to itself;
\* the relations are those of the references, each counted once
\* (SectionGraphAnalyzer::analyze).
AnalysisIsComplete ==
    graph_pc = "returned" /\ graph_error = "none" =>
        /\ components = StrongComponents
        /\ cyclic <=> \/ \E n \in Nodes : <<n, n>> \in Edges
                      \/ \E c \in StrongComponents : Cardinality(c) > 1
        /\ Orphans = {n \in Nodes : \A e \in Edges : n \notin {e[1], e[2]}}
        /\ ReferencesAreCounted
===============================================================================
