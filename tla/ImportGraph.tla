----------------------------- MODULE ImportGraph -----------------------------
(***************************************************************************)
(* Loading an import graph (packages/evidence/src/import-graph-loader.ts)  *)
(* and what the import DAG (packages/resolver/src/document-import-dag.ts)  *)
(* requires of it.                                                         *)
(*                                                                         *)
(* visit() reads one file, checks it against the limits, records it as a   *)
(* node and takes its imports in order, descending into the ones not seen  *)
(* yet.  Its call stack is the variable stack.  The edge of a descent is   *)
(* inserted, once the descent has returned, where it was encountered.      *)
(*                                                                         *)
(* What a path holds is chosen when it is read: the repository may change  *)
(* between two reads, and a path may turn out to be another name of a file *)
(* that is being expanded.  A document is identified by its path, of       *)
(* issues only the number is kept, and the references that name no path    *)
(* (ambiguous, a URL, outside the root) are one value.                     *)
(***************************************************************************)
EXTENDS Naturals, Sequences, SequencesExt, FiniteSets, FiniteSetsExt, Totals

CONSTANTS Paths, EntryPath, Sizes,
          Texts,           \* what a document may import, in order
          Unresolved,      \* a reference that names no repository path
          MaxImports,      \* the lexer's limit for one document
          MaxDepth, MaxEdges, MaxFanOut, MaxFiles, MaxFileBytes, MaxTotalBytes, MaxIssues,
          MaxReferences    \* limit of the import DAG

(* validateLimits; the DAG admits what the loader's own limits leave possible. *)
ASSUME ImportAssumption ==
  /\ {MaxDepth, MaxImports, MaxReferences} \subseteq Nat /\ Sizes \subseteq Nat
  /\ {MaxEdges, MaxFanOut, MaxFiles, MaxFileBytes, MaxTotalBytes, MaxIssues} \subseteq Nat \ {0}
  /\ MaxReferences >= MaxEdges + (MaxDepth + 1) * MaxImports
  /\ \A t \in Texts : t \in Seq(Paths \cup {Unresolved}) /\ Len(t) <= MaxImports
  /\ EntryPath \in Paths /\ Unresolved \notin Paths

VARIABLES begun,      \* loadImportGraph was called
          reading,    \* the path whose read is awaited
          stack,      \* open visits, the entry's first
          nodes, edges, issues, completed, edgeSlots, halted, totalBytes,
          returned    \* loadImportGraph has answered

importVars == <<begun, reading, stack, nodes, edges, issues, completed, edgeSlots, halted,
                totalBytes, returned>>

ImportInit ==
  /\ begun = FALSE /\ reading = <<>> /\ stack = <<>> /\ nodes = <<>> /\ edges = <<>>
  /\ issues = 0 /\ completed = {} /\ edgeSlots = 0 /\ halted = FALSE /\ totalBytes = 0
  /\ returned = FALSE

Top == stack[Len(stack)]
Under == Front(stack)
ActivePaths == {f.path : f \in Range(stack)}

(* addIssue drops what exceeds the limit. *)
AddIssue == issues' = Min({issues + 1, MaxIssues})

(* Faulty variant: the edge of a descent is appended after those below it. *)
AddEdgeLast(list, position, edge) == Append(list, edge)

(* addEdge. *)
AddEdge(list, position, edge) == InsertAt(list, position, edge)

EdgeOf(frame, state, path, document) ==
  [from |-> frame.path, index |-> frame.next, state |-> state, path |-> path,
   document |-> document]

(* The visit ends and its caller adds the edge; the entry has no caller. *)
VisitReturns(open, state, document) ==
  /\ reading' = <<>>
  /\ IF open = <<>>
     THEN /\ returned' = TRUE
          /\ UNCHANGED <<stack, edges>>
     ELSE LET caller == open[Len(open)]
          IN /\ edges' = AddEdge(edges, caller.position,
                                 EdgeOf(caller, state, caller.imports[caller.next], document))
             /\ stack' = [open EXCEPT ![Len(open)].next = @ + 1]
             /\ UNCHANGED returned

LoadBegins ==
  /\ ~begun
  /\ begun' = TRUE /\ reading' = <<EntryPath>>
  /\ UNCHANGED <<stack, nodes, edges, issues, completed, edgeSlots, halted, totalBytes, returned>>

(* The file cannot be read, or one of the limits refuses its bytes. *)
ReadRefused ==
  /\ reading # <<>>
  /\ \/ VisitReturns(stack, "unavailable", <<>>)
     \/ \E size \in Sizes :
          /\ size > MaxFileBytes \/ totalBytes + size > MaxTotalBytes
          /\ VisitReturns(stack, "limit-exceeded", <<>>)
  /\ AddIssue
  /\ UNCHANGED <<begun, nodes, completed, edgeSlots, halted, totalBytes>>

(* Another path to a file that is being expanded, found by device and inode. *)
ReadAlias(document) ==
  /\ reading # <<>> /\ document \in ActivePaths
  /\ VisitReturns(stack, "cycle", <<document>>)
  /\ AddIssue
  /\ UNCHANGED <<begun, nodes, completed, edgeSlots, halted, totalBytes>>

(* A file that is none of those being expanded. *)
Admitted(size) ==
  /\ reading # <<>>
  /\ size <= MaxFileBytes /\ totalBytes + size <= MaxTotalBytes
  /\ totalBytes' = totalBytes + size

NodeOf(size, imports, state) ==
  [path |-> reading[1], size |-> size, depth |-> Len(stack), imports |-> imports,
   state |-> state]

(* Invalid UTF-8, or a document the lexer refuses, is a node without imports. *)
ReadUnparsable(size) ==
  /\ Admitted(size)
  /\ nodes' = Append(nodes, NodeOf(size, <<>>, "parse-failed"))
  /\ completed' = completed \cup {reading[1]}
  /\ VisitReturns(stack, "loaded", <<reading[1]>>)
  /\ AddIssue
  /\ UNCHANGED <<begun, edgeSlots, halted>>

(* Faulty variant: nothing is reported about the imports beyond the fan-out. *)
ReadLoadsQuietly(size, imports) ==
  /\ Admitted(size)
  /\ nodes' = Append(nodes, NodeOf(size, imports, "loaded"))
  /\ stack' = Append(stack, [path |-> reading[1], imports |-> imports,
                             next |-> 1, position |-> 1])
  /\ reading' = <<>>
  /\ UNCHANGED <<begun, edges, issues, completed, edgeSlots, halted, returned>>

ReadLoads(size, imports) ==
  /\ Admitted(size)
  /\ nodes' = Append(nodes, NodeOf(size, imports, "loaded"))
  /\ stack' = Append(stack, [path |-> reading[1], imports |-> imports,
                             next |-> 1, position |-> 1])
  /\ reading' = <<>>
  /\ IF Len(imports) > MaxFanOut THEN AddIssue ELSE UNCHANGED issues
  /\ UNCHANGED <<begun, edges, completed, edgeSlots, halted, returned>>

Expanding == reading = <<>> /\ stack # <<>> /\ ~returned
HasReference == ~halted /\ Top.next <= Len(Top.imports)

EdgeLimit ==
  /\ Expanding /\ HasReference /\ edgeSlots >= MaxEdges
  /\ halted' = TRUE
  /\ AddIssue
  /\ UNCHANGED <<begun, reading, stack, nodes, edges, completed, edgeSlots, totalBytes, returned>>

(* What becomes of a reference within the fan-out. *)
Decision(path) ==
  IF path = Unresolved THEN "rejected"
  ELSE IF path \in ActivePaths THEN "cycle"
  ELSE IF path \in completed THEN "already-loaded"
  ELSE IF Len(stack) - 1 >= MaxDepth \/ Len(nodes) >= MaxFiles THEN "limit-exceeded"
  ELSE "visit"

(* The reference is settled without a read. *)
SettleReference(state, path, document) ==
  /\ edges' = AddEdge(edges, Len(edges) + 1, EdgeOf(Top, state, path, document))
  /\ stack' = Append(Under, [Top EXCEPT !.next = @ + 1])
  /\ UNCHANGED <<begun, reading, nodes, completed, halted, totalBytes, returned>>

(* Faulty variant: the imports beyond the fan-out take no edge slot. *)
BeyondFanOutFree ==
  /\ Expanding /\ HasReference /\ edgeSlots < MaxEdges
  /\ Top.next > MaxFanOut
  /\ SettleReference("limit-exceeded", Unresolved, <<>>)
  /\ UNCHANGED <<issues, edgeSlots>>

BeyondFanOut ==
  /\ Expanding /\ HasReference /\ edgeSlots < MaxEdges
  /\ Top.next > MaxFanOut
  /\ edgeSlots' = edgeSlots + 1
  /\ SettleReference("limit-exceeded", Unresolved, <<>>)
  /\ UNCHANGED issues

TakeReference ==
  LET path == Top.imports[Top.next]
  IN /\ Expanding /\ HasReference /\ edgeSlots < MaxEdges
     /\ Top.next <= MaxFanOut
     /\ edgeSlots' = edgeSlots + 1
     /\ \/ /\ Decision(path) = "already-loaded"
           /\ SettleReference("already-loaded", path, <<path>>)
           /\ UNCHANGED issues
        \/ /\ Decision(path) \in {"rejected", "cycle", "limit-exceeded"}
           /\ SettleReference(Decision(path), path,
                              IF Decision(path) = "cycle" THEN <<path>> ELSE <<>>)
           /\ AddIssue
        \/ /\ Decision(path) = "visit"
           /\ reading' = <<path>>
           /\ stack' = Append(Under, [Top EXCEPT !.position = Len(edges) + 1])
           /\ UNCHANGED <<begun, nodes, edges, issues, completed, halted, totalBytes, returned>>

(* The loop has ended: the document is complete and its caller goes on. *)
DocumentEnds ==
  /\ Expanding /\ ~HasReference
  /\ completed' = completed \cup {Top.path}
  /\ IF Under = <<>>
     THEN /\ returned' = TRUE /\ stack' = <<>>
          /\ UNCHANGED <<edges, reading>>
     ELSE VisitReturns(Under, "loaded", <<Top.path>>)
  /\ UNCHANGED <<begun, nodes, issues, edgeSlots, halted, totalBytes>>

ImportNext ==
  \/ LoadBegins
  \/ ReadRefused
  \/ \E document \in Paths : ReadAlias(document)
  \/ \E size \in Sizes :
       \/ ReadUnparsable(size)
       \/ reading # <<>> /\ \E imports \in Texts : ReadLoads(size, imports)
  \/ EdgeLimit \/ BeyondFanOut \/ TakeReference \/ DocumentEnds

ImportSpec == ImportInit /\ [][ImportNext]_importVars

-----------------------------------------------------------------------------
(* Properties *)

Reuses == {"loaded", "already-loaded"}
NodePaths == {n.path : n \in Range(nodes)}

(* What buildDocumentImportDag requires of an edge: its source and its target are documents
   of the graph, a target path is the target's own unless the edge is a cycle, and exactly
   the edges that were not refused have a target. *)
Relationship(e) ==
  /\ e.from \in NodePaths
  /\ e.document # <<>> => e.document[1] \in NodePaths
  /\ e.document # <<>> /\ e.state # "cycle" => e.path = e.document[1]
  /\ e.document # <<>> <=> e.state \in Reuses \cup {"cycle"}

(* The edges that are followed never form a cycle, also with aliases of one file and files
   replaced during the load: every set of documents has one that no other member imports. *)
ExpansionIsAcyclic ==
  \A documents \in (SUBSET NodePaths) \ {{}} :
    \E d \in documents :
      \A e \in Range(edges) :
        e.state \in Reuses /\ e.from \in documents => e.path # d

(* Every graph the loader returns is one the import DAG accepts, whatever the files hold and
   however they change while it is loaded: documents and import occurrences are unique, the
   entry is among them, edges and documents agree, what is followed has no cycle, and the
   usage and reference totals stay within the limits of both components. *)
GraphIsAccepted ==
  returned =>
    /\ ExpansionIsAcyclic
    /\ \A i, j \in DOMAIN nodes : i # j => nodes[i].path # nodes[j].path
    /\ \A i, j \in DOMAIN edges :
         i # j => <<edges[i].from, edges[i].index>> # <<edges[j].from, edges[j].index>>
    /\ nodes # <<>> => EntryPath \in NodePaths
    /\ \A e \in Range(edges) : Relationship(e)
    /\ Len(nodes) <= MaxFiles /\ Len(edges) <= MaxEdges
    /\ \A n \in Range(nodes) : n.depth <= MaxDepth
    /\ Total([i \in 1 .. Len(nodes) |-> nodes[i].size]) = totalBytes
    /\ totalBytes <= MaxTotalBytes
    /\ Total([i \in 1 .. Len(nodes) |-> Len(nodes[i].imports)]) <= MaxReferences

(* Edges are in encounter order although a descent's edge is inserted after it returned: the
   edges of one document follow its text, and everything below a loaded import lies between
   its edge and the next one of the same document. *)
EncounterOrder ==
  returned =>
    \A i, j \in DOMAIN edges :
      /\ edges[i].from = edges[j].from /\ i < j => edges[i].index < edges[j].index
      /\ edges[i].state = "loaded" /\ edges[j].from = edges[i].path =>
           /\ i < j
           /\ \A k \in DOMAIN edges :
                edges[k].from = edges[i].from /\ i < k => j < k

(* A graph called complete is complete: every import of every document was followed to a
   document of the graph. *)
CompleteIsClosed ==
  returned /\ issues = 0 =>
    \A n \in Range(nodes) : \A i \in DOMAIN n.imports :
      \E e \in Range(edges) :
        /\ e.from = n.path /\ e.index = i
        /\ e.state \in Reuses /\ e.path = n.imports[i]
=============================================================================
