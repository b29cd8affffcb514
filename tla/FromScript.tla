----------------------------- MODULE FromScript -----------------------------
(* generic/nodecmd.c: appendFromScript, insertBeforeFromScript and the node   *)
(* commands evaluated inside their scripts, on the tree of DomTree, with the  *)
(* deferred deletion of a document in tcldom_deleteDoc.                       *)
(* A script runs between the opening and the closing of its frame, so every   *)
(* command of it is a step of its own; frames nest as Tcl evaluations do.     *)
EXTENDS DomTree

CONSTANTS MaxFrames,  \* bound: nesting of scripts
          Methods,    \* which of "append", "insert" are used; "document" for
                      \* those of document commands
          ScriptMay   \* what scripts do besides building: "move" nodes that no
                      \* frame points to, "moveAny"; "drop" documents whose
                      \* outermost script fills an element by append, "dropAny";
                      \* "same": fill an element that is being filled;
                      \* "return": use commands with -notempty and -returnNodeCmd

VARIABLES frames,       \* the stack of open scripts, with their C locals
          inside,       \* documents flagged INSIDE_FROM_SCRIPT
          deleteAfter,  \* documents flagged DELETE_AFTER_FROM_SCRIPT
          gone,         \* documents freed
          dangling      \* has a frame used memory that was freed?

flags == <<inside, deleteAfter, gone>>
scriptVars == <<vars, frames, flags, dangling>>

Top == frames[Len(frames)]

ScriptInit ==
  /\ Init
  /\ frames = <<>> /\ inside = {} /\ deleteAfter = {} /\ gone = Docs
  /\ dangling = FALSE

(* ------------------------- opening a script ------------------------------ *)
Fillable(p) ==
  /\ Usable(p) /\ p \notin gone /\ (p \in Docs => "document" \in Methods)
  /\ Len(frames) < MaxFrames
  /\ "same" \in ScriptMay \/ \A i \in DOMAIN frames : frames[i].node # p

\* oldLastChild, insideEval and doc are locals of nodecmd_appendFromScript, ref
\* and stored those of nodecmd_insertBeforeFromScript; before and moved (did a
\* script move or delete nodes meanwhile?) are history.
Frame(t, p, ref, stored, notEmpty, returns) ==
  [node |-> p, doc |-> DocOf(t, p), old |-> t.last[p],
   nested |-> DocOf(t, p) \in inside, ref |-> ref, stored |-> stored,
   cmd |-> FALSE, notEmpty |-> notEmpty, returns |-> returns,
   before |-> Chain(tree.next, tree.first[p]), moved |-> FALSE]

Open(f) ==
  /\ frames' = Append(frames, f)
  /\ inside' = inside \union {f.doc}
  /\ UNCHANGED <<deleteAfter, gone, dangling>>

AppendFromScript(p) ==
  /\ "append" \in Methods /\ p \in Parents /\ Fillable(p)
  /\ Open(Frame(tree, p, NULL, NULL, FALSE, FALSE))
  /\ UNCHANGED vars

\* The children from ref on are taken off the list while the script runs.
CutBefore(t, p, ref) ==
  LET l == t.prev[ref]
  IN IF l # NULL THEN [t EXCEPT !.next[l] = NULL, !.last[p] = l]
     ELSE [t EXCEPT !.first[p] = NULL, !.last[p] = NULL]

InsertBeforeFromScript(p, ref) ==
  /\ "insert" \in Methods /\ p \in Parents /\ Fillable(p)
  /\ ref \in live /\ IsChild(tree, p, ref)
  /\ tree' = CutBefore(tree, p, ref)
  /\ Open(Frame(tree', p, ref, tree.last[p], FALSE, FALSE))
  /\ UNCHANGED live

(* --------------------------- inside a script ----------------------------- *)
Running == frames # <<>>

\* The command reads the current node, which the script may have deleted.
UseOfCurrentNode ==
  /\ dangling' = TRUE /\ UNCHANGED <<vars, frames, flags>>

\* A node command without a script: a new last child of the current node.
NodeCmd(x) ==
  /\ Running /\ x \notin live
  /\ IF Usable(Top.node)
     THEN /\ tree' = NewLast(tree, Top.node, x) /\ live' = live \union {x}
          /\ UNCHANGED <<frames, flags, dangling>>
     ELSE UseOfCurrentNode

\* One with a script, whose node becomes the current node.  That the command
\* returns its node matters to the tree only when -notempty may have deleted it.
NodeCmdScript(x, notEmpty, returns) ==
  /\ returns => notEmpty /\ "return" \in ScriptMay
  /\ Running /\ x \in Elems \ live /\ Len(frames) < MaxFrames
  /\ IF Usable(Top.node)
     THEN /\ tree' = NewLast(tree, Top.node, x) /\ live' = live \union {x}
          /\ Open([Frame(tree', x, NULL, NULL, notEmpty, returns) EXCEPT !.cmd = TRUE])
     ELSE UseOfCurrentNode

\* The nodes that the frames point to.
Held == UNION {{frames[i].node, frames[i].old, frames[i].ref, frames[i].stored}
                 : i \in DOMAIN frames}

Move ==
  /\ Running
  /\ \E x \in Nodes :
        /\ \/ "moveAny" \in ScriptMay
           \/ "move" \in ScriptMay /\ Freed(tree, x) \intersect Held = {}
        /\ \/ DeleteNode(x)
           \/ \E p \in Elems : AppendChild(p, x) \/ RemoveChild(p, x)
  /\ frames' = [i \in DOMAIN frames |-> [frames[i] EXCEPT !.moved = TRUE]]
  /\ UNCHANGED <<flags, dangling>>

\* domFreeDocument: what its lists reach.
DocNodes(t, d) ==
  UNION {Freed(t, y) : y \in InChain(t.prev, t.last[d]) \union InChain(t.next, t.frag[d])}

FreeDocument(t, d) ==
  [Cleared(t, DocNodes(t, d)) EXCEPT !.first[d] = NULL, !.last[d] = NULL,
                                     !.frag[d] = NULL, !.docel[d] = NULL]

\* The outermost script on d is one whose frame can outlive the document.
Outlives(d) ==
  \A i \in DOMAIN frames :
     frames[i].doc = d /\ ~frames[i].nested => frames[i].ref = NULL /\ frames[i].node \notin Docs

MayDrop(d) == \/ "dropAny" \in ScriptMay
              \/ "drop" \in ScriptMay /\ Outlives(d)

\* tcldom_deleteDoc, called once for a document command.
DeleteDocMutNow(d) ==
  /\ MayDrop(d) /\ d \notin gone \union deleteAfter
  /\ tree' = FreeDocument(tree, d) /\ live' = live \ DocNodes(tree, d)
  /\ gone' = gone \union {d} /\ UNCHANGED deleteAfter
  /\ UNCHANGED <<frames, inside, dangling>>
DeleteDoc(d) ==
  /\ MayDrop(d) /\ d \notin gone \union deleteAfter
  /\ IF d \in inside
     THEN deleteAfter' = deleteAfter \union {d} /\ UNCHANGED <<vars, gone>>
     ELSE /\ tree' = FreeDocument(tree, d) /\ live' = live \ DocNodes(tree, d)
          /\ gone' = gone \union {d} /\ UNCHANGED deleteAfter
  /\ UNCHANGED <<frames, inside, dangling>>

\* dom createDocument: a document, anew or for the first time, with its element.
CreateDoc(d, x) ==
  /\ d \in gone /\ x \in Elems \ live
  /\ tree' = [NewLast(tree, d, x) EXCEPT !.docel[d] = x] /\ live' = live \union {x}
  /\ gone' = gone \ {d} /\ deleteAfter' = deleteAfter \ {d}
  /\ UNCHANGED <<frames, inside, dangling>>

(* -------------------------- closing a script ----------------------------- *)
\* The children appended since the frame was opened.
Appended(t, f) == InChain(t.next, IF f.old # NULL THEN t.next[f.old] ELSE t.first[f.node])

RolledBackMutKeepsLast(t, f) ==
  LET t1 == IF f.old # NULL THEN [t EXCEPT !.next[f.old] = NULL]
            ELSE [t EXCEPT !.first[f.node] = NULL]
  IN Cleared(t1, UNION {Freed(t, y) : y \in Appended(t, f)})

RolledBackMutFirstChildStays(t, f) ==
  LET t1 == IF f.old # NULL
            THEN [t EXCEPT !.next[f.old] = NULL, !.last[f.node] = f.old] ELSE t
  IN t1

\* After an error they are freed, and the child list ends at oldLastChild.
RolledBack(t, f) ==
  LET t1 == IF f.old # NULL
            THEN [t EXCEPT !.next[f.old] = NULL, !.last[f.node] = f.old]
            ELSE [t EXCEPT !.first[f.node] = NULL, !.last[f.node] = NULL]
  IN Cleared(t1, UNION {Freed(t, y) : y \in Appended(t, f)})

RelinkedMutKeepsTail(t, f) ==
  LET l == t.last[f.node]
      t1 == IF l # NULL THEN [t EXCEPT !.next[l] = f.ref, !.prev[f.ref] = l]
            ELSE [t EXCEPT !.first[f.node] = f.ref]
  IN t1

\* refChild and what follows it come back behind the last child.
Relinked(t, f) ==
  LET l == t.last[f.node]
      t1 == IF l # NULL THEN [t EXCEPT !.next[l] = f.ref, !.prev[f.ref] = l]
            ELSE [t EXCEPT !.first[f.node] = f.ref]
  IN [t1 EXCEPT !.last[f.node] = f.stored]

\* Does the frame read or write freed memory?  It uses its node (in the end for
\* the result), oldLastChild after an error, refChild behind the rollback; and
\* the document or the node also when the document is freed here (drops) and the
\* frame was opened by insertBeforeFromScript, a document or a node command; and
\* the node that -notempty has just deleted, to return it.
UsesFreed(f, error, kept, drops, vanishes) ==
  \/ f.node \in Nodes \ live
  \/ error /\ f.old # NULL /\ f.old \notin live
  \/ f.ref # NULL /\ (f.ref \notin kept \/ drops)
  \/ drops /\ (f.node \in Docs \/ f.cmd)
  \/ vanishes /\ f.returns

Close(error) ==
  LET f == Top
      back == IF error THEN RolledBack(tree, f) ELSE tree
      kept == IF error THEN live \ UNION {Freed(tree, y) : y \in Appended(tree, f)}
              ELSE live
      \* top level reached: the flag of the document the node is in now
      left == IF f.nested THEN inside ELSE inside \ {DocOf(tree, f.node)}
      drops == ~f.nested /\ f.doc \in deleteAfter \ left
      dropped == IF drops THEN FreeDocument(back, f.doc) ELSE back
      linked == IF f.ref = NULL \/ drops THEN dropped ELSE Relinked(dropped, f)
      vanishes == f.cmd /\ f.notEmpty /\ linked.first[f.node] = NULL
      final == IF vanishes THEN Cleared(Unlinked(linked, f.node), {f.node})
               ELSE IF f.node \in Docs /\ ~error THEN SetDocumentElement(linked, f.node)
               ELSE linked
  IN /\ Running
     /\ IF UsesFreed(f, error, kept, drops, vanishes)
        THEN dangling' = TRUE /\ UNCHANGED <<vars, frames, flags>>
        ELSE /\ frames' = SubSeq(frames, 1, Len(frames) - 1)
             /\ tree' = final
             /\ live' = (kept \ (IF drops THEN DocNodes(back, f.doc) ELSE {}))
                          \ (IF vanishes THEN {f.node} ELSE {})
             /\ inside' = left
             /\ gone' = IF drops THEN gone \union {f.doc} ELSE gone
             /\ UNCHANGED <<deleteAfter, dangling>>

ScriptEnds == Close(FALSE)
ScriptFails == Close(TRUE)

ScriptNext ==
  /\ ~dangling
  /\ \/ \E p \in Parents : \/ AppendFromScript(p)
                           \/ \E ref \in Nodes : InsertBeforeFromScript(p, ref)
     \/ \E x \in Nodes : \/ NodeCmd(x)
                         \/ \E notEmpty, returns \in BOOLEAN : NodeCmdScript(x, notEmpty, returns)
     \/ Move
     \/ \E d \in Docs : DeleteDoc(d) \/ \E x \in Elems : CreateDoc(d, x)
     \/ ScriptEnds \/ ScriptFails

ScriptSpec == ScriptInit /\ [][ScriptNext]_scriptVars

(* ------------------------------ properties ------------------------------- *)
ScriptTypeOK ==
  /\ TypeOK
  /\ \A i \in DOMAIN frames : /\ frames[i].node \in Parents /\ frames[i].doc \in Docs
                              /\ frames[i].old \in Nodes \union {NULL}
  /\ inside \subseteq Docs /\ deleteAfter \subseteq Docs /\ gone \subseteq Docs

\* Outside all scripts the tree is sound again: the list that was cut for
\* insertBeforeFromScript is whole, and a rollback left nothing behind.
SoundWhenClosed ==
  /\ ScriptTypeOK
  /\ ~Running => SiblingsConsistent /\ ChildrenAreMine /\ OwnerHoldsNode

Closes == Running /\ Len(frames') < Len(frames) /\ Top.doc \notin gone'
NowChildren == Chain(tree'.next, tree'.first[Top.node])

\* Closing a script that only built keeps all the children its element had, in
\* their order; the new ones stand together, before refChild or at the end.
ClosingKeepsChildren ==
  [][Closes /\ ~Top.moved /\ Top.node \in Docs \union live' =>
       LET new == Len(NowChildren) - Len(Top.before)
           at == IF Top.ref = NULL THEN Len(Top.before)
                 ELSE CHOOSE i \in 0 .. Len(Top.before) - 1 : Top.before[i + 1] = Top.ref
       IN /\ new >= 0
          /\ SubSeq(NowChildren, 1, at) \o SubSeq(NowChildren, at + new + 1, Len(NowChildren))
               = Top.before
    ]_scriptVars

Fails == Closes /\ ScriptFails /\ ~(Top.cmd /\ Top.notEmpty)

\* An error in a script that only built leaves exactly the children from before,
\* whatever scripts inside it did.
ErrorRollsBack == [][Fails /\ ~Top.moved => NowChildren = Top.before]_scriptVars

\* "In case of error in the script, the tree will not be altered."
ErrorAltersNothing == [][Fails => NowChildren = Top.before]_scriptVars

\* INSIDE_FROM_SCRIPT is set on exactly the documents with an open script, and
\* none of them is freed.
FlagsFollowFrames ==
  /\ inside = {frames[i].doc : i \in DOMAIN frames}
  /\ inside \intersect gone = {}

\* A document deleted inside a script is freed when the last script on it closes.
DeletedDocsAreFreed == ~Running => deleteAfter \subseteq gone

\* No frame reads or writes nodes or documents freed while its script ran: the
\* deletion of a document waits for the outermost script on it, and is not lost.
DeletionWaits == ~dangling /\ FlagsFollowFrames /\ DeletedDocsAreFreed
=============================================================================
