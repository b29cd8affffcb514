---------------------------- MODULE HandlerSets ----------------------------
(* What doc/expat.xml promises about the return codes of callback scripts:    *)
(* after "continue" a handler set is told nothing until the end of the        *)
(* element that was open, after "break" nothing any more, and neither         *)
(* influences another set.  An external entity is no exception: giving it is  *)
(* one event among others, and its end is none.                               *)
EXTENDS Integers

CONSTANT Sets  \* the Tcl handler sets of a parser

VARIABLES level,     \* the elements open, as far as the set has passed events
          mode,      \* "hears", "skips" the element at level from, or "broken"
          from,
          told       \* the set whose script ran in the last step, 0 if none

vars == <<level, mode, from, told>>

Init == /\ level = [i \in Sets |-> 0] /\ mode = [i \in Sets |-> "hears"]
        /\ from = [i \in Sets |-> 0] /\ told = 0

\* Set i, listening, passes an event that leaves it at level l: it may have no
\* script for it, or its script answers.
Hear(i, l) ==
  \/ told' = 0 /\ mode' = [mode EXCEPT ![i] = "hears"] /\ from' = [from EXCEPT ![i] = 0]
  \/ /\ told' = i
     /\ \E a \in {"hears", "skips", "broken"} :
          /\ mode' = [mode EXCEPT ![i] = a]
          /\ from' = [from EXCEPT ![i] = IF a = "skips" THEN l ELSE 0]

Deaf == told' = 0 /\ UNCHANGED <<mode, from>>

\* The start tag, the end tag or another event, for set i.  The end tag of the
\* skipped element is the first event a skipping set is told of again.
Start(i) == /\ level' = [level EXCEPT ![i] = @ + 1]
            /\ IF mode[i] = "hears" THEN Hear(i, level[i] + 1) ELSE Deaf

End(i) == /\ level' = [level EXCEPT ![i] = @ - 1]
          /\ IF mode[i] = "hears" \/ (mode[i] = "skips" /\ from[i] = level[i])
             THEN Hear(i, level[i] - 1) ELSE Deaf

Other(i) == /\ mode[i] = "hears" /\ Hear(i, level[i]) /\ UNCHANGED level

\* The next document: a set that skipped or broke off stays silent, for the
\* element it waits for is none of this document's.
NewDocument == /\ level' = [i \in Sets |-> 0]
               /\ from' = [i \in Sets |-> IF mode[i] = "skips"
                                          THEN from[i] - level[i] ELSE 0]
               /\ told' = 0 /\ UNCHANGED mode
\* A parser command of its own starts with sets that listen.
Recreate == /\ level' = [i \in Sets |-> 0] /\ mode' = [i \in Sets |-> "hears"]
            /\ from' = [i \in Sets |-> 0] /\ told' = 0

\* A step in which no set passes anything, the end of an entity included.
Pass == told' = 0 /\ UNCHANGED <<level, mode, from>>

Next == \/ \E i \in Sets : Start(i) \/ End(i) \/ Other(i)
        \/ NewDocument \/ Recreate \/ Pass

Spec == Init /\ [][Next]_vars
=============================================================================
