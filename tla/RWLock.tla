------------------------------- MODULE RWLock -------------------------------
(* What the lock of a document promises the scripts that use it: any number of *)
(* readers or one writer, and a reader is admitted only when no writer has     *)
(* announced itself.  It says nothing of counters, condition variables or      *)
(* wakeups; DomLock.tla implements it.                                         *)
EXTENDS Naturals

CONSTANTS ReadCallers, WriteCallers

Threads == ReadCallers \cup WriteCallers

VARIABLES readers,      \* threads inside a readlock script
          writers,      \* threads inside a writelock script
          announced     \* writers that wait for the lock

vars == <<readers, writers, announced>>

Init == readers = {} /\ writers = {} /\ announced = {}

EnterRead(t) ==
    /\ t \in ReadCallers \ readers
    /\ writers = {} /\ announced = {}
    /\ readers' = readers \cup {t}
    /\ UNCHANGED <<writers, announced>>

Announce(t) ==
    /\ t \in WriteCallers \ writers
    /\ announced' = announced \cup {t}
    /\ UNCHANGED <<readers, writers>>

EnterWrite(t) ==
    /\ t \in WriteCallers
    /\ readers = {} /\ writers = {}
    /\ writers' = {t}
    /\ announced' = announced \ {t}
    /\ UNCHANGED readers

Leave(t) ==
    /\ t \in readers \cup writers
    /\ readers' = readers \ {t}
    /\ writers' = writers \ {t}
    /\ UNCHANGED announced

Next == \E t \in Threads :
            EnterRead(t) \/ Announce(t) \/ EnterWrite(t) \/ Leave(t)

Spec == Init /\ [][Next]_vars
=============================================================================
