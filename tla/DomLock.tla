------------------------------ MODULE DomLock -------------------------------
(* generic/domlock.c: the reader/writer lock of one document shared by the     *)
(* threads of a process, and the "readlock"/"writelock" methods around it      *)
(* (tcldom_EvalLocked, generic/tcldom.c).  Every operation runs under          *)
(* dl->mutex, so one critical section is one action; Tcl_ConditionWait splits  *)
(* domLocksLock into a first attempt (Lock) and rechecks (Recheck).            *)
(* Tcl_ConditionNotify is a broadcast and a waiter may also wake for no        *)
(* reason (SpuriousWake): that is Tcl's contract, outside src/.                *)
(* A thread here holds the lock at most once; DocLocks.tla lifts that.         *)
EXTENDS DomLockRules, FiniteSets

CONSTANTS ReadCallers,      \* threads that call readlock
          WriteCallers      \* threads that call writelock

ASSUME CallersFinite == IsFiniteSet(ReadCallers) /\ IsFiniteSet(WriteCallers)

Threads == ReadCallers \cup WriteCallers

VARIABLES dl,     \* the domlock record
          pc,     \* per thread: out, asleep, woken (left the wait, mutex not yet taken), in
          how     \* per thread: the flag of its last domLocksLock call

vars == <<dl, pc, how>>

MayCall(t, h) == IF h = "read" THEN t \in ReadCallers ELSE t \in WriteCallers

Init ==
    /\ dl = FreshLock
    /\ pc = [t \in Threads |-> "out"]
    /\ how = [t \in Threads |-> "read"]

\* One evaluation of the loop head of domLocksLock on lock state l: wait, or leave with the lock.
Attempt(t, h, l) ==
    \/ /\ Blocked(h, l)
       /\ dl' = Counted(h, l, 1)
       /\ pc' = [pc EXCEPT ![t] = "asleep"]
    \/ /\ ~Blocked(h, l)
       /\ dl' = Granted(h, l)
       /\ pc' = [pc EXCEPT ![t] = "in"]

\* domLocksLock up to the first wait.
Lock(t, h) ==
    /\ pc[t] = "out"
    /\ MayCall(t, h)
    /\ how' = [how EXCEPT ![t] = h]
    /\ Attempt(t, h, dl)

AttemptMutIfNotWhile(t, h, l) ==
    /\ dl' = Granted(h, l)
    /\ pc' = [pc EXCEPT ![t] = "in"]

RecheckMutIfNotWhile(t) ==
    /\ pc[t] = "woken"
    /\ AttemptMutIfNotWhile(t, how[t], Counted(how[t], dl, -1))
    /\ UNCHANGED how

\* A woken thread has the mutex again: numrd-- or numwr--, then the loop head.
Recheck(t) ==
    /\ pc[t] = "woken"
    /\ Attempt(t, how[t], Counted(how[t], dl, -1))
    /\ UNCHANGED how

\* External: a condition wait may end without a notify.
SpuriousWake(t) ==
    /\ pc[t] = "asleep"
    /\ pc' = [pc EXCEPT ![t] = "woken"]
    /\ UNCHANGED <<dl, how>>

Woken(h, p) ==
    [u \in Threads |-> IF p[u] = "asleep" /\ how[u] \in h THEN "woken" ELSE p[u]]

\* The script of a readlock/writelock ended, in whatever way: domLocksUnlock.
Unlock(t) ==
    /\ pc[t] = "in"
    /\ dl' = Released(dl)
    /\ pc' = Woken(Notified(dl'), [pc EXCEPT ![t] = "out"])
    /\ UNCHANGED how

Next == \E t \in Threads :
            \/ \E h \in Hows : Lock(t, h)
            \/ Recheck(t)
            \/ SpuriousWake(t)
            \/ Unlock(t)

Spec == Init /\ [][Next]_vars

(* The operating system schedules a woken thread, and a locked script ends;   *)
(* nothing obliges a thread to ask for the lock or a wait to end by itself.    *)
Fairness == \A t \in Threads : WF_vars(Recheck(t)) /\ WF_vars(Unlock(t))

FairSpec == Spec /\ Fairness

-----------------------------------------------------------------------------
Inside(h)  == {t \in Threads : pc[t] = "in" /\ how[t] = h}
Waiting(h) == {t \in Threads : pc[t] \in {"asleep", "woken"} /\ how[t] = h}
Asleep(h)  == {t \in Threads : pc[t] = "asleep" /\ how[t] = h}
WokenUp(h) == {t \in Threads : pc[t] = "woken" /\ how[t] = h}

TypeOK ==
    /\ dl \in [lrcnt : Int, numrd : Nat, numwr : Nat]
    /\ pc \in [Threads -> {"out", "asleep", "woken", "in"}]
    /\ how \in [Threads -> Hows]

(* Many readers or one writer: no script modifies a document while another    *)
(* thread's readlock or writelock script of that document runs.               *)
Exclusion ==
    \A t, u \in Threads :
        (t # u /\ pc[t] = "in" /\ pc[u] = "in") => how[t] = "read" /\ how[u] = "read"

(* lrcnt is what dom.h says it is: the number of readers inside, or -1 for the *)
(* one writer, after any sequence of waits, wakeups and unlocks.              *)
CountExact ==
    dl.lrcnt = IF Inside("write") # {} THEN -1 ELSE Cardinality(Inside("read"))

(* numrd and numwr count exactly the threads that are in a condition wait or   *)
(* on their way out of one: domLocksUnlock decides whom to notify by them.     *)
WaitersExact ==
    /\ dl.numrd = Cardinality(Waiting("read"))
    /\ dl.numwr = Cardinality(Waiting("write"))

(* What the mutex of domlock.c protects is consistent with the threads.        *)
LockConsistent == TypeOK /\ Exclusion /\ CountExact /\ WaitersExact

(* No lost wakeup: a thread sleeps only while some other thread that holds the *)
(* lock, or a woken writer that is about to take it, will still notify it.     *)
NoLostWakeup ==
    /\ Asleep("read") # {} => Inside("write") # {} \/ Waiting("write") # {}
    /\ Asleep("write") # {} =>
           Inside("read") \cup Inside("write") # {} \/ WokenUp("write") # {}

(* Writer preference: a step that admits a reader is taken only when no writer *)
(* waits, in a condition wait or between its wakeup and its recheck.           *)
WriterPreference ==
    [][Inside("read")' \subseteq Inside("read") \/ Waiting("write") = {}]_vars

(* Readers cannot starve the writers: while a writelock waits, one is granted,  *)
(* however often readers come back.                                           *)
WritersNotStarved == (Waiting("write") # {}) ~> (Inside("write") # {})

Abstract == INSTANCE RWLock WITH
                readers <- Inside("read"),
                writers <- Inside("write"),
                announced <- Waiting("write")

(* The counters and condition variables implement the abstract lock.          *)
ImplementsRWLock == Abstract!Spec
=============================================================================
