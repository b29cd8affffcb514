------------------------------ MODULE DocLocks ------------------------------
(* Documents shared by threads (one interpreter each), their reference counts, *)
(* and the recycled locks they are attached to: generic/domlock.c's free list, *)
(* the sharedDocs registry and tcldom_EvalLocked of generic/tcldom.c.  The     *)
(* registry has a mutex, the steps that consult it do not: a thread checks the *)
(* name of a document and acts on it later, a thread that gave back the last   *)
(* reference frees the document later, and tcldom_EvalLocked keeps the lock it *)
(* read from the document, not the document.  A thread may act through a       *)
(* command of its own, which nothing checks, or on a mere name it was told.    *)
EXTENDS DomLockRules, FiniteSets, Sequences, SequencesExt

CONSTANTS Threads, Docs, Locks, NULL,
          Handles,            \* bound: references to one document at a time
          MaxFrames           \* bound: nested readlock/writelock scripts per thread

ASSUME DocLocksAssumption ==
    /\ Docs # {} /\ Threads # {} /\ IsFiniteSet(Threads) /\ IsFiniteSet(Handles)
    /\ NULL \notin Docs \cup Locks /\ MaxFrames \in Nat

\* Every document can have a lock of its own: MALLOC does not fail.
ASSUME EnoughLocks == Cardinality(Locks) >= Cardinality(Docs)

VARIABLES docLock,   \* doc->lock, NULL for a document that does not exist
          shared,    \* the keys of the table sharedDocs
          count,     \* doc->refCount
          refs,      \* the references threads took to a document and did not give back
          subject,   \* per thread: the document whose name its command found in the table,
                     \* and while it is in domLocksLock the one it is to lock
          freeing,   \* per thread: the document it took from the table and has to free
          lockDoc,   \* dl->doc
          pool,      \* the list domLocks, most recently detached first
          dl,        \* per lock: its record
          frames,    \* per thread: the tcldom_EvalLocked calls on its C stack, innermost last
          pc,        \* per thread: run, or in domLocksLock of its last frame:
                     \* entering, asleep, woken
          raced,     \* history: documents somebody took for shared when they no longer
                     \* were, or deleted without having a reference
          crashed    \* freed memory was touched

docVars == <<docLock, shared, count, refs, freeing, lockDoc, pool, raced, crashed>>
vars == <<docVars, subject, dl, frames, pc>>

Frame == [lock : Locks, how : Hows]

Init ==
    /\ docLock = [d \in Docs |-> NULL]
    /\ shared = {}
    /\ count = [d \in Docs |-> 0]
    /\ refs = [d \in Docs |-> {}]
    /\ subject = [t \in Threads |-> NULL]
    /\ freeing = [t \in Threads |-> NULL]
    /\ lockDoc = [l \in Locks |-> NULL]
    /\ pool = <<>>
    /\ dl = [l \in Locks |-> FreshLock]
    /\ frames = [t \in Threads |-> <<>>]
    /\ pc = [t \in Threads |-> "run"]
    /\ raced = {}
    /\ crashed = FALSE

Live == {d \in Docs : docLock[d] # NULL}
InUse == {l \in Locks : lockDoc[l] # NULL}
Holding(t) == IF pc[t] = "run" THEN frames[t] ELSE Front(frames[t])
Top(t) == Last(frames[t])

\* t runs Tcl code and is in none of the steps below.
Idle(t) == ~crashed /\ pc[t] = "run" /\ subject[t] = NULL /\ freeing[t] = NULL
Refers(t, d) == \E h \in Handles : <<t, h>> \in refs[d]

\* t may act on d: by a command or name it has a reference for, or by a name it checked.
Acts(t, d) ==
    /\ ~crashed /\ pc[t] = "run" /\ freeing[t] = NULL
    /\ subject[t] = d \/ (subject[t] = NULL /\ Refers(t, d))

CreateDocMutNoPop(t, d) ==
    /\ Idle(t) /\ d \notin Live
    /\ \E l \in Locks :
          /\ IF pool = <<>> THEN l \notin InUse ELSE l = Head(pool)
          /\ lockDoc' = [lockDoc EXCEPT ![l] = d]
          /\ docLock' = [docLock EXCEPT ![d] = l]
    /\ shared' = shared \cup {d}
    /\ count' = [count EXCEPT ![d] = 1]
    /\ \E h \in Handles : refs' = [refs EXCEPT ![d] = {<<t, h>>}]
    /\ UNCHANGED <<pool, subject, freeing, dl, frames, pc, raced, crashed>>

\* "dom createDocument", "dom parse" ...: domLocksAttach takes the head of the
\* free list as it is, or allocates a zeroed lock; then tcldom_RegisterDocShared.
CreateDoc(t, d) ==
    /\ Idle(t) /\ d \notin Live
    /\ \E l \in Locks :
          /\ IF pool = <<>> THEN l \notin InUse ELSE l = Head(pool)
          /\ lockDoc' = [lockDoc EXCEPT ![l] = d]
          /\ docLock' = [docLock EXCEPT ![d] = l]
    /\ pool' = IF pool = <<>> THEN pool ELSE Tail(pool)
    /\ shared' = shared \cup {d}
    /\ count' = [count EXCEPT ![d] = 1]
    /\ \E h \in Handles : refs' = [refs EXCEPT ![d] = {<<t, h>>}]
    /\ UNCHANGED <<subject, freeing, dl, frames, pc, raced, crashed>>

\* tcldom_getDocumentFromName: the name t was told is that of a shared document.
Check(t, d) ==
    /\ Idle(t) /\ d \in shared
    /\ subject' = [subject EXCEPT ![t] = d]
    /\ UNCHANGED <<docLock, shared, count, refs, freeing, lockDoc, pool, dl, frames, pc, raced, crashed>>

AttachDocumentMutOncePerTable(t, d, h) ==
    /\ Acts(t, d) /\ subject[t] = d /\ \A u \in Threads : <<u, h>> \notin refs[d]
    /\ subject' = [subject EXCEPT ![t] = NULL]
    /\ raced' = IF d \in shared THEN raced ELSE raced \cup {d}
    /\ IF d \in Live
       THEN /\ count' = IF d \in shared THEN count ELSE [count EXCEPT ![d] = @ + 1]
            /\ shared' = shared \cup {d}
            /\ refs' = [refs EXCEPT ![d] = @ \cup {<<t, h>>}]
            /\ UNCHANGED crashed
       ELSE crashed' = TRUE /\ UNCHANGED <<shared, count, refs>>
    /\ UNCHANGED <<docLock, freeing, lockDoc, pool, dl, frames, pc>>

\* "dom attachDocument" after the check: tcldom_RegisterDocShared counts one more,
\* as often as the thread likes, and enters the document even if it left the table.
AttachDocument(t, d, h) ==
    /\ Acts(t, d) /\ subject[t] = d /\ \A u \in Threads : <<u, h>> \notin refs[d]
    /\ subject' = [subject EXCEPT ![t] = NULL]
    /\ raced' = IF d \in shared THEN raced ELSE raced \cup {d}
    /\ IF d \in Live
       THEN /\ count' = [count EXCEPT ![d] = @ + 1]
            /\ shared' = shared \cup {d}
            /\ refs' = [refs EXCEPT ![d] = @ \cup {<<t, h>>}]
            /\ UNCHANGED crashed
       ELSE crashed' = TRUE /\ UNCHANGED <<shared, count, refs>>
    /\ UNCHANGED <<docLock, freeing, lockDoc, pool, dl, frames, pc>>

\* "$doc delete", "dom detachDocument": tcldom_UnregisterDocShared counts down, or
\* takes the document from the table and leaves it to the caller to free.
DeleteDoc(t, d) ==
    /\ Acts(t, d)
    /\ subject' = [subject EXCEPT ![t] = NULL]
    /\ IF Refers(t, d)
       THEN /\ \E h \in Handles : <<t, h>> \in refs[d] /\ refs' = [refs EXCEPT ![d] = @ \ {<<t, h>>}]
            /\ UNCHANGED raced
       ELSE raced' = raced \cup {d} /\ UNCHANGED refs
    /\ crashed' = (d \notin Live)
    /\ IF d \in Live /\ count[d] > 1
       THEN /\ count' = [count EXCEPT ![d] = @ - 1]
            /\ UNCHANGED <<shared, freeing>>
       ELSE /\ shared' = shared \ {d}
            /\ freeing' = IF d \in Live \cap shared THEN [freeing EXCEPT ![t] = d] ELSE freeing
            /\ UNCHANGED count
    /\ UNCHANGED <<docLock, lockDoc, pool, dl, frames, pc>>

\* domFreeDocument with domLocksDetach: the lock goes to the free list, lrcnt as it is.
Free(t, d) ==
    /\ ~crashed /\ freeing[t] = d
    /\ freeing' = [freeing EXCEPT ![t] = NULL]
    /\ IF d \in Live
       THEN /\ docLock' = [docLock EXCEPT ![d] = NULL]
            /\ lockDoc' = [lockDoc EXCEPT ![docLock[d]] = NULL]
            /\ pool' = <<docLock[d]>> \o pool
            /\ UNCHANGED crashed
       ELSE crashed' = TRUE /\ UNCHANGED <<docLock, lockDoc, pool>>
    /\ UNCHANGED <<shared, count, refs, subject, dl, frames, pc, raced>>

\* "$doc readlock script", "$doc writelock script": the lock is read from the
\* document before domLocksLock takes the lock's mutex.
EvalLocked(t, d, h) ==
    /\ Acts(t, d) /\ Len(frames[t]) < MaxFrames
    /\ subject' = [subject EXCEPT ![t] = d]
    /\ raced' = IF d \in shared THEN raced ELSE raced \cup {d}
    /\ IF d \in Live
       THEN /\ frames' = [frames EXCEPT ![t] = Append(@, [lock |-> docLock[d], how |-> h])]
            /\ pc' = [pc EXCEPT ![t] = "entering"]
            /\ UNCHANGED crashed
       ELSE crashed' = TRUE /\ UNCHANGED <<frames, pc>>
    /\ UNCHANGED <<docLock, shared, count, refs, freeing, lockDoc, pool, dl>>

\* domLocksLock's loop head for the caller t on lock l whose record is r.
Attempt(t, h, l, r) ==
    \/ /\ Blocked(h, r)
       /\ dl' = [dl EXCEPT ![l] = Counted(h, r, 1)]
       /\ pc' = [pc EXCEPT ![t] = "asleep"]
       /\ UNCHANGED subject
    \/ /\ ~Blocked(h, r)
       /\ dl' = [dl EXCEPT ![l] = Granted(h, r)]
       /\ pc' = [pc EXCEPT ![t] = "run"]
       /\ subject' = [subject EXCEPT ![t] = NULL]

\* domLocksLock up to the first wait.
Enter(t) ==
    /\ ~crashed /\ pc[t] = "entering"
    /\ Attempt(t, Top(t).how, Top(t).lock, dl[Top(t).lock])
    /\ UNCHANGED <<docVars, frames>>

RecheckMutKeepsCount(t) ==
    /\ ~crashed /\ pc[t] = "woken"
    /\ LET f == Top(t)
       IN  Attempt(t, f.how, f.lock, dl[f.lock])
    /\ UNCHANGED <<docVars, frames>>

\* domLocksLock after a wait: no longer counted as waiting, it tests again.
Recheck(t) ==
    /\ ~crashed /\ pc[t] = "woken"
    /\ LET f == Top(t)
       IN  Attempt(t, f.how, f.lock, Counted(f.how, dl[f.lock], -1))
    /\ UNCHANGED <<docVars, frames>>

\* External: a condition wait may end without a notify.
SpuriousWake(t) ==
    /\ ~crashed /\ pc[t] = "asleep"
    /\ pc' = [pc EXCEPT ![t] = "woken"]
    /\ UNCHANGED <<docVars, subject, dl, frames>>

\* The script returned, failed or broke out: domLocksUnlock of the lock read
\* on entry, whatever has become of the document.
EndScript(t) ==
    /\ Idle(t) /\ frames[t] # <<>>
    /\ LET l == Top(t).lock
       IN  /\ dl' = [dl EXCEPT ![l] = Released(@)]
           /\ pc' = [u \in Threads |->
                       IF pc[u] = "asleep" /\ Top(u).lock = l
                          /\ Top(u).how \in Notified(dl'[l]) THEN "woken" ELSE pc[u]]
    /\ frames' = [frames EXCEPT ![t] = Front(@)]
    /\ UNCHANGED <<docVars, subject>>

Next == \E t \in Threads :
            \/ \E d \in Docs : CreateDoc(t, d) \/ Check(t, d) \/ DeleteDoc(t, d) \/ Free(t, d)
            \/ \E d \in Docs, h \in Handles : AttachDocument(t, d, h)
            \/ \E d \in Docs, h \in Hows : EvalLocked(t, d, h)
            \/ Enter(t) \/ Recheck(t) \/ SpuriousWake(t) \/ EndScript(t)

Spec == Init /\ [][Next]_vars

-----------------------------------------------------------------------------
TypeOK ==
    /\ docLock \in [Docs -> Locks \cup {NULL}]
    /\ shared \subseteq Docs /\ raced \subseteq Docs /\ crashed \in BOOLEAN
    /\ count \in [Docs -> Nat]
    /\ refs \in [Docs -> SUBSET (Threads \X Handles)]
    /\ subject \in [Threads -> Docs \cup {NULL}] /\ freeing \in [Threads -> Docs \cup {NULL}]
    /\ lockDoc \in [Locks -> Docs \cup {NULL}]
    /\ pool \in Seq(Locks)
    /\ dl \in [Locks -> [lrcnt : Int, numrd : Nat, numwr : Nat]]
    /\ frames \in [Threads -> Seq(Frame)]
    /\ pc \in [Threads -> {"run", "entering", "asleep", "woken"}]

\* All pairs of a thread and a position whose frame holds lock l with h.
Holders(l, h) ==
    {p \in Threads \X (1 .. MaxFrames) :
        /\ p[2] \in DOMAIN Holding(p[1])
        /\ Holding(p[1])[p[2]].lock = l /\ Holding(p[1])[p[2]].how = h}

(* A lock is attached to one document, or once in the free list, or not        *)
(* allocated yet; the panic "document lock mismatch" of domLocksDetach is      *)
(* never reached.                                                             *)
LockPlacedOnce ==
    /\ \A d \in Live : lockDoc[docLock[d]] = d
    /\ \A l \in InUse : docLock[lockDoc[l]] = l
    /\ IsInjective(pool)
    /\ ToSet(pool) \cap InUse = {}

\* d is in the table while some thread has a reference to it, refCount counts these,
\* and after the last one exactly one thread frees it, once.
DocumentCounted(d) ==
    /\ d \in shared <=> refs[d] # {}
    /\ d \in shared => d \in Live /\ count[d] = Cardinality(refs[d])
    /\ d \in Live \ shared => \E t \in Threads : freeing[t] = d
    /\ \A t \in Threads : freeing[t] = d =>
          d \in Live \ shared /\ \A u \in Threads : freeing[u] = d => u = t

(* The references to a document are counted right, and freed memory is only    *)
(* touched, unless somebody attached or locked it after a check that was no    *)
(* longer true, or deleted it without having a reference.                     *)
ReferencesCounted ==
    /\ \A d \in Docs \ raced : DocumentCounted(d)
    /\ crashed => raced # {}

(* A thread that has a reference to a document and waits for its lock waits    *)
(* for the lock the document has, which cannot be recycled meanwhile.         *)
WaitersKeepDocument ==
    \A t \in Threads : pc[t] # "run" =>
        /\ subject[t] \in Docs
        /\ subject[t] \notin raced /\ Refers(t, subject[t]) =>
              docLock[subject[t]] = Top(t).lock

(* Many frames may read a lock or one frame may write it, and lrcnt counts     *)
(* them, also when the lock went back to the pool and was attached to another  *)
(* document meanwhile.                                                        *)
LockExclusion ==
    \A l \in Locks :
        IF Holders(l, "write") = {} THEN dl[l].lrcnt = Cardinality(Holders(l, "read"))
        ELSE /\ Cardinality(Holders(l, "write")) = 1
             /\ Holders(l, "read") = {}
             /\ dl[l].lrcnt = -1

(* Locks, documents, the threads that wait and those that hold a lock agree.   *)
LocksFollowDocuments == 
    TypeOK /\ LockPlacedOnce /\ ReferencesCounted /\ WaitersKeepDocument /\ LockExclusion

(* All threads wait for each other only if some thread nested lock scripts.    *)
DeadlockOnlyByNesting ==
    (\A t \in Threads : pc[t] = "asleep") => \E t \in Threads : Len(frames[t]) > 1
=============================================================================
