---------------------------- MODULE DomLockRules ----------------------------
(* The decisions generic/domlock.c takes under dl->mutex, as operators on one  *)
(* domlock record [lrcnt, numrd, numwr].  DomLock.tla runs one lock with       *)
(* threads that hold it once; DocLocks.tla runs a pool of them with documents  *)
(* that come and go and scripts that nest.  An operator XMut... is X with a bug *)
(* put in on purpose, in this and in the other modules: the runs must see it.  *)
EXTENDS Integers

Hows == {"read", "write"}                      \* LOCK_READ, LOCK_WRITE

FreshLock == [lrcnt |-> 0, numrd |-> 0, numwr |-> 0]   \* memset(dl, 0, ...)

BlockedMutNoPreference(how, l) ==
    IF how = "read" THEN l.lrcnt < 0 ELSE l.lrcnt # 0
\* The two while conditions of domLocksLock: the caller has to wait.
Blocked(how, l) ==
    IF how = "read" THEN l.lrcnt < 0 \/ l.numwr > 0 ELSE l.lrcnt # 0

\* numrd++ / numwr++ before Tcl_ConditionWait, and the decrement after it.
Counted(how, l, d) ==
    IF how = "read" THEN [l EXCEPT !.numrd = @ + d] ELSE [l EXCEPT !.numwr = @ + d]

\* The caller got the lock.
Granted(how, l) ==
    [l EXCEPT !.lrcnt = IF how = "read" THEN @ + 1 ELSE -1]

ReleasedMutToZero(l) == [l EXCEPT !.lrcnt = 0]

\* domLocksUnlock: the decrement that takes -1 to 0 and n to n - 1.
Released(l) == [l EXCEPT !.lrcnt = IF @ - 1 < 0 THEN 0 ELSE @ - 1]

NotifiedMutReadersFirst(l) ==
    IF l.numrd > 0 THEN {"read"} ELSE IF l.numwr > 0 THEN {"write"} ELSE {}

\* domLocksUnlock: whose condition variable is notified, writers first.
Notified(l) ==
    IF l.numwr > 0 THEN {"write"} ELSE IF l.numrd > 0 THEN {"read"} ELSE {}
=============================================================================
