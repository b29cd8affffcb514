--------------------------- MODULE DocLocks_proofs ---------------------------
(* Proofs about DocLocks for any finite set of threads, any documents and      *)
(* locks and any depth of nesting: the recycled locks stay in step with the    *)
(* documents, and threads block each other only when scripts nest.             *)
(* What matters of a state to a lock is who holds it and who waits for it; the *)
(* operators below read that off a pc P and a stack of frames F, so that one   *)
(* definition serves the state before a step and the one after it.             *)
EXTENDS DocLocks, FiniteSetTheorems, SequenceTheorems, TLAPS

\* The frames of t that hold their lock are the first Depth(P, F, t).
Depth(P, F, t) == IF P[t] = "run" THEN Len(F[t]) ELSE Len(F[t]) - 1

HoldersIn(P, F, l, h) ==
    {p \in Threads \X (1 .. MaxFrames) :
        /\ p[2] <= Depth(P, F, p[1])
        /\ F[p[1]][p[2]].lock = l /\ F[p[1]][p[2]].how = h}

\* The threads with a pc in S whose innermost frame asks for lock l.
QueueIn(P, F, S, l, h) ==
    {t \in Threads : P[t] \in S /\ F[t][Len(F[t])].lock = l /\ F[t][Len(F[t])].how = h}

Rec == [lrcnt : Int, numrd : Nat, numwr : Nat]

(* The record r of a lock is right for its readers Hr and writers Hw, for the  *)
(* threads Wr and Ww that wait, of which Ar and Aw sleep and Kw is woken:      *)
(* either many readers or one writer, counted by lrcnt; exact counts of those  *)
(* that wait; and nobody sleeps unless somebody is left to notify him.         *)
LockOK(r, Hr, Hw, Wr, Ww, Ar, Aw, Kw) ==
    /\ r \in Rec
    /\ IsFiniteSet(Hr) /\ IsFiniteSet(Hw) /\ IsFiniteSet(Wr) /\ IsFiniteSet(Ww)
    /\ IF Hw = {} THEN r.lrcnt = Cardinality(Hr)
       ELSE Cardinality(Hw) = 1 /\ Hr = {} /\ r.lrcnt = -1
    /\ r.numrd = Cardinality(Wr) /\ r.numwr = Cardinality(Ww)
    /\ Ar # {} => Hw # {} \/ Ww # {}
    /\ Aw # {} => Hr # {} \/ Hw # {} \/ Kw # {}

LockOKIn(r, P, F, l) ==
    LockOK(r, HoldersIn(P, F, l, "read"), HoldersIn(P, F, l, "write"),
           QueueIn(P, F, {"asleep", "woken"}, l, "read"),
           QueueIn(P, F, {"asleep", "woken"}, l, "write"),
           QueueIn(P, F, {"asleep"}, l, "read"), QueueIn(P, F, {"asleep"}, l, "write"),
           QueueIn(P, F, {"woken"}, l, "write"))

\* Scripts nest as deep as they may, and a thread that waits does so in one.
FramesOK(P, F) ==
    /\ P \in [Threads -> {"run", "entering", "asleep", "woken"}] /\ F \in [Threads -> Seq(Frame)]
    /\ \A t \in Threads : Len(F[t]) <= MaxFrames /\ (P[t] # "run" => Len(F[t]) > 0)

\* The locks D are right for the threads.
LocksOK(P, F, D) ==
    /\ FramesOK(P, F) /\ D \in [Locks -> Rec]
    /\ \A l \in Locks : LockOKIn(D[l], P, F, l)

Inv == /\ TypeOK /\ LockPlacedOnce /\ ReferencesCounted /\ WaitersKeepDocument
       /\ LocksOK(pc, frames, dl)

-----------------------------------------------------------------------------

\* Sets with one element more or less, and those of A that are in N no longer there.
Plus(S, t) == S \cup {t}
Minus(S, t) == S \ {t}
Unless(N, h, A) == IF h \in N THEN {} ELSE A
AlsoIf(N, h, A, K) == IF h \in N THEN K \cup A ELSE K

(* Sizes of finite sets under one element more or less.                      *)
LEMMA CardAddRemove ==
    ASSUME NEW S, IsFiniteSet(S), NEW t
    PROVE  /\ Cardinality(S) \in Nat
           /\ IsFiniteSet(S \cup {t}) /\ IsFiniteSet(S \ {t})
           /\ Cardinality(S \cup {t}) \in Nat /\ Cardinality(S \ {t}) \in Nat
           /\ t \notin S => Cardinality(S \cup {t}) = Cardinality(S) + 1
           /\ t \in S => Cardinality(S \ {t}) = Cardinality(S) - 1
           /\ Cardinality(S) = 0 <=> S = {}
           /\ Cardinality(S) = 1 /\ t \in S => S = {t}
           /\ Cardinality({t}) = 1 /\ Cardinality({}) = 0
<1>1. IsFiniteSet(S \cup {t}) /\ IsFiniteSet(S \ {t})
  BY FS_AddElement, FS_RemoveElement
<1>2. Cardinality({t}) = 1 /\ Cardinality({}) = 0 BY FS_Singleton, FS_EmptySet
<1>3. Cardinality(S) = 1 /\ t \in S => S = {t}
  <2>1. t \in S => Cardinality(S \ {t}) = Cardinality(S) - 1 BY FS_RemoveElement
  <2>2. Cardinality(S \ {t}) = 0 => S \ {t} = {} BY <1>1, FS_EmptySet
  <2>3. Cardinality(S) \in Nat BY FS_CardinalityType
  <2>4. QED BY <2>1, <2>2, <2>3
<1>4. QED
  BY <1>1, <1>2, <1>3, FS_AddElement, FS_RemoveElement, FS_EmptySet, FS_CardinalityType

(* What the operations of domlock.c make of a record.                        *)
LEMMA RecordOps ==
    ASSUME NEW r, r \in Rec
    PROVE  /\ Counted("read", r, 1) = [lrcnt |-> r.lrcnt, numrd |-> r.numrd + 1, numwr |-> r.numwr]
           /\ Counted("write", r, 1) = [lrcnt |-> r.lrcnt, numrd |-> r.numrd, numwr |-> r.numwr + 1]
           /\ Granted("read", r) = [lrcnt |-> r.lrcnt + 1, numrd |-> r.numrd, numwr |-> r.numwr]
           /\ Granted("write", r) = [lrcnt |-> -1, numrd |-> r.numrd, numwr |-> r.numwr]
           /\ Granted("read", Counted("read", r, -1)) =
                [lrcnt |-> r.lrcnt + 1, numrd |-> r.numrd - 1, numwr |-> r.numwr]
           /\ Granted("write", Counted("write", r, -1)) =
                [lrcnt |-> -1, numrd |-> r.numrd, numwr |-> r.numwr - 1]
           /\ Counted("read", Counted("read", r, -1), 1) = r
           /\ Counted("write", Counted("write", r, -1), 1) = r
           /\ Blocked("read", Counted("read", r, -1)) <=> Blocked("read", r)
           /\ Blocked("write", Counted("write", r, -1)) <=> Blocked("write", r)
           /\ Released(r) = [lrcnt |-> IF r.lrcnt - 1 < 0 THEN 0 ELSE r.lrcnt - 1,
                             numrd |-> r.numrd, numwr |-> r.numwr]
<1>1. /\ r = [lrcnt |-> r.lrcnt, numrd |-> r.numrd, numwr |-> r.numwr]
      /\ r.lrcnt \in Int /\ r.numrd \in Nat /\ r.numwr \in Nat
  BY DEF Rec
<1>2. /\ Counted("read", r, -1) = [lrcnt |-> r.lrcnt, numrd |-> r.numrd - 1, numwr |-> r.numwr]
      /\ Counted("write", r, -1) = [lrcnt |-> r.lrcnt, numrd |-> r.numrd, numwr |-> r.numwr - 1]
      /\ Counted("read", r, 1) = [lrcnt |-> r.lrcnt, numrd |-> r.numrd + 1, numwr |-> r.numwr]
      /\ Counted("write", r, 1) = [lrcnt |-> r.lrcnt, numrd |-> r.numrd, numwr |-> r.numwr + 1]
  BY <1>1 DEF Counted
<1>3. /\ Granted("read", r) = [lrcnt |-> r.lrcnt + 1, numrd |-> r.numrd, numwr |-> r.numwr]
      /\ Granted("write", r) = [lrcnt |-> -1, numrd |-> r.numrd, numwr |-> r.numwr]
      /\ Granted("read", Counted("read", r, -1)) =
            [lrcnt |-> r.lrcnt + 1, numrd |-> r.numrd - 1, numwr |-> r.numwr]
      /\ Granted("write", Counted("write", r, -1)) =
            [lrcnt |-> -1, numrd |-> r.numrd, numwr |-> r.numwr - 1]
  BY <1>1, <1>2 DEF Granted
<1>4. r.numrd - 1 + 1 = r.numrd /\ r.numwr - 1 + 1 = r.numwr BY <1>1
<1>5. Counted("read", Counted("read", r, -1), 1) = r /\ Counted("write", Counted("write", r, -1), 1) = r
  BY <1>1, <1>2, <1>4 DEF Counted
<1>6. /\ Blocked("read", Counted("read", r, -1)) <=> Blocked("read", r)
      /\ Blocked("write", Counted("write", r, -1)) <=> Blocked("write", r)
  BY <1>2 DEF Blocked
<1>7. Released(r) = [lrcnt |-> IF r.lrcnt - 1 < 0 THEN 0 ELSE r.lrcnt - 1,
                     numrd |-> r.numrd, numwr |-> r.numwr]
  BY <1>1 DEF Released
<1>8. QED BY <1>2, <1>3, <1>5, <1>6, <1>7

(* What a record says of the sets.                                           *)
LEMMA LockMeaning ==
    ASSUME NEW r, NEW Hr, NEW Hw, NEW Wr, NEW Ww, NEW Ar, NEW Aw, NEW Kw,
           LockOK(r, Hr, Hw, Wr, Ww, Ar, Aw, Kw)
    PROVE  /\ r \in Rec /\ r.lrcnt \in Int /\ r.numrd \in Nat /\ r.numwr \in Nat
           /\ Blocked("read", r) <=> Hw # {} \/ Ww # {}
           /\ Blocked("write", r) <=> Hr # {} \/ Hw # {}
           /\ Hw = {} => r.lrcnt = Cardinality(Hr)
           /\ "read" \in Notified(r) <=> Ww = {} /\ Wr # {}
           /\ "write" \in Notified(r) <=> Ww # {}
           /\ \A t : t \in Wr => r.numrd > 0
           /\ \A t : t \in Ww => r.numwr > 0
<1>1. /\ Cardinality(Hr) \in Nat /\ Cardinality(Wr) \in Nat /\ Cardinality(Ww) \in Nat
      /\ Cardinality(Hr) = 0 <=> Hr = {}
      /\ Cardinality(Ww) = 0 <=> Ww = {}
      /\ Cardinality(Wr) = 0 <=> Wr = {}
  BY CardAddRemove DEF LockOK
<1>2. r \in Rec /\ r.lrcnt \in Int /\ r.numrd \in Nat /\ r.numwr \in Nat BY DEF LockOK, Rec
<1>3. QED BY <1>1, <1>2 DEF LockOK, Blocked, Notified

(* One lock, its record r and its sets, and what each thing domlock.c does     *)
(* under dl->mutex leaves: a new caller t has to wait.                         *)
LEMMA AskSleeps ==
    ASSUME NEW r, NEW Hr, NEW Hw, NEW Wr, NEW Ww, NEW Ar, NEW Aw, NEW Kw, NEW t,
           LockOK(r, Hr, Hw, Wr, Ww, Ar, Aw, Kw)
    PROVE  /\ t \notin Wr /\ Blocked("read", r) =>
                 LockOK(Counted("read", r, 1), Hr, Hw, Plus(Wr, t), Ww, Plus(Ar, t), Aw, Kw)
           /\ t \notin Ww /\ Blocked("write", r) =>
                 LockOK(Counted("write", r, 1), Hr, Hw, Wr, Plus(Ww, t), Ar, Plus(Aw, t), Kw)
<1>1. /\ t \notin Wr => Cardinality(Wr \cup {t}) = Cardinality(Wr) + 1
      /\ t \notin Ww => Cardinality(Ww \cup {t}) = Cardinality(Ww) + 1
      /\ IsFiniteSet(Wr \cup {t}) /\ IsFiniteSet(Ww \cup {t})
  BY CardAddRemove DEF LockOK
<1>2. /\ r \in Rec /\ r.lrcnt \in Int /\ r.numrd \in Nat /\ r.numwr \in Nat
      /\ Blocked("read", r) <=> Hw # {} \/ Ww # {}
      /\ Blocked("write", r) <=> Hr # {} \/ Hw # {}
  BY LockMeaning
<1>3. /\ Counted("read", r, 1) = [lrcnt |-> r.lrcnt, numrd |-> r.numrd + 1, numwr |-> r.numwr]
      /\ Counted("write", r, 1) = [lrcnt |-> r.lrcnt, numrd |-> r.numrd, numwr |-> r.numwr + 1]
  BY <1>2, RecordOps
<1>4. QED BY <1>1, <1>2, <1>3 DEF LockOK, Rec, Plus, Minus, Unless, AlsoIf

\* A new caller gets the lock, which the frame p then holds.
LEMMA AskGets ==
    ASSUME NEW r, NEW Hr, NEW Hw, NEW Wr, NEW Ww, NEW Ar, NEW Aw, NEW Kw, NEW p,
           LockOK(r, Hr, Hw, Wr, Ww, Ar, Aw, Kw)
    PROVE  /\ p \notin Hr /\ ~Blocked("read", r) =>
                 LockOK(Granted("read", r), Plus(Hr, p), Hw, Wr, Ww, Ar, Aw, Kw)
           /\ p \notin Hw /\ ~Blocked("write", r) =>
                 LockOK(Granted("write", r), Hr, Plus(Hw, p), Wr, Ww, Ar, Aw, Kw)
<1>0. IsFiniteSet(Hr) /\ IsFiniteSet(Hw) BY DEF LockOK
<1>1. /\ p \notin Hr => Cardinality(Hr \cup {p}) = Cardinality(Hr) + 1
      /\ Cardinality({p}) = 1
      /\ IsFiniteSet(Hr \cup {p}) /\ IsFiniteSet(Hw \cup {p})
  BY <1>0, CardAddRemove
<1>2. /\ r \in Rec /\ r.lrcnt \in Int /\ r.numrd \in Nat /\ r.numwr \in Nat
      /\ Blocked("read", r) <=> Hw # {} \/ Ww # {}
      /\ Blocked("write", r) <=> Hr # {} \/ Hw # {}
      /\ Hw = {} => r.lrcnt = Cardinality(Hr)
  BY LockMeaning
<1>3. /\ Granted("read", r) = [lrcnt |-> r.lrcnt + 1, numrd |-> r.numrd, numwr |-> r.numwr]
      /\ Granted("write", r) = [lrcnt |-> -1, numrd |-> r.numrd, numwr |-> r.numwr]
  BY <1>2, RecordOps
<1>4. Hw = {} => Hw \cup {p} = {p} OBVIOUS
<1>5. ASSUME p \notin Hr, ~Blocked("read", r)
      PROVE  LockOK(Granted("read", r), Plus(Hr, p), Hw, Wr, Ww, Ar, Aw, Kw)
  BY <1>1, <1>2, <1>3, <1>5 DEF LockOK, Rec, Plus, Minus, Unless, AlsoIf
<1>6. ASSUME p \notin Hw, ~Blocked("write", r)
      PROVE  LockOK(Granted("write", r), Hr, Plus(Hw, p), Wr, Ww, Ar, Aw, Kw)
  BY <1>1, <1>2, <1>3, <1>4, <1>6 DEF LockOK, Rec, Plus, Minus, Unless, AlsoIf
<1>7. QED BY <1>5, <1>6

\* A woken thread t finds the lock taken and waits on.
LEMMA RecheckSleeps ==
    ASSUME NEW r, NEW Hr, NEW Hw, NEW Wr, NEW Ww, NEW Ar, NEW Aw, NEW Kw, NEW t,
           LockOK(r, Hr, Hw, Wr, Ww, Ar, Aw, Kw)
    PROVE  /\ Blocked("read", Counted("read", r, -1)) =>
                 LockOK(Counted("read", Counted("read", r, -1), 1),
                        Hr, Hw, Wr, Ww, Plus(Ar, t), Aw, Kw)
           /\ Blocked("write", Counted("write", r, -1)) =>
                 LockOK(Counted("write", Counted("write", r, -1), 1),
                        Hr, Hw, Wr, Ww, Ar, Plus(Aw, t), Minus(Kw, t))
<1>1. /\ r \in Rec
      /\ Blocked("read", r) <=> Hw # {} \/ Ww # {}
      /\ Blocked("write", r) <=> Hr # {} \/ Hw # {}
  BY LockMeaning
<1>2. /\ Blocked("read", Counted("read", r, -1)) <=> Blocked("read", r)
      /\ Blocked("write", Counted("write", r, -1)) <=> Blocked("write", r)
      /\ Counted("read", Counted("read", r, -1), 1) = r
      /\ Counted("write", Counted("write", r, -1), 1) = r
  BY <1>1, RecordOps
<1>3. QED BY <1>1, <1>2 DEF LockOK, Plus, Minus

\* A woken thread t gets the lock.
LEMMA RecheckGets ==
    ASSUME NEW r, NEW Hr, NEW Hw, NEW Wr, NEW Ww, NEW Ar, NEW Aw, NEW Kw, NEW t, NEW p,
           LockOK(r, Hr, Hw, Wr, Ww, Ar, Aw, Kw)
    PROVE  /\ t \in Wr /\ p \notin Hr /\ ~Blocked("read", Counted("read", r, -1)) =>
                 LockOK(Granted("read", Counted("read", r, -1)),
                        Plus(Hr, p), Hw, Minus(Wr, t), Ww, Ar, Aw, Kw)
           /\ t \in Ww /\ p \notin Hw /\ ~Blocked("write", Counted("write", r, -1)) =>
                 LockOK(Granted("write", Counted("write", r, -1)),
                        Hr, Plus(Hw, p), Wr, Minus(Ww, t), Ar, Aw, Minus(Kw, t))
<1>0. IsFiniteSet(Hr) /\ IsFiniteSet(Hw) /\ IsFiniteSet(Wr) /\ IsFiniteSet(Ww) BY DEF LockOK
<1>1. /\ p \notin Hr => Cardinality(Hr \cup {p}) = Cardinality(Hr) + 1
      /\ t \in Wr => Cardinality(Wr \ {t}) = Cardinality(Wr) - 1
      /\ t \in Ww => Cardinality(Ww \ {t}) = Cardinality(Ww) - 1
      /\ Cardinality({p}) = 1
      /\ IsFiniteSet(Hr \cup {p}) /\ IsFiniteSet(Hw \cup {p})
      /\ IsFiniteSet(Wr \ {t}) /\ IsFiniteSet(Ww \ {t})
  BY <1>0, CardAddRemove
<1>2. /\ r \in Rec /\ r.lrcnt \in Int /\ r.numrd \in Nat /\ r.numwr \in Nat
      /\ Blocked("read", r) <=> Hw # {} \/ Ww # {}
      /\ Blocked("write", r) <=> Hr # {} \/ Hw # {}
      /\ Hw = {} => r.lrcnt = Cardinality(Hr)
      /\ t \in Wr => r.numrd > 0
      /\ t \in Ww => r.numwr > 0
  BY LockMeaning
<1>3. /\ Granted("read", Counted("read", r, -1)) =
            [lrcnt |-> r.lrcnt + 1, numrd |-> r.numrd - 1, numwr |-> r.numwr]
      /\ Granted("write", Counted("write", r, -1)) =
            [lrcnt |-> -1, numrd |-> r.numrd, numwr |-> r.numwr - 1]
      /\ Blocked("read", Counted("read", r, -1)) <=> Blocked("read", r)
      /\ Blocked("write", Counted("write", r, -1)) <=> Blocked("write", r)
  BY <1>2, RecordOps
<1>4. Hw = {} => Hw \cup {p} = {p} OBVIOUS
<1>5. ASSUME t \in Wr, p \notin Hr, ~Blocked("read", Counted("read", r, -1))
      PROVE  LockOK(Granted("read", Counted("read", r, -1)),
                    Plus(Hr, p), Hw, Minus(Wr, t), Ww, Ar, Aw, Kw)
  <2>1. Hw = {} /\ Ww = {} /\ r.numrd - 1 \in Nat BY <1>2, <1>3, <1>5
  <2>2. QED BY <1>1, <1>2, <1>3, <1>5, <2>1 DEF LockOK, Rec, Plus, Minus, Unless, AlsoIf
<1>6. ASSUME t \in Ww, p \notin Hw, ~Blocked("write", Counted("write", r, -1))
      PROVE  LockOK(Granted("write", Counted("write", r, -1)),
                    Hr, Plus(Hw, p), Wr, Minus(Ww, t), Ar, Aw, Minus(Kw, t))
  <2>1. Hw = {} /\ Hr = {} /\ r.numwr - 1 \in Nat BY <1>2, <1>3, <1>6
  <2>2. QED BY <1>1, <1>2, <1>3, <1>4, <1>6, <2>1 DEF LockOK, Rec, Plus, Minus, Unless, AlsoIf
<1>7. QED BY <1>5, <1>6

(* A holder p lets go: writers are woken first, and only if none waits are     *)
(* the readers.                                                              *)
LEMMA HolderReleases ==
    ASSUME NEW r, NEW Hr, NEW Hw, NEW Wr, NEW Ww, NEW Ar, NEW Aw, NEW Kw, NEW p,
           LockOK(r, Hr, Hw, Wr, Ww, Ar, Aw, Kw), Ar \subseteq Wr, Aw \subseteq Ww
    PROVE  p \in Hr \cup Hw =>
             LockOK(Released(r), Minus(Hr, p), Minus(Hw, p), Wr, Ww,
                    Unless(Notified(Released(r)), "read", Ar),
                    Unless(Notified(Released(r)), "write", Aw),
                    AlsoIf(Notified(Released(r)), "write", Aw, Kw))
<1> SUFFICES ASSUME p \in Hr \cup Hw
             PROVE  LockOK(Released(r), Minus(Hr, p), Minus(Hw, p), Wr, Ww,
                           Unless(Notified(Released(r)), "read", Ar),
                           Unless(Notified(Released(r)), "write", Aw),
                           AlsoIf(Notified(Released(r)), "write", Aw, Kw))
  OBVIOUS
<1>1. /\ Cardinality(Hr) \in Nat
      /\ p \in Hr => Cardinality(Hr \ {p}) = Cardinality(Hr) - 1
      /\ Cardinality({}) = 0
      /\ Cardinality(Hr) = 0 <=> Hr = {}
      /\ IsFiniteSet(Hr \ {p}) /\ IsFiniteSet(Hw \ {p})
      /\ Cardinality(Hw) = 1 /\ p \in Hw => Hw = {p}
  BY CardAddRemove, ZenonT(60) DEF LockOK
<1>2. /\ r \in Rec /\ r.lrcnt \in Int /\ r.numrd \in Nat /\ r.numwr \in Nat
      /\ Hw = {} => r.lrcnt = Cardinality(Hr)
      /\ "read" \in Notified(r) <=> Ww = {} /\ Wr # {}
      /\ "write" \in Notified(r) <=> Ww # {}
  BY LockMeaning
<1>3. Released(r) = [lrcnt |-> IF r.lrcnt - 1 < 0 THEN 0 ELSE r.lrcnt - 1,
                     numrd |-> r.numrd, numwr |-> r.numwr]
  BY <1>2, RecordOps
<1>4. Notified(Released(r)) = Notified(r) BY <1>3 DEF Notified
<1>5. CASE Hw = {}
  <2>1. p \in Hr /\ Hw \ {p} = {} /\ r.lrcnt - 1 = Cardinality(Hr \ {p}) /\ r.lrcnt - 1 >= 0
    BY <1>1, <1>2, <1>5
  <2>2. QED BY <1>1, <1>2, <1>3, <1>4, <1>5, <2>1 DEF LockOK, Rec, Plus, Minus, Unless, AlsoIf
<1>6. CASE Hw # {}
  <2>1. p \in Hw /\ Hr = {} /\ Hw \ {p} = {} /\ Hr \ {p} = {} /\ r.lrcnt = -1
    BY <1>1, <1>6 DEF LockOK
  <2>2. QED BY <1>1, <1>2, <1>3, <1>4, <2>1 DEF LockOK, Rec, Plus, Minus, Unless, AlsoIf
<1>7. QED BY <1>5, <1>6

\* A thread's stack of frames, read out of FramesOK.
LEMMA StackFacts ==
    ASSUME NEW P, NEW F, FramesOK(P, F), NEW t \in Threads
    PROVE  /\ F[t] \in Seq(Frame) /\ Len(F[t]) \in Nat /\ Len(F[t]) <= MaxFrames
           /\ P[t] \in {"run", "entering", "asleep", "woken"} /\ (P[t] # "run" => Len(F[t]) > 0)
           /\ \A i \in 1 .. Len(F[t]) : F[t][i] \in Frame
           /\ Depth(P, F, t) \in Nat /\ Depth(P, F, t) <= Len(F[t])
<1>1. F[t] \in Seq(Frame) /\ Len(F[t]) \in Nat BY LenProperties DEF FramesOK
<1>2. \A i \in 1 .. Len(F[t]) : F[t][i] \in Frame BY <1>1, ElementOfSeq
<1>3. QED BY <1>1, <1>2 DEF FramesOK, Depth

(* Two sets of holders are equal when they agree on every thread and position. *)
LEMMA HoldersEqual ==
    ASSUME NEW A, NEW B, A \subseteq Threads \X (1 .. MaxFrames), B \subseteq Threads \X (1 .. MaxFrames),
           \A t \in Threads, n \in 1 .. MaxFrames : <<t, n>> \in A <=> <<t, n>> \in B
    PROVE  A = B
OBVIOUS

\* Which pairs of a thread and a position are among the holders.
LEMMA HoldersAre ==
    ASSUME NEW P, NEW F, NEW l, NEW h
    PROVE  /\ HoldersIn(P, F, l, h) \subseteq Threads \X (1 .. MaxFrames)
           /\ \A t \in Threads, n \in 1 .. MaxFrames :
                <<t, n>> \in HoldersIn(P, F, l, h) <=>
                  n <= Depth(P, F, t) /\ F[t][n].lock = l /\ F[t][n].how = h
BY DEF HoldersIn

\* From (P, F) to (P2, F2), the frames that hold a lock stay, and those of Ts gain none.
Kept(P, F, F2) ==
    \A u \in Threads, n \in 1 .. MaxFrames : n <= Depth(P, F, u) => F2[u][n] = F[u][n]
NoneGained(P, F, P2, F2, Ts) == \A u \in Ts : Depth(P2, F2, u) = Depth(P, F, u)

(* With the same frames that hold locks, the holders are the same.            *)
LEMMA SameHolders ==
    ASSUME NEW P, NEW F, NEW P2, NEW F2, NEW l, NEW h,
           Kept(P, F, F2), NoneGained(P, F, P2, F2, Threads)
    PROVE  HoldersIn(P2, F2, l, h) = HoldersIn(P, F, l, h)
<1>1. \A t \in Threads, n \in 1 .. MaxFrames :
         <<t, n>> \in HoldersIn(P2, F2, l, h) <=> <<t, n>> \in HoldersIn(P, F, l, h)
  <2> SUFFICES ASSUME NEW t \in Threads, NEW n \in 1 .. MaxFrames
               PROVE  <<t, n>> \in HoldersIn(P2, F2, l, h) <=> <<t, n>> \in HoldersIn(P, F, l, h)
    OBVIOUS
  <2>0. Depth(P2, F2, t) = Depth(P, F, t) BY DEF NoneGained
  <2>1. CASE n <= Depth(P, F, t)
    <3>1. F2[t][n] = F[t][n] /\ n <= Depth(P2, F2, t) BY <2>0, <2>1 DEF Kept
    <3>2. QED BY <2>1, <3>1, HoldersAre
  <2>2. CASE ~(n <= Depth(P, F, t))
    <3>1. ~(n <= Depth(P2, F2, t)) BY <2>0, <2>2
    <3>2. QED BY <2>2, <3>1, HoldersAre
  <2>3. QED BY <2>1, <2>2
<1>2. QED BY <1>1, HoldersAre, HoldersEqual

(* One more frame of t, its m-th, holds its lock: it joins the holders.       *)
Gains(P, F, P2, F2, t, m) ==
    /\ t \in Threads /\ m \in 1 .. MaxFrames
    /\ Kept(P, F, F2) /\ NoneGained(P, F, P2, F2, Threads \ {t})
    /\ Depth(P, F, t) = m - 1 /\ Depth(P2, F2, t) = m

\* If only the frame (t, n) comes to hold its lock, its lock has that one holder more.
LEMMA OneMoreHolder ==
    ASSUME NEW P, NEW F, NEW P2, NEW F2, NEW t, NEW m, Gains(P, F, P2, F2, t, m), NEW l, NEW h
    PROVE  /\ <<t, m>> \notin HoldersIn(P, F, l, h)
           /\ HoldersIn(P2, F2, l, h) =
                 IF F2[t][m].lock = l /\ F2[t][m].how = h THEN HoldersIn(P, F, l, h) \cup {<<t, m>>}
                 ELSE HoldersIn(P, F, l, h)
<1> DEFINE H == HoldersIn(P, F, l, h)
           H2 == HoldersIn(P2, F2, l, h)
<1> USE DEF Gains
<1>0. MaxFrames \in Nat /\ m - 1 < m /\ t \in Threads /\ m \in 1 .. MaxFrames BY DocLocksAssumption
<1>1. <<t, m>> \notin H BY <1>0, HoldersAre
<1>2. \A u \in Threads, n \in 1 .. MaxFrames :
         ~(u = t /\ n = m) => (<<u, n>> \in H2 <=> <<u, n>> \in H)
  <2> SUFFICES ASSUME NEW u \in Threads, NEW n \in 1 .. MaxFrames, ~(u = t /\ n = m)
               PROVE  <<u, n>> \in H2 <=> <<u, n>> \in H
    OBVIOUS
  <2>1. n <= Depth(P2, F2, u) <=> n <= Depth(P, F, u)
    <3>1. CASE u = t BY <1>0, <3>1
    <3>2. CASE u # t BY <3>2 DEF NoneGained
    <3>3. QED BY <3>1, <3>2
  <2>2. CASE n <= Depth(P, F, u)
    <3>1. F2[u][n] = F[u][n] BY <2>2 DEF Kept
    <3>2. QED BY <2>1, <3>1, HoldersAre
  <2>3. CASE ~(n <= Depth(P, F, u)) BY <2>1, <2>3, HoldersAre
  <2>4. QED BY <2>2, <2>3
<1>3. <<t, m>> \in H2 <=> F2[t][m].lock = l /\ F2[t][m].how = h BY <1>0, HoldersAre
<1>4. H \subseteq Threads \X (1 .. MaxFrames) /\ H2 \subseteq Threads \X (1 .. MaxFrames)
  BY HoldersAre
<1> HIDE DEF H, H2
<1>5. H \cup {<<t, m>>} \subseteq Threads \X (1 .. MaxFrames) BY <1>0, <1>4
<1>6. F2[t][m].lock = l /\ F2[t][m].how = h => H2 = H \cup {<<t, m>>}
  <2> SUFFICES ASSUME F2[t][m].lock = l /\ F2[t][m].how = h PROVE H2 = H \cup {<<t, m>>} OBVIOUS
  <2>1. \A u \in Threads, n \in 1 .. MaxFrames : <<u, n>> \in H2 <=> <<u, n>> \in H \cup {<<t, m>>}
    BY <1>2, <1>3
  <2>2. QED BY <2>1, <1>4, <1>5, HoldersEqual
<1>7. ~(F2[t][m].lock = l /\ F2[t][m].how = h) => H2 = H
  BY <1>1, <1>2, <1>3, <1>4, HoldersEqual
<1>8. QED BY <1>1, <1>6, <1>7 DEF H, H2

-----------------------------------------------------------------------------
(* A running thread t calls domLocksLock: the frame f goes on its stack and    *)
(* holds nothing yet, and t is in no queue.                                   *)
Pushes(P, F, P2, F2, t, f) ==
    /\ FramesOK(P, F) /\ t \in Threads /\ f \in Frame
    /\ P[t] = "run" /\ Len(F[t]) < MaxFrames
    /\ P2 = [P EXCEPT ![t] = "entering"]
    /\ F2 = [F EXCEPT ![t] = Append(F[t], f)]

\* What Pushes leaves of stacks and pcs.
LEMMA Pushed ==
    ASSUME NEW P, NEW F, NEW P2, NEW F2, NEW t, NEW f, Pushes(P, F, P2, F2, t, f)
    PROVE  /\ FramesOK(P2, F2) /\ F2[t][Len(F2[t])] = f
           /\ \A u \in Threads : u # t => F2[u] = F[u] /\ P2[u] = P[u]
           /\ P[t] = "run" /\ P2[t] = "entering"
           /\ Kept(P, F, F2) /\ NoneGained(P, F, P2, F2, Threads)
<1>0. /\ FramesOK(P, F) /\ t \in Threads /\ f \in Frame
      /\ P[t] = "run" /\ Len(F[t]) < MaxFrames
  BY DEF Pushes
<1>1. F[t] \in Seq(Frame) /\ Len(F[t]) \in Nat BY <1>0, StackFacts
<1>2. /\ F2[t] = Append(F[t], f) /\ F2 = [F EXCEPT ![t] = Append(F[t], f)]
      /\ \A u \in Threads : u # t => F2[u] = F[u] /\ P2[u] = P[u]
      /\ P2 \in [Threads -> {"run", "entering", "asleep", "woken"}] /\ P2[t] = "entering"
  BY <1>0 DEF FramesOK, Pushes
<1>3. /\ F2[t] \in Seq(Frame) /\ Len(F2[t]) = Len(F[t]) + 1
      /\ \A i \in 1 .. Len(F[t]) : F2[t][i] = F[t][i]
      /\ F2[t][Len(F[t]) + 1] = f
  BY <1>0, <1>1, <1>2, AppendProperties
<1>4. F2 \in [Threads -> Seq(Frame)] BY <1>0, <1>2, <1>3 DEF FramesOK
<1>5. FramesOK(P2, F2)
  <2>1. ASSUME NEW u \in Threads PROVE Len(F2[u]) <= MaxFrames /\ (P2[u] # "run" => Len(F2[u]) > 0)
    <3>1. CASE u = t BY <1>0, <1>1, <1>3, <3>1, DocLocksAssumption
    <3>2. CASE u # t BY <1>0, <1>2, <3>2 DEF FramesOK
    <3>3. QED BY <3>1, <3>2
  <2>2. QED BY <1>2, <1>4, <2>1 DEF FramesOK
<1>6. ASSUME NEW u \in Threads, NEW n \in 1 .. MaxFrames, n <= Depth(P, F, u)
      PROVE  F2[u][n] = F[u][n]
  <2>1. CASE u = t
    <3>1. n \in 1 .. Len(F[t]) BY <1>0, <1>1, <1>6, <2>1, DocLocksAssumption DEF Depth
    <3>2. QED BY <2>1, <3>1, <1>3
  <2>2. CASE u # t BY <1>2, <2>2
  <2>3. QED BY <2>1, <2>2
<1>7. NoneGained(P, F, P2, F2, Threads)
  <2>1. Depth(P2, F2, t) = Depth(P, F, t) BY <1>0, <1>1, <1>2, <1>3 DEF Depth
  <2>2. QED BY <1>2, <2>1 DEF NoneGained, Depth
<1>8. F2[t][Len(F2[t])] = f BY <1>3
<1>9. QED BY <1>0, <1>2, <1>5, <1>6, <1>7, <1>8 DEF Kept

\* The sets of all locks are what they were, and so all locks are right.
LEMMA PushKeepsLocks ==
    ASSUME NEW P, NEW F, NEW D, LocksOK(P, F, D), NEW P2, NEW F2, NEW t, NEW f,
           Pushes(P, F, P2, F2, t, f)
    PROVE  LocksOK(P2, F2, D)
<1>0. /\ FramesOK(P2, F2) /\ Kept(P, F, F2) /\ NoneGained(P, F, P2, F2, Threads)
      /\ \A u \in Threads : u # t => F2[u] = F[u] /\ P2[u] = P[u]
      /\ P[t] = "run" /\ P2[t] = "entering"
  BY Pushed
<1>1. \A l, h : HoldersIn(P2, F2, l, h) = HoldersIn(P, F, l, h) BY <1>0, SameHolders
<1>2. ASSUME NEW S \in {{"asleep"}, {"asleep", "woken"}, {"woken"}}, NEW l, NEW h
      PROVE  QueueIn(P2, F2, S, l, h) = QueueIn(P, F, S, l, h)
  BY <1>0 DEF QueueIn
<1>3. \A l \in Locks : LockOKIn(D[l], P2, F2, l) BY <1>1, <1>2 DEF LocksOK, LockOKIn
<1>4. QED BY <1>0, <1>3 DEF LocksOK

(* A thread that has entered, or was woken, tests the lock: it waits, or its   *)
(* innermost frame gets the lock it asked for.                                *)
Looks(P, F, P2, t) ==
    /\ FramesOK(P, F) /\ t \in Threads /\ P[t] \in {"entering", "woken"}
    /\ P2 = [P EXCEPT ![t] = "run"] \/ P2 = [P EXCEPT ![t] = "asleep"]

OnlyMoved(P, F, P2, t) ==
    /\ t \in Threads /\ \A u \in Threads : u # t => P2[u] = P[u]
    /\ Len(F[t]) \in 1 .. MaxFrames /\ F[t][Len(F[t])] \in Frame
    /\ Kept(P, F, F) /\ NoneGained(P, F, P2, F, Threads \ {t})
    /\ Depth(P, F, t) = Len(F[t]) - 1
    /\ Depth(P2, F, t) = IF P2[t] = "run" THEN Len(F[t]) ELSE Len(F[t]) - 1

\* What Looks leaves of stacks and pcs.
LEMMA HasLooked ==
    ASSUME NEW P, NEW F, NEW P2, NEW t, Looks(P, F, P2, t)
    PROVE  FramesOK(P2, F) /\ OnlyMoved(P, F, P2, t)
<1>0. FramesOK(P, F) /\ t \in Threads /\ P[t] \in {"entering", "woken"} BY DEF Looks
<1>1. Len(F[t]) \in 1 .. MaxFrames /\ F[t][Len(F[t])] \in Frame
  BY <1>0, StackFacts, DocLocksAssumption
<1>2. /\ \A u \in Threads : u # t => P2[u] = P[u]
      /\ P2 \in [Threads -> {"run", "entering", "asleep", "woken"}]
  BY <1>0 DEF FramesOK, Looks
<1>3. FramesOK(P2, F)
  <2>1. Len(F[t]) > 0 BY <1>1, DocLocksAssumption
  <2>2. QED BY <1>0, <1>2, <2>1 DEF FramesOK
<1>4. QED BY <1>0, <1>1, <1>2, <1>3 DEF Kept, NoneGained, Depth, OnlyMoved

WaitsOnEffect(P, F, P2, t, f, l, h) ==
    /\ HoldersIn(P2, F, l, h) = HoldersIn(P, F, l, h)
    /\ QueueIn(P2, F, {"asleep", "woken"}, l, h) = QueueIn(P, F, {"asleep", "woken"}, l, h)
    /\ QueueIn(P2, F, {"asleep"}, l, h) =
          IF f.lock = l /\ f.how = h THEN Plus(QueueIn(P, F, {"asleep"}, l, h), t)
          ELSE QueueIn(P, F, {"asleep"}, l, h)
    /\ QueueIn(P2, F, {"woken"}, l, h) =
          IF f.lock = l /\ f.how = h THEN Minus(QueueIn(P, F, {"woken"}, l, h), t)
          ELSE QueueIn(P, F, {"woken"}, l, h)

GetsEffect(P, F, P2, t, p, f, l, h) ==
    /\ p \notin HoldersIn(P, F, l, h)
    /\ HoldersIn(P2, F, l, h) =
          IF f.lock = l /\ f.how = h THEN Plus(HoldersIn(P, F, l, h), p) ELSE HoldersIn(P, F, l, h)
    /\ QueueIn(P2, F, {"asleep"}, l, h) = QueueIn(P, F, {"asleep"}, l, h)
    /\ QueueIn(P2, F, {"woken"}, l, h) =
          IF f.lock = l /\ f.how = h THEN Minus(QueueIn(P, F, {"woken"}, l, h), t)
          ELSE QueueIn(P, F, {"woken"}, l, h)
    /\ QueueIn(P2, F, {"asleep", "woken"}, l, h) =
          IF f.lock = l /\ f.how = h THEN Minus(QueueIn(P, F, {"asleep", "woken"}, l, h), t)
          ELSE QueueIn(P, F, {"asleep", "woken"}, l, h)
    /\ f.lock = l /\ f.how = h => t \in QueueIn(P, F, {"asleep", "woken"}, l, h)

(* What a thread that has entered does to the sets of lock l and how h, when   *)
(* it waits and when it runs.                                                *)
WaitsEffect(P, F, P2, t, f, l, h) ==
    /\ HoldersIn(P2, F, l, h) = HoldersIn(P, F, l, h)
    /\ t \notin QueueIn(P, F, {"asleep", "woken"}, l, h)
    /\ QueueIn(P2, F, {"woken"}, l, h) = QueueIn(P, F, {"woken"}, l, h)
    /\ QueueIn(P2, F, {"asleep"}, l, h) =
          IF f.lock = l /\ f.how = h THEN Plus(QueueIn(P, F, {"asleep"}, l, h), t)
          ELSE QueueIn(P, F, {"asleep"}, l, h)
    /\ QueueIn(P2, F, {"asleep", "woken"}, l, h) =
          IF f.lock = l /\ f.how = h THEN Plus(QueueIn(P, F, {"asleep", "woken"}, l, h), t)
          ELSE QueueIn(P, F, {"asleep", "woken"}, l, h)

RunsEffect(P, F, P2, p, f, l, h) ==
    /\ p \notin HoldersIn(P, F, l, h)
    /\ HoldersIn(P2, F, l, h) =
          IF f.lock = l /\ f.how = h THEN Plus(HoldersIn(P, F, l, h), p) ELSE HoldersIn(P, F, l, h)
    /\ QueueIn(P2, F, {"woken"}, l, h) = QueueIn(P, F, {"woken"}, l, h)
    /\ QueueIn(P2, F, {"asleep"}, l, h) = QueueIn(P, F, {"asleep"}, l, h)
    /\ QueueIn(P2, F, {"asleep", "woken"}, l, h) = QueueIn(P, F, {"asleep", "woken"}, l, h)

\* A thread that enters and sleeps joins one queue and holds nothing new.
LEMMA EntersAndWaits ==
    ASSUME NEW P, NEW F, NEW P2, NEW t, Looks(P, F, P2, t),
           P[t] = "entering", P2[t] = "asleep", NEW l, NEW h
    PROVE  WaitsEffect(P, F, P2, t, F[t][Len(F[t])], l, h)
<1>0. OnlyMoved(P, F, P2, t) BY HasLooked
<1>1. /\ P[t] = "entering" /\ t \in Threads /\ \A u \in Threads : u # t => P2[u] = P[u]
      /\ Kept(P, F, F) /\ NoneGained(P, F, P2, F, Threads \ {t})
      /\ Depth(P2, F, t) = Depth(P, F, t)
  BY <1>0 DEF OnlyMoved
<1>2. NoneGained(P, F, P2, F, Threads) BY <1>1 DEF NoneGained
<1>3. HoldersIn(P2, F, l, h) = HoldersIn(P, F, l, h) BY <1>1, <1>2, SameHolders
<1>4. QED BY <1>1, <1>3 DEF QueueIn, WaitsEffect, Plus

\* A thread that enters and runs holds one lock more and joins no queue.
LEMMA EntersAndRuns ==
    ASSUME NEW P, NEW F, NEW P2, NEW t, Looks(P, F, P2, t),
           P[t] = "entering", P2[t] = "run", NEW l, NEW h
    PROVE  RunsEffect(P, F, P2, <<t, Len(F[t])>>, F[t][Len(F[t])], l, h)
<1>0. OnlyMoved(P, F, P2, t) BY HasLooked
<1>1. /\ P[t] = "entering" /\ t \in Threads /\ \A u \in Threads : u # t => P2[u] = P[u]
      /\ Kept(P, F, F) /\ NoneGained(P, F, P2, F, Threads \ {t})
      /\ Len(F[t]) \in 1 .. MaxFrames
      /\ Depth(P, F, t) = Len(F[t]) - 1 /\ Depth(P2, F, t) = Len(F[t])
  BY <1>0 DEF OnlyMoved
<1> DEFINE m == Len(F[t])
<1>2. ASSUME NEW k, k = m
      PROVE  /\ <<t, k>> \notin HoldersIn(P, F, l, h)
             /\ HoldersIn(P2, F, l, h) =
                   IF F[t][k].lock = l /\ F[t][k].how = h THEN HoldersIn(P, F, l, h) \cup {<<t, k>>}
                   ELSE HoldersIn(P, F, l, h)
  <2>1. Gains(P, F, P2, F, t, k) BY <1>1, <1>2 DEF Gains
  <2>2. QED BY <2>1, OneMoreHolder
<1>3. QED BY <1>1, <1>2 DEF QueueIn, RunsEffect, Plus

\* A woken thread that sleeps again stays in its queue.
LEMMA WaitsOn ==
    ASSUME NEW P, NEW F, NEW P2, NEW t, Looks(P, F, P2, t),
           P[t] = "woken", P2[t] = "asleep", NEW l, NEW h
    PROVE  WaitsOnEffect(P, F, P2, t, F[t][Len(F[t])], l, h)
<1>0. OnlyMoved(P, F, P2, t) BY HasLooked
<1>1. /\ P[t] = "woken" /\ t \in Threads /\ \A u \in Threads : u # t => P2[u] = P[u]
      /\ Kept(P, F, F) /\ NoneGained(P, F, P2, F, Threads \ {t})
      /\ Depth(P2, F, t) = Depth(P, F, t)
  BY <1>0 DEF OnlyMoved
<1>2. NoneGained(P, F, P2, F, Threads) BY <1>1 DEF NoneGained
<1>3. HoldersIn(P2, F, l, h) = HoldersIn(P, F, l, h) BY <1>1, <1>2, SameHolders
<1>4. QED BY <1>1, <1>3 DEF QueueIn, WaitsOnEffect, Plus, Minus

\* A woken thread that gets its lock leaves its queue and is a holder.
LEMMA GetsIt ==
    ASSUME NEW P, NEW F, NEW P2, NEW t, Looks(P, F, P2, t),
           P[t] = "woken", P2[t] = "run", NEW l, NEW h
    PROVE  GetsEffect(P, F, P2, t, <<t, Len(F[t])>>, F[t][Len(F[t])], l, h)
<1>0. OnlyMoved(P, F, P2, t) BY HasLooked
<1>1. /\ P[t] = "woken" /\ t \in Threads /\ \A u \in Threads : u # t => P2[u] = P[u]
      /\ Kept(P, F, F) /\ NoneGained(P, F, P2, F, Threads \ {t})
      /\ Len(F[t]) \in 1 .. MaxFrames
      /\ Depth(P, F, t) = Len(F[t]) - 1 /\ Depth(P2, F, t) = Len(F[t])
  BY <1>0 DEF OnlyMoved
<1> DEFINE m == Len(F[t])
<1>2. ASSUME NEW k, k = m
      PROVE  /\ <<t, k>> \notin HoldersIn(P, F, l, h)
             /\ HoldersIn(P2, F, l, h) =
                   IF F[t][k].lock = l /\ F[t][k].how = h THEN HoldersIn(P, F, l, h) \cup {<<t, k>>}
                   ELSE HoldersIn(P, F, l, h)
  <2>1. Gains(P, F, P2, F, t, k) BY <1>1, <1>2 DEF Gains
  <2>2. QED BY <2>1, OneMoreHolder
<1>3. QED BY <1>1, <1>2 DEF QueueIn, GetsEffect, Plus, Minus

(* A wakeup without a notify moves a sleeper to those that were woken.        *)
WakesUp(P, F, P2, t) ==
    FramesOK(P, F) /\ t \in Threads /\ P[t] = "asleep" /\ P2 = [P EXCEPT ![t] = "woken"]

WakesEffect(P, F, P2, l, h) ==
    /\ HoldersIn(P2, F, l, h) = HoldersIn(P, F, l, h)
    /\ QueueIn(P2, F, {"asleep", "woken"}, l, h) = QueueIn(P, F, {"asleep", "woken"}, l, h)
    /\ QueueIn(P2, F, {"asleep"}, l, h) \subseteq QueueIn(P, F, {"asleep"}, l, h)
    /\ QueueIn(P, F, {"woken"}, l, h) \subseteq QueueIn(P2, F, {"woken"}, l, h)

\* A spurious wake moves one thread from the sleepers to the woken.
LEMMA HasWoken ==
    ASSUME NEW P, NEW F, NEW P2, NEW t, WakesUp(P, F, P2, t), NEW l, NEW h
    PROVE  FramesOK(P2, F) /\ WakesEffect(P, F, P2, l, h)
<1>0. FramesOK(P, F) /\ t \in Threads /\ P[t] = "asleep" BY DEF WakesUp
<1>1. P2[t] = "woken" /\ \A u \in Threads : u # t => P2[u] = P[u]
  BY <1>0 DEF FramesOK, WakesUp
<1>2. FramesOK(P2, F) BY <1>0, <1>1 DEF FramesOK, WakesUp
<1>3. Kept(P, F, F) /\ NoneGained(P, F, P2, F, Threads) BY <1>0, <1>1 DEF Kept, NoneGained, Depth
<1>4. HoldersIn(P2, F, l, h) = HoldersIn(P, F, l, h) BY <1>3, SameHolders
<1>5. QED BY <1>0, <1>1, <1>2, <1>4 DEF QueueIn, WakesEffect

(* A running thread ends its innermost script and wakes those in N who sleep   *)
(* on its lock.                                                              *)
Leaves(P, F, P2, F2, t, N) ==
    /\ FramesOK(P, F) /\ t \in Threads /\ P[t] = "run" /\ F[t] # <<>>
    /\ F2 = [F EXCEPT ![t] = Front(F[t])]
    /\ P2 = [u \in Threads |->
               IF P[u] = "asleep" /\ Last(F[u]).lock = Last(F[t]).lock /\ Last(F[u]).how \in N
               THEN "woken" ELSE P[u]]

\* What Leaves makes of stacks and pcs.
LEMMA HasLeft ==
    ASSUME NEW P, NEW F, NEW P2, NEW F2, NEW t, NEW N, Leaves(P, F, P2, F2, t, N)
    PROVE  FramesOK(P2, F2) /\ Gains(P2, F2, P, F, t, Len(F[t]))
<1>0. FramesOK(P, F) /\ t \in Threads /\ P[t] = "run" BY DEF Leaves
<1>1. /\ F[t] \in Seq(Frame) /\ Len(F[t]) \in 1 .. MaxFrames
      /\ \A i \in 1 .. Len(F[t]) : F[t][i] \in Frame
  BY <1>0, StackFacts, EmptySeq, DocLocksAssumption DEF Leaves
<1>2. /\ Front(F[t]) \in Seq(Frame) /\ Len(Front(F[t])) = Len(F[t]) - 1
      /\ \A i \in 1 .. Len(F[t]) - 1 : Front(F[t])[i] = F[t][i]
  BY <1>1, SubSeqProperties DEF Front
<1>3. /\ F2[t] = Front(F[t]) /\ P2[t] = "run"
      /\ F2 \in [Threads -> Seq(Frame)]
      /\ \A u \in Threads : u # t => F2[u] = F[u]
  BY <1>0, <1>2 DEF FramesOK, Leaves
<1>4. /\ P2 \in [Threads -> {"run", "entering", "asleep", "woken"}]
      /\ \A u \in Threads : P2[u] = "run" <=> P[u] = "run"
  BY <1>0 DEF FramesOK, Leaves
<1>5. FramesOK(P2, F2)
  <2>1. ASSUME NEW u \in Threads PROVE Len(F2[u]) <= MaxFrames /\ (P2[u] # "run" => Len(F2[u]) > 0)
    <3>1. CASE u = t BY <1>1, <1>2, <1>3, <3>1, DocLocksAssumption
    <3>2. CASE u # t BY <1>0, <1>3, <1>4, <3>2 DEF FramesOK
    <3>3. QED BY <3>1, <3>2
  <2>2. QED BY <1>3, <1>4, <2>1 DEF FramesOK
<1>6. ASSUME NEW u \in Threads, NEW n \in 1 .. MaxFrames, n <= Depth(P2, F2, u)
      PROVE  F[u][n] = F2[u][n]
  <2>1. CASE u = t
    <3>1. n \in 1 .. Len(F[t]) - 1 BY <1>1, <1>2, <1>3, <1>6, <2>1, DocLocksAssumption DEF Depth
    <3>2. QED BY <2>1, <3>1, <1>2, <1>3
  <2>2. CASE u # t BY <1>3, <2>2
  <2>3. QED BY <2>1, <2>2
<1>7. NoneGained(P2, F2, P, F, Threads \ {t}) BY <1>3, <1>4 DEF NoneGained, Depth
<1>8. Depth(P2, F2, t) = Len(F[t]) - 1 /\ Depth(P, F, t) = Len(F[t])
  BY <1>0, <1>2, <1>3 DEF Depth
<1>9. QED BY <1>0, <1>1, <1>5, <1>6, <1>7, <1>8 DEF Kept, Gains

LeavesEffect(P, F, P2, F2, p, f, N, l, h) ==
    /\ HoldersIn(P2, F2, l, h) =
          IF f.lock = l THEN Minus(HoldersIn(P, F, l, h), p) ELSE HoldersIn(P, F, l, h)
    /\ f.lock = l /\ f.how = h => p \in HoldersIn(P, F, l, h)
    /\ QueueIn(P2, F2, {"asleep", "woken"}, l, h) = QueueIn(P, F, {"asleep", "woken"}, l, h)
    /\ QueueIn(P2, F2, {"asleep"}, l, h) =
          IF f.lock = l THEN Unless(N, h, QueueIn(P, F, {"asleep"}, l, h))
          ELSE QueueIn(P, F, {"asleep"}, l, h)
    /\ QueueIn(P2, F2, {"woken"}, l, h) =
          IF f.lock = l
          THEN AlsoIf(N, h, QueueIn(P, F, {"asleep"}, l, h), QueueIn(P, F, {"woken"}, l, h))
          ELSE QueueIn(P, F, {"woken"}, l, h)

\* The end of a script takes one holder away and wakes those in N.
LEMMA LetsGo ==
    ASSUME NEW P, NEW F, NEW P2, NEW F2, NEW t, NEW N, Leaves(P, F, P2, F2, t, N), NEW l, NEW h
    PROVE  LeavesEffect(P, F, P2, F2, <<t, Len(F[t])>>, F[t][Len(F[t])], N, l, h)
<1>1. Gains(P2, F2, P, F, t, Len(F[t])) BY HasLeft
<1>2. /\ t \in Threads /\ P[t] = "run" /\ P2[t] = "run"
      /\ \A u \in Threads : u # t => F2[u] = F[u]
      /\ \A u \in Threads : P2[u] = IF P[u] = "asleep" /\ F[u][Len(F[u])].lock = F[t][Len(F[t])].lock
                                         /\ F[u][Len(F[u])].how \in N
                                     THEN "woken" ELSE P[u]
      /\ FramesOK(P, F)
  BY DEF Leaves, FramesOK, Last
<1>3. \A u \in Threads : u # t =>
         /\ P2[u] \in {"asleep", "woken"} <=> P[u] \in {"asleep", "woken"}
         /\ P2[u] = "asleep" <=> P[u] = "asleep"
               /\ ~(F[u][Len(F[u])].lock = F[t][Len(F[t])].lock /\ F[u][Len(F[u])].how \in N)
         /\ P2[u] = "woken" <=> \/ P[u] = "woken"
               \/ /\ P[u] = "asleep"
                  /\ F[u][Len(F[u])].lock = F[t][Len(F[t])].lock /\ F[u][Len(F[u])].how \in N
  BY <1>2
<1>4. /\ <<t, Len(F[t])>> \notin HoldersIn(P2, F2, l, h)
      /\ HoldersIn(P, F, l, h) =
            IF F[t][Len(F[t])].lock = l /\ F[t][Len(F[t])].how = h
            THEN HoldersIn(P2, F2, l, h) \cup {<<t, Len(F[t])>>} ELSE HoldersIn(P2, F2, l, h)
  BY <1>1, OneMoreHolder
<1>5. QueueIn(P2, F2, {"asleep", "woken"}, l, h) = QueueIn(P, F, {"asleep", "woken"}, l, h)
  BY <1>2, <1>3 DEF QueueIn
<1>6. QueueIn(P2, F2, {"asleep"}, l, h) =
        IF F[t][Len(F[t])].lock = l /\ h \in N THEN {} ELSE QueueIn(P, F, {"asleep"}, l, h)
  BY <1>2, <1>3 DEF QueueIn
<1>7. QueueIn(P2, F2, {"woken"}, l, h) =
        IF F[t][Len(F[t])].lock = l /\ h \in N
        THEN QueueIn(P, F, {"woken"}, l, h) \cup QueueIn(P, F, {"asleep"}, l, h)
        ELSE QueueIn(P, F, {"woken"}, l, h)
  BY <1>2, <1>3 DEF QueueIn
<1>8. QED BY <1>4, <1>5, <1>6, <1>7 DEF LeavesEffect, Minus, Unless, AlsoIf

-----------------------------------------------------------------------------
(* Each step leaves all locks right: the one it is about by the lemma on what  *)
(* it does, the others because it does not touch their sets.                  *)
LEMMA EnterKeepsLocks ==
    ASSUME NEW P, NEW F, NEW D, LocksOK(P, F, D), NEW P2, NEW t,
           Looks(P, F, P2, t), P[t] = "entering", NEW f, f = F[t][Len(F[t])], NEW D2,
           \/ /\ Blocked(f.how, D[f.lock]) /\ P2[t] = "asleep"
              /\ D2 = [D EXCEPT ![f.lock] = Counted(f.how, D[f.lock], 1)]
           \/ /\ ~Blocked(f.how, D[f.lock]) /\ P2[t] = "run"
              /\ D2 = [D EXCEPT ![f.lock] = Granted(f.how, D[f.lock])]
    PROVE  LocksOK(P2, F, D2)
<1>0. FramesOK(P, F) /\ D \in [Locks -> Rec] /\ \A l \in Locks : LockOKIn(D[l], P, F, l)
  BY DEF LocksOK
<1>1. FramesOK(P2, F) BY HasLooked
<1>2. f.lock \in Locks /\ f.how \in {"read", "write"}
  <2>1. OnlyMoved(P, F, P2, t) BY HasLooked
  <2>2. QED BY <2>1 DEF OnlyMoved, Frame, Hows
<1>3. ASSUME NEW l \in Locks PROVE LockOKIn(D2[l], P2, F, l)
  <2> DEFINE Hr == HoldersIn(P, F, l, "read")
             Hw == HoldersIn(P, F, l, "write")
             Wr == QueueIn(P, F, {"asleep", "woken"}, l, "read")
             Ww == QueueIn(P, F, {"asleep", "woken"}, l, "write")
             Ar == QueueIn(P, F, {"asleep"}, l, "read")
             Aw == QueueIn(P, F, {"asleep"}, l, "write")
             Kw == QueueIn(P, F, {"woken"}, l, "write")
  <2>0. LockOK(D[l], Hr, Hw, Wr, Ww, Ar, Aw, Kw) BY <1>0 DEF LockOKIn
  <2>1. CASE P2[t] = "asleep"
    <3>1. D2 = [D EXCEPT ![f.lock] = Counted(f.how, D[f.lock], 1)] /\ Blocked(f.how, D[f.lock])
      BY <2>1
    <3>2. /\ WaitsEffect(P, F, P2, t, f, l, "read")
          /\ WaitsEffect(P, F, P2, t, f, l, "write")
      BY <2>1, EntersAndWaits
    <3>3. CASE f.lock # l
      BY <1>0, <1>2, <2>0, <3>1, <3>2, <3>3 DEF LockOKIn, WaitsEffect
    <3>4. CASE f.lock = l /\ f.how = "read"
      <4>1. D2[l] = Counted("read", D[l], 1) /\ Blocked("read", D[l]) BY <1>0, <3>1, <3>4
      <4>2. t \notin Wr BY <3>2, <3>4 DEF WaitsEffect
      <4>3. LockOK(D2[l], Hr, Hw, Plus(Wr, t), Ww, Plus(Ar, t), Aw, Kw)
        <5> HIDE DEF Hr, Hw, Wr, Ww, Ar, Aw, Kw
        <5>1. QED BY <2>0, <4>1, <4>2, AskSleeps
      <4>4. QED BY <3>2, <3>4, <4>3 DEF LockOKIn, WaitsEffect
    <3>5. CASE f.lock = l /\ f.how = "write"
      <4>1. D2[l] = Counted("write", D[l], 1) /\ Blocked("write", D[l]) BY <1>0, <3>1, <3>5
      <4>2. t \notin Ww BY <3>2, <3>5 DEF WaitsEffect
      <4>3. LockOK(D2[l], Hr, Hw, Wr, Plus(Ww, t), Ar, Plus(Aw, t), Kw)
        <5> HIDE DEF Hr, Hw, Wr, Ww, Ar, Aw, Kw
        <5>1. QED BY <2>0, <4>1, <4>2, AskSleeps
      <4>4. QED BY <3>2, <3>5, <4>3 DEF LockOKIn, WaitsEffect
    <3>6. QED BY <1>2, <3>3, <3>4, <3>5
  <2>2. CASE P2[t] = "run"
    <3>1. D2 = [D EXCEPT ![f.lock] = Granted(f.how, D[f.lock])] /\ ~Blocked(f.how, D[f.lock])
      BY <2>2
    <3> DEFINE p == <<t, Len(F[t])>>
    <3>2. RunsEffect(P, F, P2, p, f, l, "read") /\ RunsEffect(P, F, P2, p, f, l, "write")
      BY <2>2, EntersAndRuns
    <3> HIDE DEF p
    <3>3. CASE f.lock # l
      BY <1>0, <1>2, <2>0, <3>1, <3>2, <3>3 DEF LockOKIn, RunsEffect
    <3>4. CASE f.lock = l /\ f.how = "read"
      <4>1. D2[l] = Granted("read", D[l]) /\ ~Blocked("read", D[l]) BY <1>0, <3>1, <3>4
      <4>2. p \notin Hr BY <3>2, <3>4 DEF RunsEffect
      <4>3. LockOK(D2[l], Plus(Hr, p), Hw, Wr, Ww, Ar, Aw, Kw)
        <5> HIDE DEF Hr, Hw, Wr, Ww, Ar, Aw, Kw
        <5>1. QED BY <2>0, <4>1, <4>2, AskGets
      <4>4. QED BY <3>2, <3>4, <4>3 DEF LockOKIn, RunsEffect
    <3>5. CASE f.lock = l /\ f.how = "write"
      <4>1. D2[l] = Granted("write", D[l]) /\ ~Blocked("write", D[l]) BY <1>0, <3>1, <3>5
      <4>2. p \notin Hw BY <3>2, <3>5 DEF RunsEffect
      <4>3. LockOK(D2[l], Hr, Plus(Hw, p), Wr, Ww, Ar, Aw, Kw)
        <5> HIDE DEF Hr, Hw, Wr, Ww, Ar, Aw, Kw
        <5>1. QED BY <2>0, <4>1, <4>2, AskGets
      <4>4. QED BY <3>2, <3>5, <4>3 DEF LockOKIn, RunsEffect
    <3>6. QED BY <1>2, <3>3, <3>4, <3>5
  <2>3. QED BY <2>1, <2>2
<1>4. D2 \in [Locks -> Rec]
  <2>1. DOMAIN D2 = Locks /\ D2 = [l \in DOMAIN D2 |-> D2[l]] BY <1>0
  <2>2. \A l \in Locks : D2[l] \in Rec BY <1>3 DEF LockOKIn, LockOK
  <2>3. QED BY <2>1, <2>2
<1>5. QED BY <1>1, <1>3, <1>4 DEF LocksOK

\* A woken thread that tests its condition again leaves all locks right.
LEMMA LookKeepsLocks ==
    ASSUME NEW P, NEW F, NEW D, LocksOK(P, F, D), NEW P2, NEW t,
           Looks(P, F, P2, t), P[t] = "woken", NEW f, f = F[t][Len(F[t])], NEW D2,
           \/ /\ Blocked(f.how, Counted(f.how, D[f.lock], -1)) /\ P2[t] = "asleep"
              /\ D2 = [D EXCEPT ![f.lock] = Counted(f.how, Counted(f.how, D[f.lock], -1), 1)]
           \/ /\ ~Blocked(f.how, Counted(f.how, D[f.lock], -1)) /\ P2[t] = "run"
              /\ D2 = [D EXCEPT ![f.lock] = Granted(f.how, Counted(f.how, D[f.lock], -1))]
    PROVE  LocksOK(P2, F, D2)
<1>0. FramesOK(P, F) /\ D \in [Locks -> Rec] /\ \A l \in Locks : LockOKIn(D[l], P, F, l)
  BY DEF LocksOK
<1>1. FramesOK(P2, F) BY HasLooked
<1>2. f.lock \in Locks /\ f.how \in {"read", "write"}
  <2>1. OnlyMoved(P, F, P2, t) BY HasLooked
  <2>2. QED BY <2>1 DEF OnlyMoved, Frame, Hows
<1>3. ASSUME NEW l \in Locks PROVE LockOKIn(D2[l], P2, F, l)
  <2> DEFINE Hr == HoldersIn(P, F, l, "read")
             Hw == HoldersIn(P, F, l, "write")
             Wr == QueueIn(P, F, {"asleep", "woken"}, l, "read")
             Ww == QueueIn(P, F, {"asleep", "woken"}, l, "write")
             Ar == QueueIn(P, F, {"asleep"}, l, "read")
             Aw == QueueIn(P, F, {"asleep"}, l, "write")
             Kw == QueueIn(P, F, {"woken"}, l, "write")
  <2>0. LockOK(D[l], Hr, Hw, Wr, Ww, Ar, Aw, Kw) BY <1>0 DEF LockOKIn
  <2>1. CASE P2[t] = "asleep"
    <3>1. /\ D2 = [D EXCEPT ![f.lock] = Counted(f.how, Counted(f.how, D[f.lock], -1), 1)]
          /\ Blocked(f.how, Counted(f.how, D[f.lock], -1))
      BY <2>1
    <3>2. WaitsOnEffect(P, F, P2, t, f, l, "read") /\ WaitsOnEffect(P, F, P2, t, f, l, "write")
      BY <2>1, WaitsOn
    <3>3. CASE f.lock # l
      BY <1>0, <1>2, <2>0, <3>1, <3>2, <3>3 DEF LockOKIn, WaitsOnEffect
    <3>4. CASE f.lock = l /\ f.how = "read"
      <4>1. D2[l] = Counted("read", Counted("read", D[l], -1), 1)
            /\ Blocked("read", Counted("read", D[l], -1))
        BY <1>0, <3>1, <3>4
      <4>3. LockOK(D2[l], Hr, Hw, Wr, Ww, Plus(Ar, t), Aw, Kw)
        <5> HIDE DEF Hr, Hw, Wr, Ww, Ar, Aw, Kw
        <5>1. QED BY <2>0, <4>1, RecheckSleeps
      <4>4. QED BY <3>2, <3>4, <4>3 DEF LockOKIn, WaitsOnEffect
    <3>5. CASE f.lock = l /\ f.how = "write"
      <4>1. D2[l] = Counted("write", Counted("write", D[l], -1), 1)
            /\ Blocked("write", Counted("write", D[l], -1))
        BY <1>0, <3>1, <3>5
      <4>3. LockOK(D2[l], Hr, Hw, Wr, Ww, Ar, Plus(Aw, t), Minus(Kw, t))
        <5> HIDE DEF Hr, Hw, Wr, Ww, Ar, Aw, Kw
        <5>1. QED BY <2>0, <4>1, RecheckSleeps
      <4>4. QED BY <3>2, <3>5, <4>3 DEF LockOKIn, WaitsOnEffect
    <3>6. QED BY <1>2, <3>3, <3>4, <3>5
  <2>2. CASE P2[t] = "run"
    <3>1. /\ D2 = [D EXCEPT ![f.lock] = Granted(f.how, Counted(f.how, D[f.lock], -1))]
          /\ ~Blocked(f.how, Counted(f.how, D[f.lock], -1))
      BY <2>2
    <3> DEFINE p == <<t, Len(F[t])>>
    <3>2. GetsEffect(P, F, P2, t, p, f, l, "read") /\ GetsEffect(P, F, P2, t, p, f, l, "write")
      BY <2>2, GetsIt
    <3> HIDE DEF p
    <3>3. CASE f.lock # l
      BY <1>0, <1>2, <2>0, <3>1, <3>2, <3>3 DEF LockOKIn, GetsEffect
    <3>4. CASE f.lock = l /\ f.how = "read"
      <4>1. D2[l] = Granted("read", Counted("read", D[l], -1))
            /\ ~Blocked("read", Counted("read", D[l], -1))
        BY <1>0, <3>1, <3>4
      <4>2. t \in Wr /\ p \notin Hr BY <3>2, <3>4 DEF GetsEffect
      <4>3. LockOK(D2[l], Plus(Hr, p), Hw, Minus(Wr, t), Ww, Ar, Aw, Kw)
        <5> HIDE DEF Hr, Hw, Wr, Ww, Ar, Aw, Kw
        <5>1. QED BY <2>0, <4>1, <4>2, RecheckGets
      <4>4. QED BY <3>2, <3>4, <4>3 DEF LockOKIn, GetsEffect
    <3>5. CASE f.lock = l /\ f.how = "write"
      <4>1. D2[l] = Granted("write", Counted("write", D[l], -1))
            /\ ~Blocked("write", Counted("write", D[l], -1))
        BY <1>0, <3>1, <3>5
      <4>2. t \in Ww /\ p \notin Hw BY <3>2, <3>5 DEF GetsEffect
      <4>3. LockOK(D2[l], Hr, Plus(Hw, p), Wr, Minus(Ww, t), Ar, Aw, Minus(Kw, t))
        <5> HIDE DEF Hr, Hw, Wr, Ww, Ar, Aw, Kw
        <5>1. QED BY <2>0, <4>1, <4>2, RecheckGets
      <4>4. QED BY <3>2, <3>5, <4>3 DEF LockOKIn, GetsEffect
    <3>6. QED BY <1>2, <3>3, <3>4, <3>5
  <2>3. QED BY <2>1, <2>2
<1>4. D2 \in [Locks -> Rec]
  <2>1. DOMAIN D2 = Locks /\ D2 = [l \in DOMAIN D2 |-> D2[l]] BY <1>0
  <2>2. \A l \in Locks : D2[l] \in Rec BY <1>3 DEF LockOKIn, LockOK
  <2>3. QED BY <2>1, <2>2
<1>5. QED BY <1>1, <1>3, <1>4 DEF LocksOK

\* The end of a script leaves all locks right.
LEMMA LeaveKeepsLocks ==
    ASSUME NEW P, NEW F, NEW D, LocksOK(P, F, D), NEW P2, NEW F2, NEW t, NEW N,
           Leaves(P, F, P2, F2, t, N), NEW f, f = F[t][Len(F[t])],
           N = Notified(Released(D[f.lock])),
           NEW D2, D2 = [D EXCEPT ![f.lock] = Released(D[f.lock])]
    PROVE  LocksOK(P2, F2, D2)
<1>0. FramesOK(P, F) /\ D \in [Locks -> Rec] /\ \A l \in Locks : LockOKIn(D[l], P, F, l)
  BY DEF LocksOK
<1>1. FramesOK(P2, F2) BY HasLeft
<1>2. f.lock \in Locks /\ f.how \in {"read", "write"}
  <2>1. t \in Threads /\ Len(F[t]) \in 1 .. Len(F[t])
    BY <1>0, StackFacts, EmptySeq DEF Leaves
  <2>2. QED BY <1>0, <2>1, StackFacts DEF Frame, Hows
<1>3. ASSUME NEW l \in Locks PROVE LockOKIn(D2[l], P2, F2, l)
  <2> DEFINE Hr == HoldersIn(P, F, l, "read")
             Hw == HoldersIn(P, F, l, "write")
             Wr == QueueIn(P, F, {"asleep", "woken"}, l, "read")
             Ww == QueueIn(P, F, {"asleep", "woken"}, l, "write")
             Ar == QueueIn(P, F, {"asleep"}, l, "read")
             Aw == QueueIn(P, F, {"asleep"}, l, "write")
             Kw == QueueIn(P, F, {"woken"}, l, "write")
             p == <<t, Len(F[t])>>
  <2>0. LockOK(D[l], Hr, Hw, Wr, Ww, Ar, Aw, Kw) BY <1>0 DEF LockOKIn
  <2>1. LeavesEffect(P, F, P2, F2, p, f, N, l, "read") /\ LeavesEffect(P, F, P2, F2, p, f, N, l, "write")
    BY LetsGo
  <2>2. CASE f.lock # l
    BY <1>0, <1>2, <2>0, <2>1, <2>2 DEF LockOKIn, LeavesEffect
  <2>3. CASE f.lock = l
    <3>1. D2[l] = Released(D[l]) /\ N = Notified(Released(D[l])) BY <1>0, <2>3
    <3>2. p \in Hr \cup Hw BY <1>2, <2>1, <2>3 DEF LeavesEffect
    <3>3. Ar \subseteq Wr /\ Aw \subseteq Ww BY DEF QueueIn
    <3>4. LockOK(D2[l], Minus(Hr, p), Minus(Hw, p), Wr, Ww,
                 Unless(N, "read", Ar), Unless(N, "write", Aw), AlsoIf(N, "write", Aw, Kw))
      <4> HIDE DEF Hr, Hw, Wr, Ww, Ar, Aw, Kw, p
      <4>1. QED BY <2>0, <3>1, <3>2, <3>3, HolderReleases
    <3>5. QED BY <2>1, <2>3, <3>4 DEF LockOKIn, LeavesEffect
  <2>4. QED BY <2>2, <2>3
<1>4. D2 \in [Locks -> Rec]
  <2>1. DOMAIN D2 = Locks /\ D2 = [l \in DOMAIN D2 |-> D2[l]] BY <1>0
  <2>2. \A l \in Locks : D2[l] \in Rec BY <1>3 DEF LockOKIn, LockOK
  <2>3. QED BY <2>1, <2>2
<1>5. QED BY <1>1, <1>3, <1>4 DEF LocksOK

\* A spurious wake leaves all locks right.
LEMMA WakeKeepsLocks ==
    ASSUME NEW P, NEW F, NEW D, LocksOK(P, F, D), NEW P2, NEW t, WakesUp(P, F, P2, t)
    PROVE  LocksOK(P2, F, D)
<1>0. FramesOK(P, F) /\ D \in [Locks -> Rec] /\ \A l \in Locks : LockOKIn(D[l], P, F, l)
  BY DEF LocksOK
<1>1. FramesOK(P2, F) /\ \A l, h : WakesEffect(P, F, P2, l, h) BY HasWoken
<1>2. ASSUME NEW l \in Locks PROVE LockOKIn(D[l], P2, F, l)
  <2>1. WakesEffect(P, F, P2, l, "read") /\ WakesEffect(P, F, P2, l, "write") BY <1>1
  <2>2. QED BY <1>0, <2>1 DEF LockOKIn, LockOK, WakesEffect
<1>3. QED BY <1>0, <1>1, <1>2 DEF LocksOK

-----------------------------------------------------------------------------
(* The same sets by the names the properties use.                            *)
LEMMA HoldersAreHoldersIn ==
    ASSUME FramesOK(pc, frames), NEW l, NEW h
    PROVE  Holders(l, h) = HoldersIn(pc, frames, l, h)
<1>1. ASSUME NEW t \in Threads
      PROVE  /\ DOMAIN Holding(t) = 1 .. Depth(pc, frames, t)
             /\ \A n \in 1 .. Depth(pc, frames, t) : Holding(t)[n] = frames[t][n]
  <2>1. /\ frames[t] \in Seq(Frame) /\ Len(frames[t]) \in Nat
        /\ \A i \in 1 .. Len(frames[t]) : frames[t][i] \in Frame
        /\ pc[t] # "run" => Len(frames[t]) > 0
    BY StackFacts
  <2>2. CASE pc[t] = "run" BY <2>1, <2>2, LenProperties DEF Holding, Depth
  <2>3. CASE pc[t] # "run"
    <3>1. /\ Front(frames[t]) \in Seq(Frame) /\ Len(Front(frames[t])) = Len(frames[t]) - 1
          /\ \A i \in 1 .. Len(frames[t]) - 1 : Front(frames[t])[i] = frames[t][i]
      BY <2>1, <2>3, SubSeqProperties DEF Front
    <3>2. QED BY <2>3, <3>1, LenProperties DEF Holding, Depth
  <2>4. QED BY <2>2, <2>3
<1>2. ASSUME NEW p \in Threads \X (1 .. MaxFrames)
      PROVE  p \in Holders(l, h) <=> p \in HoldersIn(pc, frames, l, h)
  <2>1. p[1] \in Threads /\ p[2] \in 1 .. MaxFrames OBVIOUS
  <2>2. p[2] \in DOMAIN Holding(p[1]) <=> p[2] <= Depth(pc, frames, p[1])
    BY <1>1, <2>1, StackFacts, DocLocksAssumption
  <2>3. p[2] <= Depth(pc, frames, p[1]) => Holding(p[1])[p[2]] = frames[p[1]][p[2]]
    BY <1>1, <2>1, StackFacts, DocLocksAssumption
  <2>4. QED BY <2>2, <2>3 DEF Holders, HoldersIn
<1>3. QED BY <1>2 DEF Holders, HoldersIn

(* So every lock is held by many readers or by one writer, and counts them.   *)
LEMMA LocksExclude == TypeOK /\ LocksOK(pc, frames, dl) => LockExclusion
<1> SUFFICES ASSUME LocksOK(pc, frames, dl), NEW l \in Locks
             PROVE  IF Holders(l, "write") = {} THEN dl[l].lrcnt = Cardinality(Holders(l, "read"))
                    ELSE /\ Cardinality(Holders(l, "write")) = 1
                         /\ Holders(l, "read") = {}
                         /\ dl[l].lrcnt = -1
  BY DEF LockExclusion
<1>1. FramesOK(pc, frames) /\ LockOKIn(dl[l], pc, frames, l) BY DEF LocksOK
<1>2. \A h : Holders(l, h) = HoldersIn(pc, frames, l, h) BY <1>1, HoldersAreHoldersIn
<1>3. QED BY <1>1, <1>2 DEF LockOKIn, LockOK

(* While all threads sleep, nobody holds a lock unless scripts nest, and then  *)
(* there is no one left to wake them.                                         *)
LEMMA AllAsleep == TypeOK /\ LocksOK(pc, frames, dl) => DeadlockOnlyByNesting
<1> SUFFICES ASSUME LocksOK(pc, frames, dl), \A t \in Threads : pc[t] = "asleep",
                    \A t \in Threads : ~(Len(frames[t]) > 1)
             PROVE  FALSE
  BY DEF DeadlockOnlyByNesting
<1>1. FramesOK(pc, frames) /\ \A l \in Locks : LockOKIn(dl[l], pc, frames, l) BY DEF LocksOK
<1>2. PICK t \in Threads : TRUE BY DocLocksAssumption
<1>3. ASSUME NEW u \in Threads PROVE Depth(pc, frames, u) = 0
  <2>1. /\ Len(frames[u]) \in Nat /\ pc[u] = "asleep" /\ ~(Len(frames[u]) > 1)
        /\ pc[u] # "run" => Len(frames[u]) > 0
    BY <1>1, StackFacts
  <2> DEFINE n == Len(frames[u])
  <2>2. pc[u] # "run" /\ n \in Nat /\ n > 0 /\ ~(n > 1) BY <2>1
  <2>3. Depth(pc, frames, u) = n - 1 BY <2>2 DEF Depth
  <2> HIDE DEF n
  <2>4. QED BY <2>2, <2>3
<1>4. \A l, h : HoldersIn(pc, frames, l, h) = {}
  BY <1>3, DocLocksAssumption DEF HoldersIn
<1>5. \A l, h : QueueIn(pc, frames, {"woken"}, l, h) = {} BY DEF QueueIn
<1>6. \A l, h : QueueIn(pc, frames, {"asleep", "woken"}, l, h) = QueueIn(pc, frames, {"asleep"}, l, h)
  BY DEF QueueIn
<1> DEFINE f == frames[t][Len(frames[t])]
<1>7. f \in Frame /\ Len(frames[t]) \in 1 .. Len(frames[t]) BY <1>1, StackFacts
<1>8. t \in QueueIn(pc, frames, {"asleep"}, f.lock, f.how) BY DEF QueueIn
<1>9. f.lock \in Locks /\ f.how \in {"read", "write"} BY <1>7 DEF Frame, Hows
<1> HIDE DEF f
<1>10. LockOKIn(dl[f.lock], pc, frames, f.lock) BY <1>1, <1>9
<1>11. QED BY <1>4, <1>5, <1>6, <1>8, <1>9, <1>10 DEF LockOKIn, LockOK

-----------------------------------------------------------------------------
\* Nothing is held, attached or waited for at the start.
LEMMA InitInv == Init => Inv
<1> SUFFICES ASSUME Init PROVE Inv OBVIOUS
<1>1. <<>> \in Seq(Locks) /\ <<>> \in Seq(Frame) /\ ToSet(<<>>) = {} /\ IsInjective(<<>>)
  <2>1. <<>> \in Seq(Locks) /\ <<>> \in Seq(Frame) BY EmptySeq
  <2>2. DOMAIN <<>> = {} OBVIOUS
  <2>3. QED BY <2>1, <2>2 DEF ToSet, IsInjective
<1>2. TypeOK
  <2>1. crashed \in BOOLEAN /\ shared \subseteq Docs /\ raced \subseteq Docs BY DEF Init
  <2>2. /\ docLock \in [Docs -> Locks \cup {NULL}] /\ count \in [Docs -> Nat]
        /\ refs \in [Docs -> SUBSET (Threads \X Handles)]
    BY DEF Init
  <2>3. /\ subject \in [Threads -> Docs \cup {NULL}] /\ freeing \in [Threads -> Docs \cup {NULL}]
        /\ lockDoc \in [Locks -> Docs \cup {NULL}]
        /\ dl \in [Locks -> [lrcnt : Int, numrd : Nat, numwr : Nat]]
    BY DEF Init, FreshLock
  <2>4. /\ pool \in Seq(Locks) /\ frames \in [Threads -> Seq(Frame)]
        /\ pc \in [Threads -> {"run", "entering", "asleep", "woken"}]
    BY <1>1 DEF Init
  <2>5. QED BY <2>1, <2>2, <2>3, <2>4 DEF TypeOK
<1>3. LockPlacedOnce BY <1>1 DEF Init, LockPlacedOnce, Live, InUse
<1>4. ReferencesCounted /\ WaitersKeepDocument
  BY DocLocksAssumption DEF Init, ReferencesCounted, DocumentCounted, WaitersKeepDocument, Live
<1>5. FramesOK(pc, frames)
  BY <1>1, DocLocksAssumption, EmptySeq DEF Init, FramesOK
<1>6. \A t \in Threads : Depth(pc, frames, t) = 0 BY EmptySeq DEF Init, Depth
<1>7. \A l, h : HoldersIn(pc, frames, l, h) = {} BY <1>6, DocLocksAssumption DEF HoldersIn
<1>8. \A S \in {{"asleep", "woken"}, {"asleep"}, {"woken"}} : \A l, h : QueueIn(pc, frames, S, l, h) = {}
  BY DEF QueueIn, Init
<1>9. LockOK(FreshLock, {}, {}, {}, {}, {}, {}, {})
  BY FS_EmptySet DEF LockOK, FreshLock, Rec
<1>10. \A l \in Locks : LockOKIn(dl[l], pc, frames, l)
  <2>1. \A l \in Locks : dl[l] = FreshLock BY DEF Init
  <2>2. QED BY <1>7, <1>8, <1>9, <2>1 DEF LockOKIn
<1>11. LocksOK(pc, frames, dl) BY <1>2, <1>5, <1>10 DEF LocksOK, TypeOK, Rec
<1>12. QED BY <1>2, <1>3, <1>4, <1>11 DEF Inv

(* domLocksAttach takes the head of the free list, domLocksDetach puts a lock  *)
(* back in front of it.                                                       *)
LEMMA FreeListFacts ==
    ASSUME NEW S, NEW s \in Seq(S), IsInjective(s)
    PROVE  /\ s # <<>> => /\ Head(s) \in S /\ Head(s) \in ToSet(s)
                          /\ Tail(s) \in Seq(S) /\ IsInjective(Tail(s))
                          /\ ToSet(Tail(s)) \subseteq ToSet(s) \ {Head(s)}
           /\ \A l \in S : l \notin ToSet(s) =>
                 /\ <<l>> \o s \in Seq(S) /\ IsInjective(<<l>> \o s)
                 /\ ToSet(<<l>> \o s) = ToSet(s) \cup {l}
<1>1. /\ Len(s) \in Nat /\ DOMAIN s = 1 .. Len(s) /\ \A i \in 1 .. Len(s) : s[i] \in S
      /\ \A i, j \in 1 .. Len(s) : s[i] = s[j] => i = j
      /\ ToSet(s) = {s[i] : i \in 1 .. Len(s)}
  <2>1. Len(s) \in Nat /\ DOMAIN s = 1 .. Len(s) BY LenProperties
  <2>2. QED BY <2>1, ElementOfSeq DEF IsInjective, ToSet
<1>2. ASSUME s # <<>>
      PROVE  /\ Head(s) \in S /\ Head(s) \in ToSet(s)
             /\ Tail(s) \in Seq(S) /\ IsInjective(Tail(s))
             /\ ToSet(Tail(s)) \subseteq ToSet(s) \ {Head(s)}
  <2>1. /\ Head(s) = s[1] /\ Tail(s) \in Seq(S) /\ Len(Tail(s)) = Len(s) - 1
        /\ \A i \in 1 .. Len(Tail(s)) : Tail(s)[i] = s[i + 1]
    BY <1>2, HeadTailProperties
  <2>2. Len(s) >= 1 /\ DOMAIN Tail(s) = 1 .. Len(s) - 1 BY <1>1, <1>2, <2>1, EmptySeq, LenProperties
  <2>3. \A i \in 1 .. Len(s) - 1 : i + 1 \in 1 .. Len(s) /\ i + 1 # 1 /\ Tail(s)[i] = s[i + 1]
    BY <1>1, <2>1, <2>2
  <2>4. Head(s) \in S /\ Head(s) \in ToSet(s) BY <1>1, <2>1, <2>2
  <2>5. IsInjective(Tail(s))
    <3>1. ASSUME NEW i \in 1 .. Len(s) - 1, NEW j \in 1 .. Len(s) - 1, Tail(s)[i] = Tail(s)[j]
          PROVE  i = j
      BY <1>1, <2>3, <3>1
    <3>2. QED BY <2>2, <3>1 DEF IsInjective
  <2>6. ToSet(Tail(s)) \subseteq ToSet(s) \ {Head(s)}
    <3>1. ASSUME NEW i \in 1 .. Len(s) - 1
          PROVE  Tail(s)[i] \in ToSet(s) /\ Tail(s)[i] # Head(s)
      BY <1>1, <2>1, <2>2, <2>3
    <3>2. QED BY <2>2, <3>1 DEF ToSet
  <2>7. QED BY <2>1, <2>4, <2>5, <2>6
<1>3. ASSUME NEW l \in S, l \notin ToSet(s)
      PROVE  /\ <<l>> \o s \in Seq(S) /\ IsInjective(<<l>> \o s)
             /\ ToSet(<<l>> \o s) = ToSet(s) \cup {l}
  <2> DEFINE q == <<l>> \o s
  <2>1. /\ q \in Seq(S) /\ Len(q) = 1 + Len(s) /\ q[1] = l
        /\ \A i \in 2 .. Len(q) : q[i] = s[i - 1]
    <3>1. <<l>> \in Seq(S) /\ Len(<<l>>) = 1 /\ <<l>>[1] = l OBVIOUS
    <3>2. QED BY <1>1, <3>1, ConcatProperties
  <2>2. DOMAIN q = 1 .. Len(q) BY <2>1, LenProperties
  <2> HIDE DEF q
  <2>3. \A i \in 2 .. Len(q) : i - 1 \in 1 .. Len(s) /\ q[i] = s[i - 1] BY <1>1, <2>1
  <2>4. \A i \in 1 .. Len(s) : s[i] # l BY <1>1, <1>3
  <2>5. ASSUME NEW i \in 1 .. Len(q), NEW j \in 1 .. Len(q), q[i] = q[j] PROVE i = j
    <3>1. CASE i = 1 /\ j # 1
      <4>1. j \in 2 .. Len(q) BY <1>1, <2>1, <3>1
      <4>2. QED BY <2>1, <2>3, <2>4, <2>5, <3>1, <4>1
    <3>2. CASE i # 1 /\ j = 1
      <4>1. i \in 2 .. Len(q) BY <1>1, <2>1, <3>2
      <4>2. QED BY <2>1, <2>3, <2>4, <2>5, <3>2, <4>1
    <3>3. CASE i # 1 /\ j # 1
      <4>1. i \in 2 .. Len(q) /\ j \in 2 .. Len(q) BY <1>1, <2>1, <3>3
      <4>2. i - 1 = j - 1 BY <1>1, <2>3, <2>5, <4>1
      <4>3. QED BY <1>1, <2>1, <4>2
    <3>4. QED BY <3>1, <3>2, <3>3
  <2>6. ToSet(q) = ToSet(s) \cup {l}
    <3>1. \A i \in 1 .. Len(q) : q[i] \in ToSet(s) \cup {l}
      <4>1. ASSUME NEW i \in 1 .. Len(q), i # 1 PROVE q[i] \in ToSet(s)
        <5>1. i \in 2 .. Len(q) BY <1>1, <2>1, <4>1
        <5>2. QED BY <1>1, <2>3, <5>1
      <4>2. QED BY <2>1, <4>1
    <3>2. ASSUME NEW i \in 1 .. Len(s) PROVE i + 1 \in 1 .. Len(q) /\ q[i + 1] = s[i]
      <4>1. i + 1 \in 2 .. Len(q) /\ i + 1 - 1 = i BY <1>1, <2>1
      <4>2. QED BY <2>3, <4>1
    <3>3. 1 \in 1 .. Len(q) BY <1>1, <2>1
    <3>4. ToSet(q) = {q[i] : i \in 1 .. Len(q)} BY <2>2 DEF ToSet
    <3>5. ToSet(q) \subseteq ToSet(s) \cup {l} BY <3>1, <3>4
    <3>6. ASSUME NEW x \in ToSet(s) PROVE x \in ToSet(q)
      <4>1. PICK i \in 1 .. Len(s) : x = s[i] BY <1>1
      <4>2. QED BY <3>2, <3>4, <4>1
    <3>7. l \in ToSet(q) BY <2>1, <3>3, <3>4
    <3>8. QED BY <3>5, <3>6, <3>7
  <2>7. QED BY <2>1, <2>2, <2>5, <2>6 DEF q, IsInjective
<1>4. QED BY <1>2, <1>3

\* The documents' part of the types; the threads' part is in LocksOK.
DocsTyped ==
    /\ docLock \in [Docs -> Locks \cup {NULL}]
    /\ shared \subseteq Docs /\ raced \subseteq Docs /\ crashed \in BOOLEAN
    /\ count \in [Docs -> Nat]
    /\ refs \in [Docs -> SUBSET (Threads \X Handles)]
    /\ subject \in [Threads -> Docs \cup {NULL}] /\ freeing \in [Threads -> Docs \cup {NULL}]
    /\ lockDoc \in [Locks -> Docs \cup {NULL}] /\ pool \in Seq(Locks)

\* What Inv says of the documents.
DocsGood == DocsTyped /\ LockPlacedOnce /\ ReferencesCounted /\ WaitersKeepDocument

\* The types of the two halves make up TypeOK.
LEMMA Halves ==
    /\ Inv => DocsGood /\ LocksOK(pc, frames, dl)
    /\ DocsGood' /\ LocksOK(pc', frames', dl') => Inv'
<1>1. Inv => DocsGood /\ LocksOK(pc, frames, dl) BY DEF Inv, TypeOK, DocsGood, DocsTyped
<1>2. ASSUME DocsGood', LocksOK(pc', frames', dl') PROVE Inv'
  <2>1. TypeOK' BY <1>2 DEF DocsGood, DocsTyped, LocksOK, FramesOK, TypeOK, Rec
  <2>2. LocksOK(pc, frames, dl)' BY <1>2
  <2>3. QED BY <1>2, <2>1, <2>2 DEF DocsGood, Inv
<1>3. QED BY <1>1, <1>2

\* References are finite in number.
LEMMA ReferencesFinite ==
    ASSUME DocsTyped, NEW d \in Docs
    PROVE  refs[d] \subseteq Threads \X Handles /\ IsFiniteSet(refs[d])
<1>1. IsFiniteSet(Threads \X Handles) BY DocLocksAssumption, FS_Product
<1>2. refs[d] \subseteq Threads \X Handles BY DEF DocsTyped
<1>3. QED BY <1>1, <1>2, FS_Subset

\* A document that a step leaves alone is counted as before.
LEMMA Elsewhere ==
    ASSUME NEW e \in Docs, DocumentCounted(e),
           e \in shared' <=> e \in shared, refs'[e] = refs[e], count'[e] = count[e],
           e \in Live' <=> e \in Live, \A u \in Threads : freeing'[u] = e <=> freeing[u] = e
    PROVE  DocumentCounted(e)'
BY DEF DocumentCounted

\* What it means for a document that nobody raced for to be in the table or freed.
LEMMA Unraced ==
    ASSUME DocsGood, NEW d \in Docs, d \notin raced
    PROVE  /\ DocumentCounted(d)
           /\ d \in shared => d \in Live /\ refs[d] # {} /\ \A t \in Threads : freeing[t] # d
           /\ \A t \in Threads : Refers(t, d) => d \in shared
           /\ \A t \in Threads : freeing[t] = d => d \in Live
<1>1. DocumentCounted(d) BY DEF DocsGood, ReferencesCounted
<1>2. QED BY <1>1 DEF DocumentCounted, Refers

(* Waiters keep their document if its lock, their subject and their references *)
(* stay, or they lose the references.                                         *)
LEMMA WaitersStay ==
    ASSUME DocsGood, UNCHANGED <<frames, pc>>, raced \subseteq raced',
           \A u \in Threads : pc[u] # "run" =>
              /\ subject'[u] = subject[u]
              /\ \A h \in Handles : <<u, h>> \in refs'[subject[u]] /\ subject[u] \notin raced' =>
                    <<u, h>> \in refs[subject[u]] /\ docLock'[subject[u]] = docLock[subject[u]]
    PROVE  WaitersKeepDocument'
<1>1. \A u \in Threads : Top(u)' = Top(u) BY DEF Top
<1>2. ASSUME NEW u \in Threads, pc'[u] # "run"
      PROVE  /\ subject'[u] \in Docs
             /\ subject'[u] \notin raced' /\ (\E h \in Handles : <<u, h>> \in refs'[subject'[u]]) =>
                   docLock'[subject'[u]] = Top(u).lock
  BY <1>2 DEF DocsGood, WaitersKeepDocument, Refers
<1>3. QED BY <1>1, <1>2 DEF WaitersKeepDocument, Refers

\* A new document and its lock, recycled or fresh, belong to each other only.
LEMMA CreatePlaces ==
    ASSUME DocsGood, NEW t \in Threads, NEW d \in Docs, CreateDoc(t, d)
    PROVE  /\ docLock' \in [Docs -> Locks \cup {NULL}] /\ lockDoc' \in [Locks -> Docs \cup {NULL}]
           /\ pool' \in Seq(Locks) /\ LockPlacedOnce'
           /\ Live' = Live \cup {d} /\ \A e \in Docs : e # d => docLock'[e] = docLock[e]
<1>0. /\ docLock \in [Docs -> Locks \cup {NULL}]
      /\ lockDoc \in [Locks -> Docs \cup {NULL}] /\ pool \in Seq(Locks)
      /\ NULL \notin Docs /\ NULL \notin Locks /\ docLock[d] = NULL
  BY DocLocksAssumption DEF DocsGood, DocsTyped, CreateDoc, Live
<1>1. PICK l \in Locks : /\ IF pool = <<>> THEN l \notin InUse ELSE l = Head(pool)
                         /\ lockDoc' = [lockDoc EXCEPT ![l] = d]
                         /\ docLock' = [docLock EXCEPT ![d] = l]
  BY DEF CreateDoc
<1>2. IsInjective(pool) /\ ToSet(pool) \cap InUse = {} BY DEF DocsGood, LockPlacedOnce
<1>3. /\ l \notin InUse /\ pool' \in Seq(Locks) /\ IsInjective(pool')
      /\ ToSet(pool') \subseteq ToSet(pool) \ {l}
  <2>1. CASE pool = <<>>
    <3>1. ToSet(pool) = {} BY <2>1 DEF ToSet
    <3>2. pool' = pool BY <2>1 DEF CreateDoc
    <3>3. QED BY <1>0, <1>1, <1>2, <2>1, <3>1, <3>2
  <2>2. CASE pool # <<>>
    <3>1. pool' = Tail(pool) BY <2>2 DEF CreateDoc
    <3>2. QED BY <1>0, <1>1, <1>2, <2>2, <3>1, FreeListFacts
  <2>3. QED BY <2>1, <2>2
<1>5. /\ Live' = Live \cup {d} /\ d \notin Live /\ InUse' = InUse \cup {l}
      /\ \A e \in Live : docLock[e] \in Locks /\ lockDoc[docLock[e]] = e
      /\ \A k \in InUse : lockDoc[k] \in Docs /\ docLock[lockDoc[k]] = k
  BY <1>0, <1>1 DEF Live, InUse, DocsGood, LockPlacedOnce
<1>6. ASSUME NEW e \in Live' PROVE lockDoc'[docLock'[e]] = e
  <2>1. CASE e = d BY <1>0, <1>1, <2>1
  <2>2. CASE e # d
    <3>1. e \in Live /\ docLock'[e] = docLock[e] BY <1>0, <1>1, <1>5, <2>2
    <3>2. docLock[e] \in InUse BY <1>0, <1>5, <3>1 DEF InUse, Live
    <3>3. QED BY <1>0, <1>1, <1>3, <1>5, <3>1, <3>2
  <2>3. QED BY <2>1, <2>2
<1>7. ASSUME NEW k \in InUse' PROVE docLock'[lockDoc'[k]] = k
  <2>1. CASE k = l BY <1>0, <1>1, <2>1
  <2>2. CASE k # l
    <3>1. k \in InUse /\ k \in Locks /\ lockDoc'[k] = lockDoc[k] BY <1>0, <1>1, <1>5, <2>2 DEF InUse
    <3>2. lockDoc[k] # d BY <1>0, <1>5, <3>1
    <3>3. QED BY <1>0, <1>1, <1>5, <3>1, <3>2
  <2>3. QED BY <2>1, <2>2
<1>8. LockPlacedOnce' BY <1>2, <1>3, <1>5, <1>6, <1>7 DEF LockPlacedOnce
<1>9. QED BY <1>0, <1>1, <1>3, <1>5, <1>8

\* A freed document's lock waits in front of the free list and is nobody's.
LEMMA FreePlaces ==
    ASSUME DocsGood, NEW t \in Threads, NEW d \in Docs, Free(t, d), d \in Live
    PROVE  /\ docLock' \in [Docs -> Locks \cup {NULL}] /\ lockDoc' \in [Locks -> Docs \cup {NULL}]
           /\ pool' \in Seq(Locks) /\ LockPlacedOnce'
           /\ Live' = Live \ {d} /\ \A e \in Docs : e # d => docLock'[e] = docLock[e]
<1> DEFINE l == docLock[d]
<1>0. /\ docLock \in [Docs -> Locks \cup {NULL}]
      /\ lockDoc \in [Locks -> Docs \cup {NULL}] /\ pool \in Seq(Locks)
      /\ NULL \notin Docs /\ NULL \notin Locks
  BY DocLocksAssumption DEF DocsGood, DocsTyped
<1>1. /\ docLock' = [docLock EXCEPT ![d] = NULL] /\ lockDoc' = [lockDoc EXCEPT ![l] = NULL]
      /\ pool' = <<l>> \o pool
  BY DEF Free
<1>2. /\ \A e \in Live : docLock[e] \in Locks /\ lockDoc[docLock[e]] = e
      /\ \A k \in InUse : lockDoc[k] \in Docs /\ docLock[lockDoc[k]] = k
      /\ IsInjective(pool) /\ ToSet(pool) \cap InUse = {}
  BY <1>0 DEF Live, InUse, DocsGood, LockPlacedOnce
<1>3. l \in Locks /\ l \in InUse /\ lockDoc[l] = d BY <1>0, <1>2 DEF InUse
<1>4. pool' \in Seq(Locks) /\ IsInjective(pool') /\ ToSet(pool') = ToSet(pool) \cup {l}
  BY <1>0, <1>1, <1>2, <1>3, FreeListFacts
<1>5. \A k \in InUse : k # l => lockDoc[k] # d BY <1>2
<1> HIDE DEF l
<1>6. Live' = Live \ {d} /\ InUse' = InUse \ {l} BY <1>0, <1>1 DEF Live, InUse
<1>7. ASSUME NEW e \in Live' PROVE lockDoc'[docLock'[e]] = e
  <2>1. e \in Live /\ e # d /\ e \in Docs /\ docLock'[e] = docLock[e]
    BY <1>0, <1>1, <1>6 DEF Live
  <2>2. docLock[e] # l BY <1>2, <1>3, <2>1
  <2>3. QED BY <1>0, <1>1, <1>2, <2>1, <2>2
<1>8. ASSUME NEW k \in InUse' PROVE docLock'[lockDoc'[k]] = k
  <2>1. k \in InUse /\ k # l /\ k \in Locks /\ lockDoc'[k] = lockDoc[k]
    BY <1>0, <1>1, <1>6 DEF InUse
  <2>2. lockDoc[k] # d BY <1>5, <2>1
  <2>3. QED BY <1>0, <1>1, <1>2, <2>1, <2>2
<1>9. LockPlacedOnce' BY <1>2, <1>4, <1>6, <1>7, <1>8 DEF LockPlacedOnce
<1>10. QED BY <1>0, <1>1, <1>3, <1>4, <1>6, <1>9

-----------------------------------------------------------------------------
\* A new document has the one reference of the thread that created it.
LEMMA CreateKeepsDocs ==
    ASSUME DocsGood, NEW t \in Threads, NEW d \in Docs, CreateDoc(t, d)
    PROVE  DocsGood'
<1>1. PICK h \in Handles : refs' = [refs EXCEPT ![d] = {<<t, h>>}] BY DEF CreateDoc
<1>2. /\ pc[t] = "run" /\ d \notin Live
      /\ shared' = shared \cup {d} /\ count' = [count EXCEPT ![d] = 1]
      /\ UNCHANGED <<subject, freeing, dl, frames, pc, raced, crashed>>
  BY DEF CreateDoc, Idle
<1>3. /\ refs \in [Docs -> SUBSET (Threads \X Handles)] /\ count \in [Docs -> Nat]
      /\ DocsTyped
  BY DEF DocsGood, DocsTyped
<1>4. /\ docLock' \in [Docs -> Locks \cup {NULL}] /\ lockDoc' \in [Locks -> Docs \cup {NULL}]
      /\ pool' \in Seq(Locks) /\ LockPlacedOnce'
      /\ Live' = Live \cup {d} /\ \A e \in Docs : e # d => docLock'[e] = docLock[e]
  BY CreatePlaces
<1>5. DocsTyped' BY <1>1, <1>2, <1>3, <1>4 DEF DocsTyped
<1>6. ASSUME NEW e \in Docs \ raced PROVE DocumentCounted(e)'
  <2>1. CASE e # d
    <3>1. DocumentCounted(e) BY Unraced
    <3>2. QED BY <1>1, <1>2, <1>3, <1>4, <2>1, <3>1, Elsewhere
  <2>2. CASE e = d
    <3>1. \A u \in Threads : freeing[u] # d BY <1>2, <2>2, Unraced
    <3>2. refs'[d] = {<<t, h>>} /\ count'[d] = 1 /\ d \in shared' /\ d \in Live'
      BY <1>1, <1>2, <1>3, <1>4
    <3>3. Cardinality({<<t, h>>}) = 1 BY FS_Singleton
    <3>4. QED BY <1>2, <2>2, <3>1, <3>2, <3>3 DEF DocumentCounted
  <2>3. QED BY <2>1, <2>2
<1>7. ReferencesCounted' BY <1>2, <1>6 DEF DocsGood, ReferencesCounted
<1>8. ASSUME NEW u \in Threads, pc[u] # "run", NEW k \in Handles, <<u, k>> \in refs'[subject[u]]
      PROVE  <<u, k>> \in refs[subject[u]] /\ docLock'[subject[u]] = docLock[subject[u]]
  <2>1. subject[u] \in Docs /\ u # t BY <1>2, <1>8 DEF DocsGood, WaitersKeepDocument
  <2>2. subject[u] # d BY <1>1, <1>3, <1>8, <2>1
  <2>3. QED BY <1>1, <1>3, <1>4, <1>8, <2>1, <2>2
<1>9. WaitersKeepDocument' BY <1>2, <1>8, WaitersStay
<1>10. QED BY <1>4, <1>5, <1>7, <1>9 DEF DocsGood

\* Finding a name in the table changes nothing.
LEMMA CheckKeepsDocs ==
    ASSUME DocsGood, NEW t \in Threads, NEW d \in Docs, Check(t, d)
    PROVE  DocsGood'
<1>1. /\ pc[t] = "run" /\ subject' = [subject EXCEPT ![t] = d]
      /\ UNCHANGED <<docLock, shared, count, refs, freeing, lockDoc, pool, frames, pc, raced, crashed>>
  BY DEF Check, Idle
<1>2. DocsTyped' BY <1>1 DEF DocsGood, DocsTyped
<1>3. LockPlacedOnce' BY <1>1 DEF DocsGood, LockPlacedOnce, Live, InUse
<1>4. ReferencesCounted' BY <1>1 DEF DocsGood, ReferencesCounted, DocumentCounted, Live
<1>5. \A u \in Threads : pc[u] # "run" => subject'[u] = subject[u] BY <1>1 DEF DocsGood, DocsTyped
<1>6. WaitersKeepDocument' BY <1>1, <1>5, WaitersStay
<1>7. QED BY <1>2, <1>3, <1>4, <1>6 DEF DocsGood

\* A further reference to a shared document is counted.
LEMMA AttachKeepsDocs ==
    ASSUME DocsGood, NEW t \in Threads, NEW d \in Docs, NEW h \in Handles, AttachDocument(t, d, h)
    PROVE  DocsGood'
<1>1. /\ pc[t] = "run" /\ <<t, h>> \notin refs[d]
      /\ subject' = [subject EXCEPT ![t] = NULL]
      /\ raced' = IF d \in shared THEN raced ELSE raced \cup {d}
      /\ UNCHANGED <<docLock, freeing, lockDoc, pool, dl, frames, pc>>
  BY DEF AttachDocument, Acts
<1>2. /\ refs \in [Docs -> SUBSET (Threads \X Handles)] /\ count \in [Docs -> Nat]
      /\ subject \in [Threads -> Docs \cup {NULL}] /\ shared \subseteq Docs /\ raced \subseteq Docs
      /\ DocsTyped
  BY DEF DocsGood, DocsTyped
<1>3. \A u \in Threads : pc[u] # "run" => subject'[u] = subject[u] BY <1>1, <1>2
<1>4. LockPlacedOnce' /\ Live' = Live BY <1>1 DEF DocsGood, LockPlacedOnce, Live, InUse
<1>5. raced \subseteq raced' /\ raced' \subseteq Docs /\ (d \notin raced' => d \in shared)
  BY <1>1, <1>2
<1>6. CASE d \in Live
  <2>1. /\ count' = [count EXCEPT ![d] = count[d] + 1] /\ shared' = shared \cup {d}
        /\ refs' = [refs EXCEPT ![d] = refs[d] \cup {<<t, h>>}] /\ crashed' = crashed
    BY <1>6 DEF AttachDocument
  <2>2. DocsTyped' BY <1>1, <1>2, <1>5, <2>1 DEF DocsTyped
  <2>3. ASSUME NEW e \in Docs \ raced' PROVE DocumentCounted(e)'
    <3>1. DocumentCounted(e) BY <1>5, Unraced
    <3>2. CASE e # d BY <1>1, <1>2, <1>4, <2>1, <3>1, <3>2, Elsewhere
    <3>3. CASE e = d
      <4>1. d \in shared /\ d \notin raced BY <1>5, <3>3
      <4>2. count[d] = Cardinality(refs[d]) /\ \A u \in Threads : freeing[u] # d
        BY <3>1, <3>3, <4>1, Unraced DEF DocumentCounted
      <4>3. Cardinality(refs[d] \cup {<<t, h>>}) = Cardinality(refs[d]) + 1
        BY <1>1, <1>2, ReferencesFinite, CardAddRemove
      <4>4. /\ refs'[d] = refs[d] \cup {<<t, h>>} /\ count'[d] = count[d] + 1
            /\ d \in shared' /\ d \in Live' /\ refs'[d] # {}
        BY <1>2, <1>4, <1>6, <2>1
      <4>5. QED BY <1>1, <3>3, <4>2, <4>3, <4>4 DEF DocumentCounted
    <3>4. QED BY <3>2, <3>3
  <2>4. ReferencesCounted' BY <1>5, <2>1, <2>3 DEF DocsGood, ReferencesCounted
  <2>5. ASSUME NEW u \in Threads, pc[u] # "run", NEW k \in Handles, <<u, k>> \in refs'[subject[u]]
        PROVE  <<u, k>> \in refs[subject[u]]
    <3>1. subject[u] \in Docs /\ u # t BY <1>1, <2>5 DEF DocsGood, WaitersKeepDocument
    <3>2. QED BY <1>2, <2>1, <2>5, <3>1
  <2>6. WaitersKeepDocument' BY <1>1, <1>3, <1>5, <2>5, WaitersStay
  <2>7. QED BY <1>4, <2>2, <2>4, <2>6 DEF DocsGood
<1>7. CASE d \notin Live
  <2>1. crashed' = TRUE /\ UNCHANGED <<shared, count, refs>> BY <1>7 DEF AttachDocument
  <2>2. DocsTyped' BY <1>1, <1>2, <1>5, <2>1 DEF DocsTyped
  <2>3. \A e \in Docs \ raced' : DocumentCounted(e)'
    BY <1>1, <1>4, <1>5, <2>1, Unraced, Elsewhere
  <2>4. raced' # {} BY <1>1, <1>5, <1>7, Unraced
  <2>5. ReferencesCounted' BY <2>3, <2>4 DEF ReferencesCounted
  <2>6. WaitersKeepDocument' BY <1>1, <1>3, <1>5, <2>1, WaitersStay
  <2>7. QED BY <1>4, <2>2, <2>5, <2>6 DEF DocsGood
<1>8. QED BY <1>6, <1>7

\* A reference given back is counted off; the last one leaves the document to t to free.
LEMMA DeleteKeepsDocs ==
    ASSUME DocsGood, NEW t \in Threads, NEW d \in Docs, DeleteDoc(t, d)
    PROVE  DocsGood'
<1>1. /\ pc[t] = "run" /\ freeing[t] = NULL
      /\ subject' = [subject EXCEPT ![t] = NULL] /\ crashed' = (d \notin Live)
      /\ UNCHANGED <<docLock, lockDoc, pool, dl, frames, pc>>
  BY DEF DeleteDoc, Acts
<1>2. /\ refs \in [Docs -> SUBSET (Threads \X Handles)] /\ count \in [Docs -> Nat]
      /\ subject \in [Threads -> Docs \cup {NULL}] /\ freeing \in [Threads -> Docs \cup {NULL}]
      /\ shared \subseteq Docs /\ raced \subseteq Docs /\ DocsTyped /\ NULL \notin Docs
  BY DocLocksAssumption DEF DocsGood, DocsTyped
<1>3. \/ /\ Refers(t, d) /\ raced' = raced
         /\ \E h \in Handles : <<t, h>> \in refs[d] /\ refs' = [refs EXCEPT ![d] = refs[d] \ {<<t, h>>}]
      \/ ~Refers(t, d) /\ raced' = raced \cup {d} /\ refs' = refs
  BY DEF DeleteDoc
<1>4. \/ /\ d \in Live /\ count[d] > 1
         /\ count' = [count EXCEPT ![d] = count[d] - 1] /\ UNCHANGED <<shared, freeing>>
      \/ /\ ~(d \in Live /\ count[d] > 1)
         /\ shared' = shared \ {d} /\ count' = count
         /\ freeing' = IF d \in Live \cap shared THEN [freeing EXCEPT ![t] = d] ELSE freeing
  BY DEF DeleteDoc
<1>5. LockPlacedOnce' /\ Live' = Live BY <1>1 DEF DocsGood, LockPlacedOnce, Live, InUse
<1>6. /\ raced \subseteq raced' /\ raced' \subseteq Docs
      /\ \A e \in Docs : refs'[e] \subseteq refs[e] /\ (e # d => refs'[e] = refs[e])
      /\ refs' \in [Docs -> SUBSET (Threads \X Handles)]
  BY <1>2, <1>3
<1>7. count' \in [Docs -> Nat] /\ \A e \in Docs : e # d => count'[e] = count[e] BY <1>2, <1>4
<1>8. /\ freeing' \in [Threads -> Docs \cup {NULL}] /\ shared' \subseteq Docs
      /\ \A e \in Docs : e # d => /\ e \in shared' <=> e \in shared
                                /\ \A u \in Threads : freeing'[u] = e <=> freeing[u] = e
  BY <1>1, <1>2, <1>4
<1>9. DocsTyped' BY <1>1, <1>2, <1>6, <1>7, <1>8 DEF DocsTyped
<1>10. ASSUME NEW e \in Docs \ raced' PROVE DocumentCounted(e)'
  <2>1. DocumentCounted(e) /\ e \notin raced BY <1>6, <1>10, Unraced
  <2>2. CASE e # d BY <1>5, <1>6, <1>7, <1>8, <2>1, <2>2, Elsewhere
  <2>3. CASE e = d
    <3>1. PICK h \in Handles : <<t, h>> \in refs[d] /\ refs' = [refs EXCEPT ![d] = refs[d] \ {<<t, h>>}]
      BY <1>3, <2>3
    <3>2. /\ d \in shared /\ d \in Live /\ count[d] = Cardinality(refs[d])
          /\ \A u \in Threads : freeing[u] # d
      BY <2>1, <2>3, <3>1, Unraced DEF DocumentCounted
    <3>3. refs'[d] = refs[d] \ {<<t, h>>} BY <1>2, <3>1
    <3>4. /\ Cardinality(refs[d]) \in Nat /\ IsFiniteSet(refs[d] \ {<<t, h>>})
          /\ Cardinality(refs[d] \ {<<t, h>>}) = Cardinality(refs[d]) - 1
      <4>1. IsFiniteSet(refs[d]) BY <1>2, ReferencesFinite
      <4>2. ASSUME NEW R, R = refs[d]
            PROVE  /\ Cardinality(R) \in Nat /\ IsFiniteSet(R \ {<<t, h>>})
                   /\ <<t, h>> \in R => Cardinality(R \ {<<t, h>>}) = Cardinality(R) - 1
        BY <4>1, <4>2, CardAddRemove
      <4>3. QED BY <3>1, <4>2
    <3>5. Cardinality(refs'[d]) = 0 <=> refs'[d] = {} BY <3>3, <3>4, CardAddRemove
    <3>6. CASE count[d] > 1
      <4>1. count' = [count EXCEPT ![d] = count[d] - 1] /\ UNCHANGED <<shared, freeing>>
        BY <1>4, <3>2, <3>6
      <4>2. count'[d] = count[d] - 1 BY <1>2, <4>1
      <4>3. count'[d] = Cardinality(refs'[d]) /\ refs'[d] # {}
        BY <3>2, <3>3, <3>4, <3>5, <3>6, <4>2
      <4>4. QED BY <1>5, <2>3, <3>2, <4>1, <4>3 DEF DocumentCounted
    <3>7. CASE ~(count[d] > 1)
      <4>1. shared' = shared \ {d} /\ freeing' = [freeing EXCEPT ![t] = d]
        BY <1>4, <3>2, <3>7
      <4>2. refs'[d] = {}
        <5>1. Cardinality(refs[d]) = 1
          <6>1. refs[d] # {} BY <3>1
          <6>2. IsFiniteSet(refs[d]) BY <1>2, ReferencesFinite
          <6>3. Cardinality(refs[d]) # 0 BY <6>1, <6>2, CardAddRemove
          <6>4. QED BY <3>2, <3>4, <3>7, <6>3
        <5>2. QED BY <3>3, <3>4, <3>5, <5>1
      <4>3. freeing'[t] = d /\ \A u \in Threads : u # t => freeing'[u] # d BY <1>2, <3>2, <4>1
      <4>4. QED BY <1>5, <2>3, <3>2, <4>1, <4>2, <4>3 DEF DocumentCounted
    <3>8. QED BY <3>6, <3>7
  <2>4. QED BY <2>2, <2>3
<1>11. crashed' => raced' # {} BY <1>1, <1>3, Unraced
<1>12. ReferencesCounted' BY <1>10, <1>11 DEF ReferencesCounted
<1>13. ASSUME NEW u \in Threads, pc[u] # "run"
       PROVE  /\ subject'[u] = subject[u]
              /\ \A k \in Handles : <<u, k>> \in refs'[subject[u]] => <<u, k>> \in refs[subject[u]]
  <2>1. subject[u] \in Docs /\ u # t BY <1>1, <1>13 DEF DocsGood, WaitersKeepDocument
  <2>2. QED BY <1>1, <1>2, <1>6, <2>1
<1>14. WaitersKeepDocument' BY <1>1, <1>6, <1>13, WaitersStay
<1>15. QED BY <1>5, <1>9, <1>12, <1>14 DEF DocsGood

\* The document that left the table goes, and with it its lock, which no reference needs.
LEMMA FreeKeepsDocs ==
    ASSUME DocsGood, NEW t \in Threads, NEW d \in Docs, Free(t, d)
    PROVE  DocsGood'
<1>1. /\ freeing[t] = d /\ freeing' = [freeing EXCEPT ![t] = NULL]
      /\ UNCHANGED <<shared, count, refs, subject, dl, frames, pc, raced>>
  BY DEF Free
<1>2. /\ freeing \in [Threads -> Docs \cup {NULL}] /\ DocsTyped /\ NULL \notin Docs
      /\ \A u \in Threads : pc[u] # "run" => subject[u] \in Docs
  BY DocLocksAssumption DEF DocsGood, DocsTyped, WaitersKeepDocument
<1>3. /\ freeing' \in [Threads -> Docs \cup {NULL}]
      /\ \A e \in Docs : e # d => \A u \in Threads : freeing'[u] = e <=> freeing[u] = e
      /\ \A u \in Threads : freeing'[u] = d => u # t /\ freeing[u] = d
  BY <1>1, <1>2
<1>4. CASE d \in Live
  <2>1. /\ docLock' \in [Docs -> Locks \cup {NULL}] /\ lockDoc' \in [Locks -> Docs \cup {NULL}]
        /\ pool' \in Seq(Locks) /\ LockPlacedOnce'
        /\ Live' = Live \ {d} /\ \A e \in Docs : e # d => docLock'[e] = docLock[e]
    BY <1>4, FreePlaces
  <2>2. crashed' = crashed BY <1>4 DEF Free
  <2>3. DocsTyped' BY <1>1, <1>2, <1>3, <2>1, <2>2 DEF DocsTyped
  <2>4. ASSUME NEW e \in Docs \ raced PROVE DocumentCounted(e)'
    <3>1. DocumentCounted(e) BY Unraced
    <3>2. CASE e # d BY <1>1, <1>3, <2>1, <3>1, <3>2, Elsewhere
    <3>3. CASE e = d
      <4>1. d \notin shared /\ refs[d] = {} /\ \A u \in Threads : freeing[u] = d => u = t
        BY <1>1, <3>1, <3>3 DEF DocumentCounted
      <4>2. \A u \in Threads : freeing'[u] # d BY <1>3, <4>1
      <4>3. QED BY <1>1, <2>1, <3>3, <4>1, <4>2 DEF DocumentCounted
    <3>4. QED BY <3>2, <3>3
  <2>5. ReferencesCounted' BY <1>1, <2>2, <2>4 DEF DocsGood, ReferencesCounted
  <2>6. ASSUME NEW u \in Threads, pc[u] # "run", NEW k \in Handles,
               <<u, k>> \in refs[subject[u]], subject[u] \notin raced
        PROVE  docLock'[subject[u]] = docLock[subject[u]]
    <3>1. subject[u] # d BY <1>1, <1>2, <2>6, Unraced DEF Refers
    <3>2. QED BY <1>2, <2>1, <2>6, <3>1
  <2>7. WaitersKeepDocument' BY <1>1, <2>6, WaitersStay
  <2>8. QED BY <2>1, <2>3, <2>5, <2>7 DEF DocsGood
<1>5. CASE d \notin Live
  <2>1. crashed' = TRUE /\ UNCHANGED <<docLock, lockDoc, pool>> BY <1>5 DEF Free
  <2>2. d \in raced BY <1>1, <1>5, Unraced
  <2>3. DocsTyped' BY <1>1, <1>2, <1>3, <2>1 DEF DocsTyped
  <2>4. LockPlacedOnce' /\ Live' = Live BY <2>1 DEF DocsGood, LockPlacedOnce, Live, InUse
  <2>5. \A e \in Docs \ raced : DocumentCounted(e)' BY <1>1, <1>3, <2>2, <2>4, Unraced, Elsewhere
  <2>6. ReferencesCounted' BY <1>1, <2>2, <2>5 DEF ReferencesCounted
  <2>7. WaitersKeepDocument' BY <1>1, <2>1, WaitersStay
  <2>8. QED BY <2>3, <2>4, <2>6, <2>7 DEF DocsGood
<1>6. QED BY <1>4, <1>5

(* The steps of domLocksLock and domLocksUnlock leave the documents alone, and *)
(* who waits afterwards waited before.                                        *)
LEMMA ThreadsKeepDocs ==
    ASSUME DocsGood, UNCHANGED docVars, subject' \in [Threads -> Docs \cup {NULL}],
           \A u \in Threads : pc'[u] # "run" =>
               pc[u] # "run" /\ subject'[u] = subject[u] /\ Top(u)' = Top(u)
    PROVE  DocsGood'
<1>0. UNCHANGED <<docLock, shared, count, refs, freeing, lockDoc, pool, raced, crashed>> BY DEF docVars
<1>1. DocsTyped' BY <1>0 DEF DocsGood, DocsTyped
<1>2. LockPlacedOnce' BY <1>0 DEF DocsGood, LockPlacedOnce, Live, InUse
<1>3. ReferencesCounted' BY <1>0 DEF DocsGood, ReferencesCounted, DocumentCounted, Live
<1>4. ASSUME NEW u \in Threads, pc'[u] # "run"
      PROVE  /\ subject'[u] \in Docs
             /\ subject'[u] \notin raced' /\ (\E h \in Handles : <<u, h>> \in refs'[subject'[u]]) =>
                   docLock'[subject'[u]] = Top(u)'.lock
  <2>1. pc[u] # "run" /\ subject'[u] = subject[u] /\ Top(u)' = Top(u) BY <1>4
  <2>2. /\ subject[u] \in Docs
        /\ subject[u] \notin raced /\ (\E h \in Handles : <<u, h>> \in refs[subject[u]]) =>
              docLock[subject[u]] = Top(u).lock
    BY <2>1 DEF DocsGood, WaitersKeepDocument, Refers
  <2>3. QED BY <1>0, <2>1, <2>2
<1>5. WaitersKeepDocument' BY <1>4 DEF WaitersKeepDocument, Refers
<1>6. QED BY <1>1, <1>2, <1>3, <1>5 DEF DocsGood

\* readlock and writelock up to domLocksLock: the lock is the document's, if that exists.
LEMMA EvalKeeps ==
    ASSUME Inv, NEW t \in Threads, NEW d \in Docs, NEW h \in Hows, EvalLocked(t, d, h)
    PROVE  Inv'
<1>0. DocsGood /\ LocksOK(pc, frames, dl) /\ FramesOK(pc, frames) BY Halves DEF LocksOK
<1>1. /\ pc \in [Threads -> {"run", "entering", "asleep", "woken"}] /\ frames \in [Threads -> Seq(Frame)]
      /\ subject \in [Threads -> Docs \cup {NULL}] /\ raced \subseteq Docs
      /\ docLock \in [Docs -> Locks \cup {NULL}]
  BY <1>0 DEF FramesOK, DocsGood, DocsTyped
<1>2. /\ pc[t] = "run" /\ Len(frames[t]) < MaxFrames
      /\ subject' = [subject EXCEPT ![t] = d]
      /\ raced' = IF d \in shared THEN raced ELSE raced \cup {d}
      /\ UNCHANGED <<docLock, shared, count, refs, freeing, lockDoc, pool, dl>>
  BY DEF EvalLocked, Acts
<1>3. raced \subseteq raced' /\ raced' \subseteq Docs /\ (d \notin raced' => d \in shared)
  BY <1>1, <1>2
<1>4. /\ LockPlacedOnce' /\ Live' = Live
      /\ \A e \in Docs \ raced' : DocumentCounted(e)'
  <2>1. LockPlacedOnce' /\ Live' = Live BY <1>0, <1>2 DEF DocsGood, LockPlacedOnce, Live, InUse
  <2>2. \A e \in Docs \ raced' : DocumentCounted(e)' BY <1>0, <1>2, <1>3, <2>1, Unraced, Elsewhere
  <2>3. QED BY <2>1, <2>2
<1>5. CASE d \in Live
  <2> DEFINE f == [lock |-> docLock[d], how |-> h]
  <2>1. /\ frames' = [frames EXCEPT ![t] = Append(frames[t], f)]
        /\ pc' = [pc EXCEPT ![t] = "entering"] /\ crashed' = crashed
    BY <1>5 DEF EvalLocked
  <2>2. docLock[d] \in Locks BY <1>1, <1>5 DEF Live
  <2>3. f \in Frame /\ f.lock = docLock[d] BY <2>2 DEF Frame
  <2> HIDE DEF f
  <2>4. Pushes(pc, frames, pc', frames', t, f) BY <1>0, <1>2, <2>1, <2>3 DEF Pushes
  <2>5. LocksOK(pc', frames', dl') BY <1>0, <1>2, <2>4, PushKeepsLocks
  <2>6. DocsTyped' BY <1>0, <1>1, <1>2, <1>3, <2>1 DEF DocsGood, DocsTyped
  <2>7. ReferencesCounted' BY <1>0, <1>3, <1>4, <2>1 DEF DocsGood, ReferencesCounted
  <2>8. ASSUME NEW u \in Threads, pc'[u] # "run"
        PROVE  /\ subject'[u] \in Docs
               /\ subject'[u] \notin raced' /\ (\E k \in Handles : <<u, k>> \in refs'[subject'[u]]) =>
                     docLock'[subject'[u]] = Top(u)'.lock
    <3>1. CASE u = t
      <4>1. Top(t)' = f BY <2>4, Pushed DEF Top, Last
      <4>2. QED BY <1>1, <1>2, <2>3, <3>1, <4>1
    <3>2. CASE u # t
      <4>1. pc[u] # "run" /\ subject'[u] = subject[u] /\ frames'[u] = frames[u]
        BY <1>1, <1>2, <2>1, <2>8, <3>2
      <4>2. Top(u)' = Top(u) BY <4>1 DEF Top
      <4>3. /\ subject[u] \in Docs
            /\ subject[u] \notin raced /\ (\E k \in Handles : <<u, k>> \in refs[subject[u]]) =>
                  docLock[subject[u]] = Top(u).lock
        BY <1>0, <4>1 DEF DocsGood, WaitersKeepDocument, Refers
      <4>4. QED BY <1>2, <1>3, <4>1, <4>2, <4>3
    <3>3. QED BY <3>1, <3>2
  <2>9. WaitersKeepDocument' BY <2>8 DEF WaitersKeepDocument, Refers
  <2>10. QED BY <1>4, <2>5, <2>6, <2>7, <2>9, Halves DEF DocsGood
<1>6. CASE d \notin Live
  <2>1. crashed' = TRUE /\ UNCHANGED <<frames, pc>> BY <1>6 DEF EvalLocked
  <2>2. LocksOK(pc', frames', dl') BY <1>0, <1>2, <2>1
  <2>3. raced' # {} BY <1>0, <1>2, <1>3, <1>6, Unraced
  <2>4. DocsTyped' BY <1>0, <1>1, <1>2, <1>3, <2>1 DEF DocsGood, DocsTyped
  <2>5. ReferencesCounted' BY <1>4, <2>3 DEF ReferencesCounted
  <2>6. \A u \in Threads : pc[u] # "run" => subject'[u] = subject[u] BY <1>1, <1>2
  <2>7. WaitersKeepDocument' BY <1>0, <1>2, <1>3, <2>1, <2>6, WaitersStay
  <2>8. QED BY <1>4, <2>2, <2>4, <2>5, <2>7, Halves DEF DocsGood
<1>7. QED BY <1>5, <1>6

\* The first test of domLocksLock keeps Inv.
LEMMA EnterKeeps ==
    ASSUME Inv, NEW t \in Threads, Enter(t)
    PROVE  Inv'
<1> DEFINE f == frames[t][Len(frames[t])]
<1>0. /\ DocsGood /\ LocksOK(pc, frames, dl) /\ FramesOK(pc, frames)
      /\ pc \in [Threads -> {"run", "entering", "asleep", "woken"}]
      /\ subject \in [Threads -> Docs \cup {NULL}]
      /\ pc[t] = "entering" /\ UNCHANGED <<docVars, frames>>
  BY Halves DEF LocksOK, FramesOK, DocsGood, DocsTyped, Enter
<1>1. Top(t) = f /\ Attempt(t, f.how, f.lock, dl[f.lock]) BY DEF Enter, Top, Last
<1> HIDE DEF f
<1>2. Looks(pc, frames, pc', t) BY <1>0, <1>1 DEF Looks, Attempt
<1>3. \/ /\ Blocked(f.how, dl[f.lock]) /\ pc'[t] = "asleep"
         /\ dl' = [dl EXCEPT ![f.lock] = Counted(f.how, dl[f.lock], 1)]
      \/ /\ ~Blocked(f.how, dl[f.lock]) /\ pc'[t] = "run"
         /\ dl' = [dl EXCEPT ![f.lock] = Granted(f.how, dl[f.lock])]
  BY <1>0, <1>1 DEF Attempt
<1>4. LocksOK(pc', frames, dl') BY <1>0, <1>2, <1>3, EnterKeepsLocks DEF f
<1>5. /\ subject' \in [Threads -> Docs \cup {NULL}]
      /\ \A u \in Threads : pc'[u] # "run" => pc[u] # "run" /\ subject'[u] = subject[u]
  BY <1>0, <1>1 DEF Attempt
<1>6. \A u \in Threads : Top(u)' = Top(u) BY <1>0 DEF Top
<1>7. DocsGood' BY <1>0, <1>5, <1>6, ThreadsKeepDocs
<1>8. LocksOK(pc', frames', dl') BY <1>0, <1>4
<1>9. QED BY <1>7, <1>8, Halves

\* The loop of domLocksLock keeps Inv.
LEMMA RecheckKeeps ==
    ASSUME Inv, NEW t \in Threads, Recheck(t)
    PROVE  Inv'
<1> DEFINE f == frames[t][Len(frames[t])]
<1>0. /\ DocsGood /\ LocksOK(pc, frames, dl) /\ FramesOK(pc, frames)
      /\ pc \in [Threads -> {"run", "entering", "asleep", "woken"}]
      /\ subject \in [Threads -> Docs \cup {NULL}]
      /\ pc[t] = "woken" /\ UNCHANGED <<docVars, frames>>
  BY Halves DEF LocksOK, FramesOK, DocsGood, DocsTyped, Recheck
<1>1. Top(t) = f /\ Attempt(t, f.how, f.lock, Counted(f.how, dl[f.lock], -1))
  BY DEF Recheck, Top, Last
<1> HIDE DEF f
<1>2. Looks(pc, frames, pc', t) BY <1>0, <1>1 DEF Looks, Attempt
<1>3. \/ /\ Blocked(f.how, Counted(f.how, dl[f.lock], -1)) /\ pc'[t] = "asleep"
         /\ dl' = [dl EXCEPT ![f.lock] = Counted(f.how, Counted(f.how, dl[f.lock], -1), 1)]
      \/ /\ ~Blocked(f.how, Counted(f.how, dl[f.lock], -1)) /\ pc'[t] = "run"
         /\ dl' = [dl EXCEPT ![f.lock] = Granted(f.how, Counted(f.how, dl[f.lock], -1))]
  BY <1>0, <1>1 DEF Attempt
<1>4. LocksOK(pc', frames, dl') BY <1>0, <1>2, <1>3, LookKeepsLocks DEF f
<1>5. /\ subject' \in [Threads -> Docs \cup {NULL}]
      /\ \A u \in Threads : pc'[u] # "run" => pc[u] # "run" /\ subject'[u] = subject[u]
  BY <1>0, <1>1 DEF Attempt
<1>6. \A u \in Threads : Top(u)' = Top(u) BY <1>0 DEF Top
<1>7. DocsGood' BY <1>0, <1>5, <1>6, ThreadsKeepDocs
<1>8. LocksOK(pc', frames', dl') BY <1>0, <1>4
<1>9. QED BY <1>7, <1>8, Halves

\* A spurious wake keeps Inv.
LEMMA WakeKeeps ==
    ASSUME Inv, NEW t \in Threads, SpuriousWake(t)
    PROVE  Inv'
<1>0. /\ DocsGood /\ LocksOK(pc, frames, dl) /\ FramesOK(pc, frames)
      /\ pc \in [Threads -> {"run", "entering", "asleep", "woken"}]
      /\ subject \in [Threads -> Docs \cup {NULL}]
      /\ pc[t] = "asleep" /\ UNCHANGED <<docVars, subject, dl, frames>>
      /\ pc' = [pc EXCEPT ![t] = "woken"]
  BY Halves DEF LocksOK, FramesOK, DocsGood, DocsTyped, SpuriousWake
<1>1. WakesUp(pc, frames, pc', t) BY <1>0 DEF WakesUp
<1>2. LocksOK(pc', frames, dl) BY <1>0, <1>1, WakeKeepsLocks
<1>3. LocksOK(pc', frames', dl') BY <1>0, <1>2
<1>4. \A u \in Threads : pc'[u] # "run" => pc[u] # "run" /\ subject'[u] = subject[u] /\ Top(u)' = Top(u)
  BY <1>0 DEF Top
<1>5. DocsGood' BY <1>0, <1>4, ThreadsKeepDocs
<1>6. QED BY <1>3, <1>5, Halves

\* domLocksUnlock keeps Inv.
LEMMA EndKeeps ==
    ASSUME Inv, NEW t \in Threads, EndScript(t)
    PROVE  Inv'
<1> DEFINE f == frames[t][Len(frames[t])]
           N == Notified(Released(dl[f.lock]))
<1>0. /\ DocsGood /\ LocksOK(pc, frames, dl) /\ FramesOK(pc, frames)
      /\ pc \in [Threads -> {"run", "entering", "asleep", "woken"}] /\ frames \in [Threads -> Seq(Frame)]
      /\ dl \in [Locks -> Rec] /\ subject \in [Threads -> Docs \cup {NULL}]
      /\ pc[t] = "run" /\ frames[t] # <<>> /\ frames' = [frames EXCEPT ![t] = Front(frames[t])]
      /\ UNCHANGED <<docVars, subject>>
  BY Halves DEF LocksOK, FramesOK, DocsGood, DocsTyped, EndScript, Idle
<1>1. Last(frames[t]) = f /\ \A u : Top(u) = Last(frames[u]) BY DEF Top, Last
<1>2. f.lock \in Locks
  <2>1. Len(frames[t]) \in 1 .. Len(frames[t]) BY <1>0, StackFacts, EmptySeq
  <2>2. QED BY <1>0, <2>1, StackFacts DEF Frame
<1>3. dl' = [dl EXCEPT ![f.lock] = Released(dl[f.lock])] BY <1>1 DEF EndScript
<1>4. dl'[f.lock] = Released(dl[f.lock]) BY <1>0, <1>2, <1>3
<1>5. pc' = [u \in Threads |->
               IF pc[u] = "asleep" /\ Last(frames[u]).lock = f.lock /\ Last(frames[u]).how \in N
               THEN "woken" ELSE pc[u]]
  BY <1>1, <1>4 DEF EndScript
<1> HIDE DEF f, N
<1>6. Leaves(pc, frames, pc', frames', t, N) BY <1>0, <1>1, <1>5 DEF Leaves
<1>7. LocksOK(pc', frames', dl') BY <1>0, <1>3, <1>6, LeaveKeepsLocks DEF f, N
<1>8. \A u \in Threads : pc'[u] # "run" => pc[u] # "run" /\ subject'[u] = subject[u] /\ Top(u)' = Top(u)
  BY <1>0, <1>5 DEF Top
<1>9. DocsGood' BY <1>0, <1>8, ThreadsKeepDocs
<1>10. QED BY <1>7, <1>9, Halves

-----------------------------------------------------------------------------
(* Inv holds in every state of every behaviour.                              *)
THEOREM Invariance == Spec => []Inv
<1>1. Inv /\ [Next]_vars => Inv'
  <2> SUFFICES ASSUME Inv, [Next]_vars PROVE Inv' OBVIOUS
  <2>1. ASSUME NEW t \in Threads, NEW d \in Docs,
               CreateDoc(t, d) \/ Check(t, d) \/ DeleteDoc(t, d) \/ Free(t, d)
                  \/ \E h \in Handles : AttachDocument(t, d, h)
        PROVE  Inv'
    <3>1. DocsGood'
      BY <2>1, Halves, CreateKeepsDocs, CheckKeepsDocs, AttachKeepsDocs, DeleteKeepsDocs, FreeKeepsDocs
    <3>2. pc' = pc /\ frames' = frames /\ dl' = dl
      BY <2>1 DEF CreateDoc, Check, AttachDocument, DeleteDoc, Free
    <3>3. LocksOK(pc', frames', dl') BY <3>2 DEF Inv
    <3>4. QED BY <3>1, <3>3, Halves
  <2>2. CASE UNCHANGED vars
    <3>1. UNCHANGED <<docVars, subject, dl, frames, pc>> BY <2>2 DEF vars
    <3>2. \A u \in Threads : Top(u)' = Top(u) BY <3>1 DEF Top
    <3>3. DocsGood' BY <3>1, <3>2, Halves, ThreadsKeepDocs DEF DocsGood, DocsTyped
    <3>4. QED BY <3>1, <3>3, Halves
  <2>3. QED
    BY <2>1, <2>2, EvalKeeps, EnterKeeps, RecheckKeeps, WakeKeeps, EndKeeps DEF Next
<1>2. QED BY InitInv, <1>1, PTL DEF Spec

(* A lock is never held by two writers, or by a reader beside a writer, and    *)
(* counts its holders, also after the document it was taken for is gone and    *)
(* the lock serves another one; a lock serves one document or waits once in    *)
(* the free list.  A document is in the table while a thread has a reference   *)
(* and freed once after the last, and a thread with a reference waits for the  *)
(* lock the document has, whatever others do in the gaps between a check, a    *)
(* registration, the last deletion and the release of the memory -- but for    *)
(* documents somebody attached or locked in such a gap after they had left the *)
(* table, or deleted without a reference: these alone lead to freed memory.    *)
THEOREM LocksInStep == Spec => []LocksFollowDocuments
<1>1. Inv => LocksFollowDocuments BY LocksExclude DEF Inv, LocksFollowDocuments
<1>2. QED BY Invariance, <1>1, PTL

(* Threads that all sleep have nested lock scripts.                          *)
THEOREM NoDeadlockWithoutNesting == Spec => []DeadlockOnlyByNesting
<1>1. Inv => DeadlockOnlyByNesting BY AllAsleep DEF Inv
<1>2. QED BY Invariance, <1>1, PTL
=============================================================================
