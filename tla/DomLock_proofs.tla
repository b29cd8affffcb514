--------------------------- MODULE DomLock_proofs ---------------------------
(* Proofs about DomLock for any finite sets of reading and writing threads.    *)
(* One inductive invariant, Inv, carries them all: the counters are exact, the *)
(* holders exclude each other, and a sleeper has someone who will notify it.   *)
EXTENDS DomLock, FiniteSetTheorems, TLAPS

\* A thread that waits or is inside asked for what it may ask for.
CallersOK == \A t \in Threads : pc[t] # "out" => MayCall(t, how[t])

Inv == TypeOK /\ CallersOK /\ Exclusion /\ CountExact /\ WaitersExact /\ NoLostWakeup

(* The sets of threads the counters count are finite.                        *)
LEMMA SetsFinite ==
    /\ IsFiniteSet(Threads)
    /\ \A h : IsFiniteSet(Inside(h)) /\ IsFiniteSet(Waiting(h))
<1>1. IsFiniteSet(Threads)
  BY CallersFinite, FS_Union DEF Threads
<1>2. ASSUME NEW h PROVE IsFiniteSet(Inside(h)) /\ IsFiniteSet(Waiting(h))
  <2>1. Inside(h) \subseteq Threads /\ Waiting(h) \subseteq Threads
    BY DEF Inside, Waiting
  <2>2. QED BY <1>1, <2>1, FS_Subset
<1>3. QED BY <1>1, <1>2

(* Adding a new thread to a set of threads adds one to its size, taking one    *)
(* out takes one away.                                                       *)
LEMMA CardAddRemove ==
    ASSUME NEW S, IsFiniteSet(S), NEW t
    PROVE  /\ Cardinality(S) \in Nat
           /\ t \notin S => Cardinality(S \cup {t}) = Cardinality(S) + 1
           /\ t \in S => Cardinality(S \ {t}) = Cardinality(S) - 1
           /\ Cardinality(S) = 0 <=> S = {}
BY FS_AddElement, FS_RemoveElement, FS_EmptySet, FS_CardinalityType

(* The lock is free, read-held or write-held according to the sign of lrcnt.   *)
LEMMA LrcntMeaning ==
    ASSUME TypeOK, Exclusion, CountExact
    PROVE  /\ dl.lrcnt = 0 <=> Inside("read") = {} /\ Inside("write") = {}
           /\ dl.lrcnt < 0 <=> Inside("write") # {}
           /\ dl.lrcnt > 0 => dl.lrcnt = Cardinality(Inside("read"))
           /\ Inside("write") # {} => dl.lrcnt = -1 /\ Inside("read") = {}
<1>1. Cardinality(Inside("read")) \in Nat /\ (Cardinality(Inside("read")) = 0 <=> Inside("read") = {})
  BY SetsFinite, CardAddRemove
<1>2. Inside("write") # {} => Inside("read") = {}
  BY DEF Exclusion, Inside
<1>3. QED BY <1>1, <1>2 DEF CountExact

(* Both counters of waiters are natural numbers, zero when no thread waits.    *)
LEMMA WaitersMeaning ==
    ASSUME TypeOK, WaitersExact
    PROVE  /\ dl.numwr = 0 <=> Waiting("write") = {}
           /\ dl.numrd = 0 <=> Waiting("read") = {}
BY SetsFinite, CardAddRemove DEF WaitersExact

\* A lock nobody has asked for is free.
LEMMA InitInv == Init => Inv
<1> SUFFICES ASSUME Init PROVE Inv OBVIOUS
<1>1. TypeOK BY DEF Init, TypeOK, FreshLock, Hows
<1>2. \A h : Inside(h) = {} /\ Waiting(h) = {} /\ Asleep(h) = {}
  BY DEF Init, Inside, Waiting, Asleep
<1>3. Exclusion /\ CallersOK BY DEF Init, Exclusion, CallersOK
<1>4. CountExact /\ WaitersExact /\ NoLostWakeup
  BY <1>2, FS_EmptySet DEF Init, FreshLock, CountExact, WaitersExact, NoLostWakeup
<1>5. QED BY <1>1, <1>3, <1>4 DEF Inv

-----------------------------------------------------------------------------
(* How one thread's step moves it between the sets: t went to sleep, was       *)
(* granted the lock, or left it.                                              *)
SleepStep(t, h) ==
    /\ t \in Threads /\ h \in Hows
    /\ pc' = [pc EXCEPT ![t] = "asleep"]
    /\ how' = [how EXCEPT ![t] = h]

GrantStep(t, h) ==
    /\ t \in Threads /\ h \in Hows
    /\ pc' = [pc EXCEPT ![t] = "in"]
    /\ how' = [how EXCEPT ![t] = h]

\* The record as the loop head reads it: a woken thread has taken itself off the count.
Seen(t, h) == IF pc[t] = "woken" THEN Counted(h, dl, -1) ELSE dl

(* A thread outside the lock that goes to sleep only moves into Waiting.       *)
LEMMA SleepSets ==
    ASSUME TypeOK, NEW t, NEW h, SleepStep(t, h), pc[t] # "in",
           pc[t] = "woken" => how[t] = h, pc[t] # "asleep"
    PROVE  \A g \in Hows :
             /\ Inside(g)' = Inside(g)
             /\ Waiting(g)' = IF g = h THEN Waiting(g) \cup {t} ELSE Waiting(g)
             /\ Asleep(g)' = IF g = h THEN Asleep(g) \cup {t} ELSE Asleep(g)
             /\ WokenUp(g)' = WokenUp(g) \ {t}
BY DEF TypeOK, SleepStep, Inside, Waiting, Asleep, WokenUp, Hows

(* A thread outside the lock that is granted it moves out of Waiting, if it    *)
(* was there, into Inside.                                                   *)
LEMMA GrantSets ==
    ASSUME TypeOK, NEW t, NEW h, GrantStep(t, h), pc[t] # "in",
           pc[t] = "woken" => how[t] = h, pc[t] # "asleep"
    PROVE  \A g \in Hows :
             /\ Inside(g)' = IF g = h THEN Inside(g) \cup {t} ELSE Inside(g)
             /\ Waiting(g)' = Waiting(g) \ {t}
             /\ Asleep(g)' = Asleep(g)
             /\ WokenUp(g)' = WokenUp(g) \ {t}
BY DEF TypeOK, GrantStep, Inside, Waiting, Asleep, WokenUp, Hows

(* Going to sleep keeps the invariant: the counter of waiters goes up with the *)
(* waiter, and the lock is taken or promised to a writer.                    *)
LEMMA SleepInv ==
    ASSUME Inv, NEW t, NEW h, SleepStep(t, h), MayCall(t, h),
           pc[t] \in {"out", "woken"}, pc[t] = "woken" => how[t] = h,
           Blocked(h, Seen(t, h)), dl' = Counted(h, Seen(t, h), 1)
    PROVE  Inv'
<1> USE DEF Hows, Seen
<1>0. TypeOK /\ CallersOK /\ Exclusion /\ CountExact /\ WaitersExact /\ NoLostWakeup BY DEF Inv
<1>1. \A g \in Hows :
         /\ Inside(g)' = Inside(g)
         /\ Waiting(g)' = IF g = h THEN Waiting(g) \cup {t} ELSE Waiting(g)
         /\ Asleep(g)' = IF g = h THEN Asleep(g) \cup {t} ELSE Asleep(g)
         /\ WokenUp(g)' = WokenUp(g) \ {t}
  BY <1>0, SleepSets
<1>2. h \in Hows /\ t \in Threads BY DEF SleepStep
<1>3. /\ pc[t] = "woken" => t \in Waiting(h)
      /\ pc[t] = "out" => t \notin Waiting(h)
      /\ t \notin Inside("read") /\ t \notin Inside("write")
  BY <1>2 DEF Waiting, Inside
<1>4. \A g \in Hows : Cardinality(Waiting(g)) \in Nat
                        /\ (t \notin Waiting(g) => Cardinality(Waiting(g) \cup {t}) = Cardinality(Waiting(g)) + 1)
  BY SetsFinite, CardAddRemove
<1>5. t \in Waiting(h) => Waiting(h) \cup {t} = Waiting(h)
  OBVIOUS
<1>6. /\ dl'.lrcnt = dl.lrcnt /\ Seen(t, h).lrcnt = dl.lrcnt
      /\ dl' \in [lrcnt : Int, numrd : Int, numwr : Int]
  BY <1>0, <1>2 DEF TypeOK, Counted
<1>7. WaitersExact' /\ \A g \in Hows : Cardinality(Waiting(g)') \in Nat
  <2>1. CASE pc[t] = "woken"
    <3>1. \A g \in Hows : Waiting(g)' = Waiting(g) BY <1>1, <1>2, <1>3, <1>5, <2>1
    <3>2. dl'.numrd = dl.numrd /\ dl'.numwr = dl.numwr
      BY <1>0, <1>2, <2>1 DEF Counted, TypeOK
    <3>3. QED BY <1>0, <1>4, <3>1, <3>2 DEF WaitersExact
  <2>2. CASE pc[t] = "out"
    <3>1. Cardinality(Waiting(h)') = Cardinality(Waiting(h)) + 1
      BY <1>1, <1>2, <1>3, <1>4, <2>2
    <3>2. \A g \in Hows : g # h => Waiting(g)' = Waiting(g) BY <1>1
    <3>3. dl' = Counted(h, dl, 1) BY <2>2
    <3>4. QED BY <1>0, <1>2, <1>4, <3>1, <3>2, <3>3 DEF WaitersExact, Counted, TypeOK
  <2>3. QED BY <2>1, <2>2
<1>8. TypeOK'
  <2>1. dl' \in [lrcnt : Int, numrd : Nat, numwr : Nat]
    BY <1>6, <1>7 DEF WaitersExact
  <2>2. QED BY <1>0, <2>1, <1>2 DEF TypeOK, SleepStep
<1>9. CountExact' BY <1>0, <1>1, <1>6 DEF CountExact
<1>10. Exclusion' BY <1>0, <1>2 DEF Exclusion, SleepStep, TypeOK
<1>11. NoLostWakeup'
  <2>1. /\ dl.lrcnt < 0 <=> Inside("write") # {}
        /\ dl.lrcnt = 0 <=> Inside("read") = {} /\ Inside("write") = {}
    BY <1>0, LrcntMeaning
  <2>2. CASE h = "read"
    <3>1. Seen(t, h).numwr = dl.numwr BY <2>2, <1>0 DEF Counted, TypeOK
    <3>2. dl.numwr > 0 => Waiting("write") # {} BY <1>0, WaitersMeaning
    <3>3. Inside("write") # {} \/ Waiting("write") # {}
      BY <1>6, <2>1, <2>2, <3>1, <3>2 DEF Blocked
    <3>4. t \notin WokenUp("write") BY <2>2, <1>0, <1>2 DEF WokenUp, TypeOK
    <3>5. QED BY <1>0, <1>1, <2>2, <3>3, <3>4 DEF NoLostWakeup
  <2>3. CASE h = "write"
    <3>1. Inside("read") \cup Inside("write") # {}
      BY <1>6, <2>1, <2>3 DEF Blocked
    <3>2. QED BY <1>0, <1>1, <2>3, <3>1 DEF NoLostWakeup
  <2>4. QED BY <1>2, <2>2, <2>3
<1>12. CallersOK' BY <1>0, <1>2 DEF CallersOK, SleepStep, TypeOK, MayCall
<1>13. QED BY <1>7, <1>8, <1>9, <1>10, <1>11, <1>12 DEF Inv

(* Being granted the lock keeps the invariant: the loop condition was false,   *)
(* so the holders still exclude each other and lrcnt counts the new one.       *)
LEMMA GrantInv ==
    ASSUME Inv, NEW t, NEW h, GrantStep(t, h), MayCall(t, h),
           pc[t] \in {"out", "woken"}, pc[t] = "woken" => how[t] = h,
           ~Blocked(h, Seen(t, h)), dl' = Granted(h, Seen(t, h))
    PROVE  Inv'
<1> USE DEF Hows, Seen
<1>0. TypeOK /\ CallersOK /\ Exclusion /\ CountExact /\ WaitersExact /\ NoLostWakeup BY DEF Inv
<1>1. \A g \in Hows :
         /\ Inside(g)' = IF g = h THEN Inside(g) \cup {t} ELSE Inside(g)
         /\ Waiting(g)' = Waiting(g) \ {t}
         /\ Asleep(g)' = Asleep(g)
         /\ WokenUp(g)' = WokenUp(g) \ {t}
  BY <1>0, GrantSets
<1>2. h \in Hows /\ t \in Threads BY DEF GrantStep
<1>3. /\ pc[t] = "woken" => t \in Waiting(h)
      /\ pc[t] = "out" => t \notin Waiting(h)
      /\ \A g \in Hows : g # h => t \notin Waiting(g)
      /\ \A g \in Hows : t \notin Inside(g)
  BY <1>2, <1>0 DEF Waiting, Inside, TypeOK
<1>4. \A g \in Hows :
         /\ Cardinality(Waiting(g)) \in Nat /\ Cardinality(Waiting(g) \ {t}) \in Nat
         /\ t \in Waiting(g) => Cardinality(Waiting(g) \ {t}) = Cardinality(Waiting(g)) - 1
  BY SetsFinite, CardAddRemove, FS_RemoveElement, FS_CardinalityType
<1>5. \A g \in Hows : t \notin Waiting(g) => Waiting(g) \ {t} = Waiting(g)
  OBVIOUS
<1>6. dl' \in [lrcnt : Int, numrd : Int, numwr : Int] /\ Seen(t, h).lrcnt = dl.lrcnt
  BY <1>0, <1>2 DEF TypeOK, Counted, Granted
<1>7. WaitersExact'
  BY <1>0, <1>1, <1>2, <1>3, <1>4, <1>5 DEF WaitersExact, Counted, Granted, TypeOK
<1>8. TypeOK'
  <2>1. dl' \in [lrcnt : Int, numrd : Nat, numwr : Nat]
    <3>1. \A g \in Hows : Cardinality(Waiting(g))' \in Nat
      BY <1>1, <1>4
    <3>2. QED BY <1>6, <1>7, <3>1 DEF WaitersExact
  <2>2. QED BY <1>0, <2>1, <1>2 DEF TypeOK, GrantStep
<1>9. /\ dl.lrcnt = 0 <=> Inside("read") = {} /\ Inside("write") = {}
      /\ dl.lrcnt < 0 <=> Inside("write") # {}
      /\ dl.lrcnt > 0 => dl.lrcnt = Cardinality(Inside("read"))
      /\ dl.lrcnt \in Int
  BY <1>0, LrcntMeaning DEF TypeOK
<1>a. CallersOK' BY <1>0, <1>2 DEF CallersOK, GrantStep, TypeOK, MayCall
<1>10. CASE h = "read"
  <2>1. Inside("write") = {} /\ Inside("write")' = {}
    BY <1>10, <1>1, <1>6, <1>9 DEF Blocked
  <2>2. dl.lrcnt = Cardinality(Inside("read")) BY <2>1, <1>0 DEF CountExact
  <2>3. Cardinality(Inside("read"))' = Cardinality(Inside("read")) + 1
    BY <1>10, <1>1, <1>3, SetsFinite, CardAddRemove
  <2>4. dl'.lrcnt = dl.lrcnt + 1 BY <1>10, <1>0, <1>6 DEF Granted, Counted, TypeOK
  <2>5. CountExact' BY <2>1, <2>2, <2>3, <2>4 DEF CountExact
  <2>6. Exclusion'
    BY <2>1, <1>0, <1>2, <1>10 DEF Exclusion, GrantStep, TypeOK, Inside
  <2>7. NoLostWakeup'
    <3>1. t \notin WokenUp("write") BY <1>10, <1>0, <1>2 DEF WokenUp, TypeOK
    <3>2. t \notin Waiting("write") BY <1>3, <1>10
    <3>3. QED BY <3>1, <3>2, <1>0, <1>1, <1>10 DEF NoLostWakeup
  <2>8. QED BY <2>5, <2>6, <2>7, <1>7, <1>8, <1>a DEF Inv
<1>11. CASE h = "write"
  <2>1. Inside("read") = {} /\ Inside("write") = {} BY <1>11, <1>6, <1>9 DEF Blocked
  <2>2. Inside("read")' = {} /\ Inside("write")' = {t} BY <2>1, <1>1, <1>11
  <2>3. dl'.lrcnt = -1 BY <1>11, <1>0, <1>6 DEF Granted, Counted, TypeOK
  <2>4. CountExact' BY <2>2, <2>3 DEF CountExact
  <2>5. Exclusion' BY <2>1, <1>0, <1>2 DEF Exclusion, GrantStep, TypeOK, Inside
  <2>6. NoLostWakeup' BY <2>2 DEF NoLostWakeup
  <2>7. QED BY <2>4, <2>5, <2>6, <1>7, <1>8, <1>a DEF Inv
<1>12. QED BY <1>2, <1>10, <1>11

(* A wakeup without a notify keeps the invariant: the woken writer stands in   *)
(* for itself as the thread about to take the lock.                           *)
LEMMA SpuriousInv ==
    ASSUME Inv, NEW t \in Threads, SpuriousWake(t)
    PROVE  Inv'
<1>0. TypeOK /\ CallersOK /\ Exclusion /\ CountExact /\ WaitersExact /\ NoLostWakeup BY DEF Inv
<1>1. \A g \in Hows : /\ Inside(g)' = Inside(g)
                        /\ Waiting(g)' = Waiting(g)
                        /\ Asleep(g)' \subseteq Asleep(g)
                        /\ WokenUp(g) \subseteq WokenUp(g)'
  BY <1>0 DEF SpuriousWake, TypeOK, Inside, Waiting, Asleep, WokenUp
<1>2. TypeOK' BY <1>0 DEF SpuriousWake, TypeOK
<1>3. Exclusion' /\ CallersOK'
  BY <1>0 DEF SpuriousWake, TypeOK, Exclusion, CallersOK, MayCall
<1>4. CountExact' /\ WaitersExact'
  BY <1>0, <1>1 DEF SpuriousWake, CountExact, WaitersExact, Hows
<1>5. NoLostWakeup' BY <1>0, <1>1 DEF NoLostWakeup, Hows
<1>6. QED BY <1>2, <1>3, <1>4, <1>5 DEF Inv

(* Unlocking keeps the invariant: -1 goes to 0 and n to n - 1, and because the *)
(* counters are exact, whoever now needs the lock most is woken.               *)
LEMMA UnlockInv ==
    ASSUME Inv, NEW t \in Threads, Unlock(t)
    PROVE  Inv'
<1> USE DEF Hows
<1>0. TypeOK /\ CallersOK /\ Exclusion /\ CountExact /\ WaitersExact /\ NoLostWakeup BY DEF Inv
<1>1. /\ pc[t] = "in" /\ how' = how /\ dl' = Released(dl)
      /\ pc' = Woken(Notified(dl'), [pc EXCEPT ![t] = "out"])
  BY DEF Unlock
<1>2. dl' = [dl EXCEPT !.lrcnt = IF dl.lrcnt - 1 < 0 THEN 0 ELSE dl.lrcnt - 1]
  BY <1>1 DEF Released
<1>3. dl' \in [lrcnt : Int, numrd : Nat, numwr : Nat]
      /\ dl'.numrd = dl.numrd /\ dl'.numwr = dl.numwr
  BY <1>0, <1>2 DEF TypeOK
<1>4. \A u \in Threads :
        pc'[u] = IF u = t THEN "out"
                 ELSE IF pc[u] = "asleep" /\ how[u] \in Notified(dl') THEN "woken" ELSE pc[u]
  BY <1>0, <1>1 DEF Woken, TypeOK
<1>5. TypeOK' BY <1>0, <1>1, <1>3, <1>4 DEF TypeOK, Woken
<1>6. \A g \in Hows :
        /\ Inside(g)' = Inside(g) \ {t}
        /\ Waiting(g)' = Waiting(g)
        /\ Asleep(g)' = IF g \in Notified(dl') THEN {} ELSE Asleep(g)
        /\ WokenUp(g)' = IF g \in Notified(dl') THEN WokenUp(g) \cup Asleep(g) ELSE WokenUp(g)
  BY <1>0, <1>1, <1>4 DEF TypeOK, Inside, Waiting, Asleep, WokenUp
<1>7. WaitersExact' BY <1>0, <1>3, <1>6 DEF WaitersExact
<1>8. Exclusion' /\ CallersOK' BY <1>0, <1>1, <1>4 DEF Exclusion, CallersOK, MayCall
<1>9. CountExact'
  <2>1. CASE how[t] = "write"
    <3>1. t \in Inside("write") BY <2>1, <1>1 DEF Inside
    <3>2. dl.lrcnt = -1 /\ Inside("read") = {} BY <3>1, <1>0, LrcntMeaning
    <3>3. Inside("write") = {t} BY <3>1, <1>0 DEF Exclusion, Inside
    <3>4. Inside("write")' = {} /\ Inside("read")' = {} BY <3>2, <3>3, <1>6
    <3>5. dl'.lrcnt = 0 BY <3>2, <1>0, <1>2 DEF TypeOK
    <3>6. QED BY <3>4, <3>5, FS_EmptySet DEF CountExact
  <2>2. CASE how[t] = "read"
    <3>1. t \in Inside("read") BY <2>2, <1>1 DEF Inside
    <3>2. Inside("write") = {} BY <3>1, <1>0, LrcntMeaning
    <3>3. dl.lrcnt = Cardinality(Inside("read")) BY <3>2, <1>0 DEF CountExact
    <3>4. /\ Cardinality(Inside("read") \ {t}) = Cardinality(Inside("read")) - 1
          /\ Cardinality(Inside("read")) \in Nat /\ Cardinality(Inside("read")) # 0
      BY <3>1, SetsFinite, CardAddRemove
    <3>5. dl'.lrcnt = Cardinality(Inside("read") \ {t})
      BY <3>3, <3>4, <1>0, <1>2 DEF TypeOK
    <3>6. QED BY <3>2, <3>5, <1>6 DEF CountExact
  <2>3. QED BY <2>1, <2>2, <1>0 DEF TypeOK
<1>10. NoLostWakeup'
  <2>1. /\ dl'.numwr = 0 <=> Waiting("write") = {}
        /\ dl'.numrd = 0 <=> Waiting("read") = {}
    BY <1>0, <1>3, WaitersMeaning
  <2>2. CASE dl'.numwr > 0
    <3>1. Notified(dl') = {"write"} BY <2>2 DEF Notified
    <3>2. QED BY <3>1, <2>1, <2>2, <1>6 DEF NoLostWakeup
  <2>3. CASE dl'.numwr = 0
    <3>1. Asleep("write") = {} BY <2>1, <2>3 DEF Asleep, Waiting
    <3>2. CASE dl'.numrd = 0
      <4>1. Asleep("read") = {} BY <2>1, <3>2 DEF Asleep, Waiting
      <4>2. QED BY <3>1, <4>1, <1>6 DEF NoLostWakeup
    <3>3. CASE dl'.numrd > 0
      <4>1. Notified(dl') = {"read"} BY <2>3, <3>3 DEF Notified
      <4>2. QED BY <3>1, <4>1, <1>6 DEF NoLostWakeup
    <3>4. QED BY <3>2, <3>3, <1>3
  <2>4. QED BY <2>2, <2>3, <1>3
<1>11. QED BY <1>5, <1>7, <1>8, <1>9, <1>10 DEF Inv

(* Every step of every thread keeps the invariant.                            *)
LEMMA NextInv == Inv /\ [Next]_vars => Inv'
<1> SUFFICES ASSUME Inv, [Next]_vars PROVE Inv' OBVIOUS
<1>0. TypeOK /\ CallersOK BY DEF Inv
<1>1. ASSUME NEW t \in Threads, NEW h \in Hows, Lock(t, h) PROVE Inv'
  <2>1. pc[t] = "out" /\ Seen(t, h) = dl /\ how' = [how EXCEPT ![t] = h] /\ MayCall(t, h)
    BY <1>1 DEF Lock, Seen
  <2>2. CASE Blocked(h, dl)
    <3>1. SleepStep(t, h) /\ dl' = Counted(h, dl, 1)
      BY <1>1, <2>1, <2>2 DEF Lock, Attempt, SleepStep
    <3>2. QED BY <2>1, <2>2, <3>1, SleepInv
  <2>3. CASE ~Blocked(h, dl)
    <3>1. GrantStep(t, h) /\ dl' = Granted(h, dl)
      BY <1>1, <2>1, <2>3 DEF Lock, Attempt, GrantStep
    <3>2. QED BY <2>1, <2>3, <3>1, GrantInv
  <2>4. QED BY <2>2, <2>3
<1>2. ASSUME NEW t \in Threads, Recheck(t) PROVE Inv'
  <2>1. PICK h \in Hows : h = how[t] BY <1>0 DEF TypeOK
  <2>2. /\ pc[t] = "woken" /\ Seen(t, h) = Counted(h, dl, -1)
        /\ how' = [how EXCEPT ![t] = h] /\ MayCall(t, h)
    BY <1>0, <1>2, <2>1 DEF Recheck, Seen, TypeOK, CallersOK
  <2>3. Attempt(t, h, Seen(t, h)) BY <1>2, <2>1, <2>2 DEF Recheck
  <2>4. CASE Blocked(h, Seen(t, h))
    <3>1. SleepStep(t, h) /\ dl' = Counted(h, Seen(t, h), 1)
      BY <2>2, <2>3, <2>4 DEF Attempt, SleepStep
    <3>2. QED BY <2>1, <2>2, <2>4, <3>1, SleepInv
  <2>5. CASE ~Blocked(h, Seen(t, h))
    <3>1. GrantStep(t, h) /\ dl' = Granted(h, Seen(t, h))
      BY <2>2, <2>3, <2>5 DEF Attempt, GrantStep
    <3>2. QED BY <2>1, <2>2, <2>5, <3>1, GrantInv
  <2>6. QED BY <2>4, <2>5
<1>3. ASSUME UNCHANGED vars PROVE Inv'
  BY <1>3 DEF vars, Inv, TypeOK, CallersOK, MayCall, Exclusion, CountExact, WaitersExact, NoLostWakeup,
              Inside, Waiting, Asleep, WokenUp
<1>4. QED BY <1>1, <1>2, <1>3, SpuriousInv, UnlockInv DEF Next

-----------------------------------------------------------------------------
(* The strengthened invariant holds in every reachable state.                 *)
THEOREM Invariance == Spec => []Inv
BY InitInv, NextInv, PTL DEF Spec

(* What the mutex of domlock.c protects is consistent with the threads: the    *)
(* types, any number of readers or one writer, and lrcnt, numrd and numwr      *)
(* exact, for any number of threads.                                           *)
THEOREM Consistency == Spec => []LockConsistent
<1>1. Inv => LockConsistent
  BY DEF Inv, LockConsistent
<1> QED
  BY Invariance, <1>1, PTL

(* No thread is left asleep without a thread that will notify it.             *)
THEOREM SleepersHaveAWaker == Spec => []NoLostWakeup
BY Invariance, PTL DEF Inv

-----------------------------------------------------------------------------
(* What a step does to the sets of threads the abstract lock speaks of.        *)
Keeps ==
    \A g \in Hows : Inside(g)' = Inside(g) /\ Waiting(g)' = Waiting(g)

Queues(t, h) ==
    /\ t \in Threads /\ MayCall(t, h) /\ t \notin Inside(h)
    /\ \A g \in Hows :
          /\ Inside(g)' = Inside(g)
          /\ Waiting(g)' = IF g = h THEN Waiting(g) \cup {t} ELSE Waiting(g)

Enters(t, h) ==
    /\ t \in Threads /\ MayCall(t, h) /\ t \notin Inside(h)
    /\ Inside("write") = {}
    /\ h = "read" => Waiting("write") = {}
    /\ h = "write" => Inside("read") = {}
    /\ \A g \in Hows :
          /\ Inside(g)' = IF g = h THEN Inside(g) \cup {t} ELSE Inside(g)
          /\ Waiting(g)' = Waiting(g) \ {t}

Leaves(t) ==
    /\ t \in Inside("read") \cup Inside("write")
    /\ \A g \in Hows : Inside(g)' = Inside(g) \ {t} /\ Waiting(g)' = Waiting(g)

(* The loop of domLocksLock either queues the caller or lets it in, and it     *)
(* lets it in only under the abstract lock's conditions.                      *)
LEMMA AttemptEffects ==
    ASSUME Inv, NEW t \in Threads, NEW h \in Hows, MayCall(t, h),
           how' = [how EXCEPT ![t] = h],
           pc[t] \in {"out", "woken"}, pc[t] = "woken" => how[t] = h,
           Attempt(t, h, Seen(t, h))
    PROVE  Queues(t, h) \/ Enters(t, h)
<1>0. TypeOK /\ Exclusion /\ CountExact /\ WaitersExact BY DEF Inv
<1>1. t \notin Inside(h) BY DEF Inside
<1>2. CASE Blocked(h, Seen(t, h))
  <2>1. SleepStep(t, h) BY <1>2 DEF Attempt, SleepStep
  <2>2. QED BY <1>0, <1>1, <2>1, SleepSets DEF Queues
<1>3. CASE ~Blocked(h, Seen(t, h))
  <2>1. GrantStep(t, h) BY <1>3 DEF Attempt, GrantStep
  <2>2. Seen(t, h).lrcnt = dl.lrcnt /\ (h = "read" => Seen(t, h).numwr = dl.numwr)
    BY <1>0 DEF Seen, Counted, TypeOK, Hows
  <2>3. Inside("write") = {} /\ (h = "write" => Inside("read") = {})
    BY <1>0, <1>3, <2>2, LrcntMeaning DEF Blocked, Hows, TypeOK
  <2>4. h = "read" => Waiting("write") = {}
    BY <1>0, <1>3, <2>2, WaitersMeaning DEF Blocked, TypeOK
  <2>5. QED BY <1>0, <1>1, <2>1, <2>3, <2>4, GrantSets DEF Enters
<1>4. QED BY <1>2, <1>3

(* Every step keeps the sets, queues a thread, lets one in, or lets one out.   *)
LEMMA StepEffects ==
    ASSUME Inv, [Next]_vars
    PROVE  \/ Keeps
           \/ \E t \in Threads, h \in Hows : Queues(t, h) \/ Enters(t, h)
           \/ \E t \in Threads : Leaves(t)
<1>0. TypeOK /\ CallersOK BY DEF Inv
<1>1. ASSUME NEW t \in Threads, NEW h \in Hows, Lock(t, h)
      PROVE  Queues(t, h) \/ Enters(t, h)
  <2>1. Seen(t, h) = dl BY <1>1 DEF Lock, Seen
  <2>2. QED BY <1>1, <2>1, AttemptEffects DEF Lock
<1>2. ASSUME NEW t \in Threads, Recheck(t)
      PROVE  \E h \in Hows : Queues(t, h) \/ Enters(t, h)
  <2>1. PICK h \in Hows : h = how[t] BY <1>0 DEF TypeOK
  <2>2. /\ pc[t] = "woken" /\ Seen(t, h) = Counted(h, dl, -1)
        /\ how' = [how EXCEPT ![t] = h] /\ MayCall(t, h)
    BY <1>0, <1>2, <2>1 DEF Recheck, Seen, TypeOK, CallersOK
  <2>3. Attempt(t, h, Seen(t, h)) BY <1>2, <2>1, <2>2 DEF Recheck
  <2>4. QED BY <2>1, <2>2, <2>3, AttemptEffects
<1>3. ASSUME NEW t \in Threads, SpuriousWake(t) PROVE Keeps
  BY <1>0, <1>3 DEF SpuriousWake, Keeps, TypeOK, Inside, Waiting
<1>4. ASSUME NEW t \in Threads, Unlock(t) PROVE Leaves(t)
  <2>1. pc[t] = "in" /\ how' = how /\ t \in Inside("read") \cup Inside("write")
    BY <1>0, <1>4 DEF Unlock, TypeOK, Inside, Hows
  <2>2. \A u \in Threads :
          pc'[u] = IF u = t THEN "out"
                   ELSE IF pc[u] = "asleep" /\ how[u] \in Notified(dl') THEN "woken" ELSE pc[u]
    BY <1>0, <1>4 DEF Unlock, Woken, TypeOK
  <2>3. QED BY <2>1, <2>2 DEF Leaves, Inside, Waiting
<1>5. ASSUME UNCHANGED vars PROVE Keeps
  BY <1>5 DEF vars, Keeps, Inside, Waiting
<1>6. QED BY <1>1, <1>2, <1>3, <1>4, <1>5 DEF Next

(* A reader is admitted only when no writer waits, whatever the threads do.    *)
THEOREM WritersFirst == Spec => WriterPreference
<1>1. Inv /\ [Next]_vars
        => [Inside("read")' \subseteq Inside("read") \/ Waiting("write") = {}]_vars
  BY StepEffects DEF Keeps, Queues, Enters, Leaves, Hows
<1>2. QED BY <1>1, Invariance, PTL DEF Spec, WriterPreference

(* domlock.c's counters and condition variables implement the abstract lock of *)
(* RWLock.tla: each step maps to one of its steps or to none.                  *)
THEOREM Refinement == Spec => ImplementsRWLock
<1>1. Init => Abstract!Init
  BY DEF Init, Abstract!Init, Inside, Waiting
<1>2. Inv /\ [Next]_vars => [Abstract!Next]_(Abstract!vars)
  <2> SUFFICES ASSUME Inv, [Next]_vars
               PROVE  Abstract!Next \/ UNCHANGED Abstract!vars
    OBVIOUS
  <2>t. Threads = Abstract!Threads BY DEF Threads, Abstract!Threads
  <2>1. CASE Keeps
    BY <2>1 DEF Keeps, Hows, Abstract!vars
  <2>2. ASSUME NEW t \in Threads, NEW h \in Hows, Queues(t, h)
        PROVE  Abstract!Announce(t) \/ UNCHANGED Abstract!vars
    <3>1. h = "read" => UNCHANGED Abstract!vars BY <2>2 DEF Queues, Hows, Abstract!vars
    <3>2. h = "write" => Abstract!Announce(t)
      BY <2>2 DEF Queues, Hows, MayCall, Abstract!Announce
    <3>3. QED BY <3>1, <3>2 DEF Hows
  <2>3. ASSUME NEW t \in Threads, NEW h \in Hows, Enters(t, h)
        PROVE  Abstract!EnterRead(t) \/ Abstract!EnterWrite(t)
    <3>1. h = "read" => Abstract!EnterRead(t)
      BY <2>3 DEF Enters, Hows, MayCall, Abstract!EnterRead
    <3>2. h = "write" => Abstract!EnterWrite(t)
      BY <2>3 DEF Enters, Hows, MayCall, Abstract!EnterWrite
    <3>3. QED BY <3>1, <3>2 DEF Hows
  <2>4. ASSUME NEW t \in Threads, Leaves(t) PROVE Abstract!Leave(t)
    BY <2>4 DEF Leaves, Hows, Abstract!Leave
  <2>5. QED BY <2>t, <2>1, <2>2, <2>3, <2>4, StepEffects DEF Abstract!Next
<1>3. QED BY <1>1, <1>2, Invariance, PTL DEF Spec, ImplementsRWLock, Abstract!Spec
=============================================================================
