---------------------------- MODULE HwLockProofs ----------------------------
(***************************************************************************)
(* Proofs about HwLock for any finite set of users.                        *)
(***************************************************************************)
EXTENDS HwLock, FiniteSetTheorems, TLAPS

USE UsersAssumption, MaxUsesAssumption

(* Locations at which the hardware may hold a lock or a request of the A55  *)
(* that no user counts for yet, or no longer.                               *)
Unsettled(a) == pc[a] \in {"recheck", "cancel", "grant", "dreq"}

(* How the hardware and the count agree at each location. *)
HwInv == /\ \A a \in Actors : pc[a] \in {"request", "recheck", "cancel", "dreq"} => count = 0
         /\ \A a \in Actors : pc[a] = "grant" => owner = "A55"
         /\ count > 0 => owner = "A55"
         /\ count = 0 /\ (\A a \in Actors : ~Unsettled(a)) => owner # "A55" /\ ~req

(* Only the shutdown path releases what it does not hold. *)
UserInv == /\ pc[Platform] # "idle" => shut
           /\ \A u \in Users : pc[u] # "idle" => u \notin holding

(* The shutdown path has not taken its share yet. *)
Intact == ~shut \/ pc[Platform] \in {"release", "drop"}

(* The count is exact until then, and one share behind at most afterwards.  *)
CountInv == count = Due \/ (~Intact /\ count + 1 = Due)

(* The inductive invariant. *)
IInv == TypeOK /\ SemHeld /\ HwInv /\ UserInv /\ CountInv

LEMMA StepCases ==
    ASSUME [Next]_vars
    PROVE  \/ \E u \in Users : \/ CallAcquire(u) \/ AcquireDown(u) \/ InAcquire(u)
                               \/ CallRelease(u)
           \/ \E a \in Actors : ReleaseDown(a) \/ InRelease(a)
           \/ CallShutdown
           \/ M3Take \/ M3Release
           \/ UNCHANGED vars
BY DEF Next

LEMMA TypeStep == TypeOK /\ [Next]_vars => TypeOK'
<1> SUFFICES ASSUME TypeOK, [Next]_vars PROVE TypeOK'
  OBVIOUS
<1> USE DEF TypeOK, Locations, Goto, Up, Down, hwVars, Actors
<1>1. ASSUME NEW u \in Users, CallAcquire(u) PROVE TypeOK'
  BY <1>1 DEF CallAcquire
<1>2. ASSUME NEW u \in Users, AcquireDown(u) PROVE TypeOK'
  BY <1>2 DEF AcquireDown
<1>3. ASSUME NEW u \in Users, InAcquire(u) PROVE TypeOK'
  <2>1. CASE AcquireInterrupted(u)
    BY <2>1 DEF AcquireInterrupted
  <2>2. CASE Query(u)
    BY <2>2 DEF Query
  <2>3. CASE RequestLock(u)
    BY <2>3 DEF RequestLock
  <2>4. CASE Recheck(u)
    BY <2>4 DEF Recheck, RecheckTo
  <2>5. CASE Cancel(u)
    BY <2>5 DEF Cancel, WriteDreq
  <2>6. CASE Grant(u)
    BY <2>6 DEF Grant, CountUp
  <2> QED
    BY <1>3, <2>1, <2>2, <2>3, <2>4, <2>5, <2>6 DEF InAcquire
<1>4. ASSUME NEW u \in Users, CallRelease(u) PROVE TypeOK'
  BY <1>4 DEF CallRelease
<1>5. ASSUME NEW a \in Actors, ReleaseDown(a) PROVE TypeOK'
  BY <1>5 DEF ReleaseDown
<1>6. ASSUME NEW a \in Actors, InRelease(a) PROVE TypeOK'
  <2>1. CASE ReleaseInterrupted(a)
    BY <2>1 DEF ReleaseInterrupted
  <2>2. CASE Drop(a)
    <3>1. count' \in Nat
      BY <2>2 DEF Drop, Spare
    <3>2. sem' \in BOOLEAN /\ pc' \in [Actors -> Locations]
      <4>1. CASE Spare(a)
        BY <2>2, <4>1 DEF Drop
      <4>2. CASE ~Spare(a) /\ Last(a)
        BY <2>2, <4>2 DEF Drop
      <4>3. CASE ~Spare(a) /\ ~Last(a)
        BY <2>2, <4>3 DEF Drop
      <4> QED
        BY <4>1, <4>2, <4>3
    <3> QED
      BY <2>2, <3>1, <3>2 DEF Drop
  <2>3. CASE Dreq(a)
    BY <2>3 DEF Dreq, WriteDreq
  <2> QED
    BY <1>6, <2>1, <2>2, <2>3 DEF InRelease
<1>7. CASE CallShutdown
  BY <1>7 DEF CallShutdown
<1>8. CASE M3Take
  BY <1>8 DEF M3Take
<1>9. CASE M3Release
  BY <1>9 DEF M3Release
<1>10. CASE UNCHANGED vars
  BY <1>10 DEF vars
<1> QED
  BY <1>1, <1>2, <1>3, <1>4, <1>5, <1>6, <1>7, <1>8, <1>9, <1>10, StepCases

(* The semaphore: who enters takes it, who leaves gives it back. *)
LEMMA SemStep == TypeOK /\ SemHeld /\ [Next]_vars => SemHeld'
<1> SUFFICES ASSUME TypeOK, SemHeld, [Next]_vars PROVE SemHeld'
  OBVIOUS
<1> USE DEF TypeOK, SemHeld, Inside, Goto, Up, Down, Actors
<1>1. ASSUME NEW u \in Users, CallAcquire(u) PROVE SemHeld'
  BY <1>1 DEF CallAcquire
<1>2. ASSUME NEW u \in Users, AcquireDown(u) PROVE SemHeld'
  BY <1>2 DEF AcquireDown
<1>3. ASSUME NEW u \in Users, InAcquire(u) PROVE SemHeld'
  <2>1. CASE AcquireInterrupted(u)
    BY <2>1 DEF AcquireInterrupted
  <2>2. CASE Query(u)
    BY <2>2 DEF Query
  <2>3. CASE RequestLock(u)
    BY <2>3 DEF RequestLock
  <2>4. CASE Recheck(u)
    BY <2>4 DEF Recheck, RecheckTo
  <2>5. CASE Cancel(u)
    BY <2>5 DEF Cancel
  <2>6. CASE Grant(u)
    BY <2>6 DEF Grant
  <2> QED
    BY <1>3, <2>1, <2>2, <2>3, <2>4, <2>5, <2>6 DEF InAcquire
<1>4. ASSUME NEW u \in Users, CallRelease(u) PROVE SemHeld'
  BY <1>4 DEF CallRelease
<1>5. ASSUME NEW a \in Actors, ReleaseDown(a) PROVE SemHeld'
  BY <1>5 DEF ReleaseDown
<1>6. ASSUME NEW a \in Actors, InRelease(a) PROVE SemHeld'
  <2>1. CASE ReleaseInterrupted(a)
    BY <2>1 DEF ReleaseInterrupted
  <2>2. CASE Drop(a)
    BY <2>2 DEF Drop
  <2>3. CASE Dreq(a)
    BY <2>3 DEF Dreq
  <2> QED
    BY <1>6, <2>1, <2>2, <2>3 DEF InRelease
<1>7. CASE CallShutdown
  BY <1>7 DEF CallShutdown
<1>8. CASE M3Take
  BY <1>8 DEF M3Take
<1>9. CASE M3Release
  BY <1>9 DEF M3Release
<1>10. CASE UNCHANGED vars
  BY <1>10 DEF vars
<1> QED
  BY <1>1, <1>2, <1>3, <1>4, <1>5, <1>6, <1>7, <1>8, <1>9, <1>10, StepCases

(* The hardware and the count.  A step at an unsettled location is the only *)
(* call inside (SemHeld), so it decides alone what is left in the hardware. *)
LEMMA HwStep == TypeOK /\ SemHeld /\ HwInv /\ [Next]_vars => HwInv'
<1> SUFFICES ASSUME TypeOK, SemHeld, HwInv, [Next]_vars PROVE HwInv'
  OBVIOUS
<1> USE DEF TypeOK, SemHeld, Inside, HwInv, Unsettled, Goto, Up, Down, hwVars, Actors
<1>1. ASSUME NEW u \in Users, CallAcquire(u) PROVE HwInv'
  BY <1>1 DEF CallAcquire
<1>2. ASSUME NEW u \in Users, AcquireDown(u) PROVE HwInv'
  BY <1>2 DEF AcquireDown
<1>3. ASSUME NEW u \in Users, InAcquire(u) PROVE HwInv'
  <2>1. CASE AcquireInterrupted(u)
    BY <2>1 DEF AcquireInterrupted
  <2>2. CASE Query(u)
    BY <2>2 DEF Query
  <2>3. CASE RequestLock(u)
    BY <2>3 DEF RequestLock
  <2>4. CASE Recheck(u)
    BY <2>4 DEF Recheck, RecheckTo
  <2>5. CASE Cancel(u)
    BY <2>5 DEF Cancel, WriteDreq
  <2>6. CASE Grant(u)
    BY <2>6 DEF Grant, CountUp
  <2> QED
    BY <1>3, <2>1, <2>2, <2>3, <2>4, <2>5, <2>6 DEF InAcquire
<1>4. ASSUME NEW u \in Users, CallRelease(u) PROVE HwInv'
  BY <1>4 DEF CallRelease
<1>5. ASSUME NEW a \in Actors, ReleaseDown(a) PROVE HwInv'
  BY <1>5 DEF ReleaseDown
<1>6. ASSUME NEW a \in Actors, InRelease(a) PROVE HwInv'
  <2>1. CASE ReleaseInterrupted(a)
    BY <2>1 DEF ReleaseInterrupted
  <2>2. CASE Drop(a)
    BY <2>2 DEF Drop, Spare, Last
  <2>3. CASE Dreq(a)
    BY <2>3 DEF Dreq, WriteDreq
  <2> QED
    BY <1>6, <2>1, <2>2, <2>3 DEF InRelease
<1>7. CASE CallShutdown
  BY <1>7 DEF CallShutdown
<1>8. CASE M3Take
  BY <1>8 DEF M3Take
<1>9. CASE M3Release
  BY <1>9 DEF M3Release
<1>10. CASE UNCHANGED vars
  BY <1>10 DEF vars
<1> QED
  BY <1>1, <1>2, <1>3, <1>4, <1>5, <1>6, <1>7, <1>8, <1>9, <1>10, StepCases

LEMMA UserStep == TypeOK /\ UserInv /\ [Next]_vars => UserInv'
<1> SUFFICES ASSUME TypeOK, UserInv, [Next]_vars PROVE UserInv'
  OBVIOUS
<1> USE DEF TypeOK, UserInv, Goto, Up, Down, Actors
<1>1. ASSUME NEW u \in Users, CallAcquire(u) PROVE UserInv'
  BY <1>1 DEF CallAcquire
<1>2. ASSUME NEW u \in Users, AcquireDown(u) PROVE UserInv'
  BY <1>2 DEF AcquireDown
<1>3. ASSUME NEW u \in Users, InAcquire(u) PROVE UserInv'
  BY <1>3 DEF InAcquire, AcquireInterrupted, Query, RequestLock, Recheck, RecheckTo, Cancel,
              Grant
<1>4. ASSUME NEW u \in Users, CallRelease(u) PROVE UserInv'
  BY <1>4 DEF CallRelease
<1>5. ASSUME NEW a \in Actors, ReleaseDown(a) PROVE UserInv'
  BY <1>5 DEF ReleaseDown
<1>6. ASSUME NEW a \in Actors, InRelease(a) PROVE UserInv'
  BY <1>6 DEF InRelease, ReleaseInterrupted, Drop, Dreq
<1>7. CASE CallShutdown
  BY <1>7 DEF CallShutdown
<1>8. CASE M3Take
  BY <1>8 DEF M3Take
<1>9. CASE M3Release
  BY <1>9 DEF M3Release
<1>10. CASE UNCHANGED vars
  BY <1>10 DEF vars
<1> QED
  BY <1>1, <1>2, <1>3, <1>4, <1>5, <1>6, <1>7, <1>8, <1>9, <1>10, StepCases

-----------------------------------------------------------------------------
LEMMA FiniteParts ==
    ASSUME TypeOK
    PROVE  /\ IsFiniteSet(holding) /\ Cardinality(holding) \in Nat
           /\ IsFiniteSet(Leaving) /\ Cardinality(Leaving) \in Nat
           /\ Due \in Nat
<1>1. holding \in SUBSET Users /\ Leaving \in SUBSET Users
  BY DEF TypeOK, Leaving
<1>2. IsFiniteSet(holding) /\ IsFiniteSet(Leaving)
  BY <1>1, FS_Subset
<1>3. Cardinality(holding) \in Nat /\ Cardinality(Leaving) \in Nat
  BY <1>2, FS_CardinalityType
<1> QED
  BY <1>2, <1>3 DEF TypeOK, Due

(* What is due changes with the users, one at a time: it grows with a       *)
(* grant, moves from holder to leaver to leaked, and shrinks with a drop;   *)
(* the shutdown path adds a release that was never due when it is           *)
(* interrupted.                                                             *)
LEMMA DueGrant ==
    ASSUME TypeOK, UserInv, NEW u \in Users, Grant(u)
    PROVE  Due' = Due + 1 /\ count' = count + 1
<1>1. count' = count + 1 /\ holding' = holding \cup {u} /\ leaked' = leaked
  BY DEF Grant, CountUp
<1>2. Leaving' = Leaving
  BY DEF Grant, Leaving, Up, Goto, TypeOK, Actors
<1>3. u \notin holding
  BY DEF Grant, UserInv
<1>4. Cardinality(holding') = Cardinality(holding) + 1
  BY <1>1, <1>3, FiniteParts, FS_AddElement
<1> QED
  BY <1>1, <1>2, <1>4, FiniteParts DEF TypeOK, Due

LEMMA DueRelease ==
    ASSUME TypeOK, NEW u \in Users, CallRelease(u)
    PROVE  Due' = Due /\ count' = count
<1>1. count' = count /\ holding' = holding \ {u} /\ u \in holding /\ leaked' = leaked
  BY DEF CallRelease
<1>2. Leaving' = Leaving \cup {u} /\ u \notin Leaving
  BY DEF CallRelease, Leaving, Goto, TypeOK, Actors
<1>3. Cardinality(holding') = Cardinality(holding) - 1
  BY <1>1, FiniteParts, FS_RemoveElement
<1>4. Cardinality(Leaving') = Cardinality(Leaving) + 1
  BY <1>2, FiniteParts, FS_AddElement
<1> QED
  BY <1>1, <1>3, <1>4, FiniteParts DEF TypeOK, Due

LEMMA DueInterrupted ==
    ASSUME TypeOK, NEW a \in Actors, ReleaseInterrupted(a)
    PROVE  /\ count' = count
           /\ a \in Users => Due' = Due
           /\ a = Platform => Due' = Due + 1
<1>1. count' = count /\ holding' = holding /\ leaked' = leaked + 1
  BY DEF ReleaseInterrupted
<1>2. ASSUME a \in Users PROVE Due' = Due
  <2>1. Leaving' = Leaving \ {a} /\ a \in Leaving
    BY <1>2 DEF ReleaseInterrupted, Leaving, Goto, TypeOK, Actors
  <2>2. Cardinality(Leaving') = Cardinality(Leaving) - 1
    BY <2>1, FiniteParts, FS_RemoveElement
  <2> QED
    BY <1>1, <2>2, FiniteParts DEF TypeOK, Due
<1>3. ASSUME a = Platform PROVE Due' = Due + 1
  <2>1. Leaving' = Leaving
    BY <1>3 DEF ReleaseInterrupted, Leaving, Goto, TypeOK, Actors
  <2> QED
    BY <1>1, <2>1, FiniteParts DEF TypeOK, Due
<1> QED
  BY <1>1, <1>2, <1>3

LEMMA DueDrop ==
    ASSUME TypeOK, NEW a \in Actors, Drop(a)
    PROVE  /\ count = 0 => count' = 0
           /\ count # 0 => count' = count - 1
           /\ a \in Users => Due' = Due - 1 /\ Due > 0
           /\ a = Platform => Due' = Due
<1>1. holding' = holding /\ leaked' = leaked
  BY DEF Drop
<1>2. (count = 0 => count' = 0) /\ (count # 0 => count' = count - 1)
  BY DEF Drop, Spare, TypeOK
<1>3. ASSUME a \in Users PROVE Due' = Due - 1 /\ Due > 0
  <2>1. Leaving' = Leaving \ {a} /\ a \in Leaving
    BY <1>3 DEF Drop, Leaving, Up, Goto, TypeOK, Actors
  <2>2. Cardinality(Leaving') = Cardinality(Leaving) - 1 /\ Cardinality(Leaving') \in Nat
    BY <2>1, FiniteParts, FS_RemoveElement, FS_CardinalityType
  <2> QED
    BY <1>1, <2>2, FiniteParts DEF TypeOK, Due
<1>4. ASSUME a = Platform PROVE Due' = Due
  <2>1. Leaving' = Leaving
    BY <1>4 DEF Drop, Leaving, Up, Goto, TypeOK, Actors
  <2> QED
    BY <1>1, <2>1 DEF Due
<1> QED
  BY <1>2, <1>3, <1>4

(* The steps of users leave the shutdown path where it is. *)
LEMMA IntactStep ==
    ASSUME TypeOK, UserInv, [Next]_vars
    PROVE  \/ Intact' = Intact
           \/ ReleaseInterrupted(Platform) \/ Drop(Platform)
<1>1. ASSUME NEW u \in Users, \/ CallAcquire(u) \/ AcquireDown(u) \/ CallRelease(u)
      PROVE  Intact' = Intact
  BY <1>1 DEF CallAcquire, AcquireDown, CallRelease, Intact, Goto, Down, TypeOK, Actors
<1>2. ASSUME NEW u \in Users, InAcquire(u) PROVE Intact' = Intact
  BY <1>2 DEF InAcquire, AcquireInterrupted, Query, RequestLock, Recheck, RecheckTo, Cancel,
              Grant, Intact, Goto, Up, TypeOK, Actors
<1>3. ASSUME NEW a \in Actors, ReleaseDown(a) PROVE Intact' = Intact
  BY <1>3 DEF ReleaseDown, Intact, Goto, Down, TypeOK
<1>4. ASSUME NEW a \in Users, InRelease(a) PROVE Intact' = Intact
  BY <1>4 DEF InRelease, ReleaseInterrupted, Drop, Dreq, Intact, Goto, Up, TypeOK, Actors
<1>5. ASSUME Dreq(Platform) PROVE Intact' = Intact
  BY <1>5 DEF Dreq, Intact, Goto, Up, TypeOK, Actors
<1>6. CASE CallShutdown
  BY <1>6 DEF CallShutdown, Intact, Goto, TypeOK, Actors
<1>7. CASE M3Take \/ M3Release \/ UNCHANGED vars
  BY <1>7 DEF M3Take, M3Release, vars, Intact
<1> QED
  BY <1>1, <1>2, <1>3, <1>4, <1>5, <1>6, <1>7, StepCases DEF InRelease, Actors

(* Only the shutdown path, once, lets the count fall behind what is due; a  *)
(* user's release that finds a count of 0 makes up for it.                  *)
LEMMA CountStep == TypeOK /\ UserInv /\ CountInv /\ [Next]_vars => CountInv'
<1> SUFFICES ASSUME TypeOK, UserInv, CountInv, [Next]_vars PROVE CountInv'
  OBVIOUS
<1>f. Due \in Nat /\ count \in Nat
  BY FiniteParts DEF TypeOK
<1>i. \/ Intact' = Intact
      \/ ReleaseInterrupted(Platform) \/ Drop(Platform)
  BY IntactStep
<1> DEFINE Same == count' = count /\ Due' = Due
<1> DEFINE Mine == ReleaseInterrupted(Platform) \/ Drop(Platform)
<1>q. ASSUME Same, ~Mine PROVE CountInv'
  BY <1>q, <1>i, <1>f DEF CountInv
<1>m. ASSUME Mine PROVE CountInv'
  <2>1. Intact /\ count = Due /\ Platform \in Actors
    BY <1>m DEF ReleaseInterrupted, Drop, Intact, CountInv, Actors
  <2>2. ~Intact'
    BY <1>m, <2>1 DEF ReleaseInterrupted, Drop, Intact, UserInv, Goto, Up, TypeOK
  <2>3. CASE ReleaseInterrupted(Platform)
    BY <2>1, <2>2, <2>3, <1>f, DueInterrupted DEF CountInv
  <2>4. CASE Drop(Platform)
    BY <2>1, <2>2, <2>4, <1>f, DueDrop DEF CountInv
  <2> QED
    BY <1>m, <2>3, <2>4
<1>1. ASSUME NEW u \in Users, CallAcquire(u) PROVE Same
  BY <1>1 DEF CallAcquire, Leaving, Due, Goto, TypeOK, Actors
<1>2. ASSUME NEW u \in Users, AcquireDown(u) PROVE Same
  BY <1>2 DEF AcquireDown, Leaving, Due, Goto, Down, TypeOK, Actors
<1>3. ASSUME NEW u \in Users, InAcquire(u), ~Grant(u) PROVE Same
  <2>1. Leaving' = Leaving /\ count' = count /\ holding' = holding /\ leaked' = leaked
    BY <1>3 DEF InAcquire, AcquireInterrupted, Query, RequestLock, Recheck, RecheckTo, Cancel,
                Leaving, Goto, Up, TypeOK, Actors
  <2> QED
    BY <2>1 DEF Due
<1>4. ASSUME NEW u \in Users, Grant(u), ~Mine PROVE CountInv'
  <2>1. Due' = Due + 1 /\ count' = count + 1
    BY <1>4, DueGrant
  <2> QED
    BY <1>4, <2>1, <1>i, <1>f DEF CountInv
<1>5. ASSUME NEW u \in Users, CallRelease(u) PROVE Same
  BY <1>5, DueRelease
<1>6. ASSUME NEW a \in Actors, ReleaseDown(a) PROVE Same
  BY <1>6 DEF ReleaseDown, Leaving, Due, Goto, Down, TypeOK, Actors
<1>7. ASSUME NEW u \in Users, ReleaseInterrupted(u) PROVE Same
  BY <1>7, DueInterrupted DEF Actors
<1>8. ASSUME NEW u \in Users, Drop(u), ~Mine PROVE CountInv'
  <2>1. /\ count = 0 => count' = 0
        /\ count # 0 => count' = count - 1
        /\ Due' = Due - 1 /\ Due > 0
    BY <1>8, DueDrop DEF Actors
  <2> QED
    BY <1>8, <2>1, <1>i, <1>f DEF CountInv
<1>9. ASSUME NEW a \in Actors, Dreq(a) PROVE Same
  BY <1>9 DEF Dreq, Leaving, Due, Up, Goto, TypeOK, Actors
<1>10. ASSUME CallShutdown PROVE Same
  BY <1>10 DEF CallShutdown, Leaving, Due, Goto, TypeOK, Actors
<1>11. ASSUME M3Take \/ M3Release \/ UNCHANGED vars PROVE Same
  BY <1>11 DEF M3Take, M3Release, vars, Leaving, Due
<1>12. ASSUME NEW a \in Actors, a = Platform, InRelease(a) PROVE Mine \/ Same
  BY <1>12, <1>9 DEF InRelease
<1> HIDE DEF Same, CountInv
<1>13. CASE Mine
  BY <1>13, <1>m
<1>14. CASE ~Mine
  BY <1>14, <1>q, <1>1, <1>2, <1>3, <1>4, <1>5, <1>6, <1>7, <1>8, <1>9, <1>10, <1>11, <1>12,
     StepCases DEF InRelease, Actors
<1> QED
  BY <1>13, <1>14

-----------------------------------------------------------------------------
LEMMA InitIInv == Init => IInv
<1> SUFFICES ASSUME Init PROVE IInv
  OBVIOUS
<1> USE DEF Init
<1>1. TypeOK
  <2>1. req \in BOOLEAN /\ sem \in BOOLEAN /\ shut \in BOOLEAN
    BY Zenon
  <2>2. pc \in [Actors -> Locations] /\ uses \in [Users -> 0..MaxUses]
    BY DEF Locations
  <2>3. owner \in {"none", "A55", "M3"} /\ holding \subseteq Users
    BY Zenon
  <2> QED
    BY <2>1, <2>2, <2>3 DEF TypeOK
<1>2. SemHeld
  BY DEF SemHeld, Inside
<1>3. HwInv
  BY DEF HwInv
<1>4. UserInv
  BY DEF UserInv, Actors
<1>5. CountInv
  <2>1. Leaving = {}
    BY DEF Leaving, Actors
  <2> QED
    BY <2>1, FS_EmptySet DEF CountInv, Due
<1> QED
  BY <1>1, <1>2, <1>3, <1>4, <1>5 DEF IInv

(* The invariant is inductive: it holds in every state of every behaviour   *)
(* of the driver, for any finite set of users.                              *)
THEOREM Invariance == Spec => []IInv
<1>1. IInv /\ [Next]_vars => IInv'
  BY TypeStep, SemStep, HwStep, UserStep, CountStep DEF IInv
<1> QED
  BY InitIInv, <1>1, PTL DEF Spec

(* The state of the driver keeps its types; in particular lock_count never  *)
(* goes below 0, also when hi_mci_shutdown releases what it does not hold.  *)
THEOREM TypeCorrect == Spec => []TypeOK
<1>1. IInv => TypeOK
  BY DEF IInv
<1> QED
  BY Invariance, <1>1, PTL

(* The semaphore of hw_lock.c is taken exactly while one user is between    *)
(* its down and its up: no path keeps it or gives it back twice.            *)
THEOREM SemCorrect == Spec => []SemHeld
<1>1. IInv => SemHeld
  BY DEF IInv
<1> QED
  BY Invariance, <1>1, PTL

(* While a user holds the lock the M3 does not; after the shutdown path of  *)
(* the eMMC driver has released a share that is not its own, this still     *)
(* holds under two users.                                                   *)
THEOREM ExcludesM3 == Spec => []M3Excluded
<1>1. IInv => M3Excluded
  <2> SUFFICES ASSUME IInv, holding # {}, shut => Cardinality(holding) > 1 PROVE owner = "A55"
    BY DEF M3Excluded
  <2>1. Cardinality(holding) \in Nat /\ Cardinality(Leaving) \in Nat /\ Cardinality(holding) # 0
    BY FiniteParts, FS_EmptySet DEF IInv
  <2>2. count \in Nat /\ leaked \in Nat
    BY DEF IInv, TypeOK
  <2>3. Due >= 1 /\ (shut => Due >= 2)
    BY <2>1, <2>2 DEF Due
  <2>4. count = Due \/ (shut /\ count + 1 = Due)
    BY DEF IInv, CountInv, Intact
  <2>5. Due \in Nat
    BY FiniteParts DEF IInv
  <2>6. count > 0
    BY <2>2, <2>3, <2>4, <2>5
  <2> QED
    BY <2>6 DEF IInv, HwInv
<1> QED
  BY Invariance, <1>1, PTL

(* lock_count counts the users and the releases a signal ended; only the    *)
(* shutdown path makes it fall behind, and only by one.                     *)
THEOREM CountsUsers == Spec => []CountExact
<1>1. IInv => CountExact
  BY DEF IInv, CountInv, Intact, CountExact
<1> QED
  BY Invariance, <1>1, PTL

(* An unused lock leaves nothing of the A55 in the hardware. *)
THEOREM LeavesNothing == Spec => []NothingStranded
<1>1. IInv => NothingStranded
  BY DEF IInv, NothingStranded, SemHeld, Inside, HwInv, Unsettled
<1> QED
  BY Invariance, <1>1, PTL
=============================================================================
