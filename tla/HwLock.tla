------------------------------- MODULE HwLock -------------------------------
(***************************************************************************)
(* One hardware lock between the Linux cores (A55) and the secure M3:      *)
(* src/non_real_time/drivers/hw_lock/hw_lock.c.                            *)
(*                                                                         *)
(* The hardware knows one A55 owner; the driver shares it among the users  *)
(* of the A55 side with a counter under a semaphore.  Waiting for the      *)
(* semaphore can be interrupted by a signal, in the release as well.       *)
(* Locks differ only in their id, so one is modelled.                      *)
(***************************************************************************)
EXTENDS Naturals, FiniteSets

CONSTANTS Users,     \* drivers that acquire and release the lock
          Platform,  \* the shutdown path of the eMMC driver (himci.c)
          MaxUses    \* bound: acquisitions each user tries

ASSUME UsersAssumption == IsFiniteSet(Users) /\ Platform \notin Users
ASSUME MaxUsesAssumption == MaxUses \in Nat

Actors == Users \cup {Platform}

VARIABLES owner,    \* LOCK_CORE_ST: who holds the hardware lock
          req,      \* an A55 request waits in the hardware
          sem,      \* hw_sem is free
          count,    \* lock_count
          pc,       \* pc[a]: where actor a is
          holding,  \* users whose acquire succeeded and who did not release
          leaked,   \* releases that a signal ended before they did anything
          shut,     \* the shutdown path has called hw_release_hard_lock
          uses      \* uses[u]: acquisitions tried

hwVars == <<owner, req>>
vars   == <<owner, req, sem, count, pc, holding, leaked, shut, uses>>

Init == /\ owner = "none" /\ req = FALSE
        /\ sem = TRUE
        /\ count = 0
        /\ pc = [a \in Actors |-> "idle"]
        /\ holding = {}
        /\ leaked = 0
        /\ shut = FALSE
        /\ uses = [u \in Users |-> 0]

Goto(a, l) == pc' = [pc EXCEPT ![a] = l]

(* Mutant: a return path that keeps the semaphore. *)
UpNot(a) == sem' = sem /\ Goto(a, "idle")

(* up(), and the function returns. *)
Up(a) == sem' = TRUE /\ Goto(a, "idle")

(* down_interruptible: the semaphore is taken ... *)
Down(a, l) == sem /\ sem' = FALSE /\ Goto(a, l)

-----------------------------------------------------------------------------
CallAcquire(u) ==
    /\ pc[u] = "idle" /\ u \notin holding /\ uses[u] < MaxUses
    /\ uses' = [uses EXCEPT ![u] = @ + 1]
    /\ Goto(u, "acquire")
    /\ UNCHANGED <<hwVars, sem, count, holding, leaked, shut>>

AcquireDown(u) ==
    /\ pc[u] = "acquire"
    /\ Down(u, "query")
    /\ UNCHANGED <<hwVars, count, holding, leaked, shut, uses>>

(* ... or a signal arrives first. *)
AcquireInterrupted(u) ==
    /\ pc[u] = "acquire"
    /\ Goto(u, "idle")
    /\ UNCHANGED <<hwVars, sem, count, holding, leaked, shut, uses>>

(* hw_get_hard_lock: the M3's lock is refused, the A55's is shared. *)
Query(u) ==
    /\ pc[u] = "query"
    /\ \/ owner = "M3" /\ Up(u)
       \/ owner = "A55" /\ Goto(u, "grant") /\ UNCHANGED sem
       \/ owner = "none" /\ Goto(u, "request") /\ UNCHANGED sem
    /\ UNCHANGED <<hwVars, count, holding, leaked, shut, uses>>

(* The request is written; the M3 may have been faster. *)
RequestLock(u) ==
    /\ pc[u] = "request"
    /\ owner' = IF owner = "none" THEN "A55" ELSE owner
    /\ req' = (owner = "M3")
    /\ Goto(u, "recheck")
    /\ UNCHANGED <<sem, count, holding, leaked, shut, uses>>

RecheckTo(u) == IF owner = "A55" THEN "grant" ELSE "cancel"

Recheck(u) ==
    /\ pc[u] = "recheck"
    /\ Goto(u, RecheckTo(u))
    /\ UNCHANGED <<hwVars, sem, count, holding, leaked, shut, uses>>

WriteDreq == owner' = (IF owner = "A55" THEN "none" ELSE owner) /\ req' = FALSE

(* Mutant: the failed request is left in the hardware. *)
CancelNot(u) ==
    /\ pc[u] = "cancel"
    /\ Up(u)
    /\ UNCHANGED <<hwVars, count, holding, leaked, shut, uses>>

(* The request is withdrawn and the acquire fails. *)
Cancel(u) ==
    /\ pc[u] = "cancel"
    /\ IF count = 0 THEN WriteDreq ELSE UNCHANGED hwVars
    /\ Up(u)
    /\ UNCHANGED <<count, holding, leaked, shut, uses>>

(* Mutant: the lock is marked as used instead of counted. *)
CountUpOnce(u) == 1

CountUp(u) == count + 1

Grant(u) ==
    /\ pc[u] = "grant"
    /\ count' = CountUp(u)
    /\ holding' = holding \cup {u}
    /\ Up(u)
    /\ UNCHANGED <<hwVars, leaked, shut, uses>>

-----------------------------------------------------------------------------
CallRelease(u) ==
    /\ pc[u] = "idle" /\ u \in holding
    /\ holding' = holding \ {u}
    /\ Goto(u, "release")
    /\ UNCHANGED <<hwVars, sem, count, leaked, shut, uses>>

(* hi_mci_shutdown: a lock held by the A55 is released, whoever holds it. *)
CallShutdown ==
    /\ pc[Platform] = "idle" /\ ~shut
    /\ owner = "A55"
    /\ shut' = TRUE
    /\ Goto(Platform, "release")
    /\ UNCHANGED <<hwVars, sem, count, holding, leaked, uses>>

ReleaseDown(a) ==
    /\ pc[a] = "release"
    /\ Down(a, "drop")
    /\ UNCHANGED <<hwVars, count, holding, leaked, shut, uses>>

(* hw_release_hard_lock returns without a word to its caller. *)
ReleaseInterrupted(a) ==
    /\ pc[a] = "release"
    /\ leaked' = leaked + 1
    /\ Goto(a, "idle")
    /\ UNCHANGED <<hwVars, sem, count, holding, shut, uses>>

(* Mutant: lock_count is decremented unchecked. *)
SpareNever(a) == FALSE

Spare(a) == count = 0

(* Mutant: the hardware lock is given back by every release. *)
LastAlways(a) == TRUE

Last(a) == count' = 0

(* "No one is using the lock", or one user fewer. *)
Drop(a) ==
    /\ pc[a] = "drop"
    /\ \/ Spare(a) /\ Up(a) /\ UNCHANGED count
       \/ /\ ~Spare(a)
          /\ count' = count - 1
          /\ IF Last(a) THEN Goto(a, "dreq") /\ UNCHANGED sem ELSE Up(a)
    /\ UNCHANGED <<hwVars, holding, leaked, shut, uses>>

Dreq(a) ==
    /\ pc[a] = "dreq"
    /\ WriteDreq
    /\ Up(a)
    /\ UNCHANGED <<count, holding, leaked, shut, uses>>

-----------------------------------------------------------------------------
M3Take == /\ owner = "none"
          /\ owner' = "M3"
          /\ UNCHANGED <<req, sem, count, pc, holding, leaked, shut, uses>>

(* A waiting A55 request is granted. *)
M3Release == /\ owner = "M3"
             /\ owner' = IF req THEN "A55" ELSE "none"
             /\ req' = FALSE
             /\ UNCHANGED <<sem, count, pc, holding, leaked, shut, uses>>

InAcquire(u) == \/ AcquireInterrupted(u) \/ Query(u) \/ RequestLock(u)
                \/ Recheck(u) \/ Cancel(u) \/ Grant(u)

InRelease(a) == ReleaseInterrupted(a) \/ Drop(a) \/ Dreq(a)

Next == \/ \E u \in Users : CallAcquire(u) \/ AcquireDown(u) \/ InAcquire(u) \/ CallRelease(u)
        \/ \E a \in Actors : ReleaseDown(a) \/ InRelease(a)
        \/ CallShutdown
        \/ M3Take \/ M3Release

Spec == Init /\ [][Next]_vars

(* The kernel runs every task, and a semaphore's waiters are served in      *)
(* order; signals are not promised to come.                                 *)
FairSpec ==
    /\ Spec
    /\ \A u \in Users : /\ SF_vars(AcquireDown(u))
                        /\ WF_vars(Query(u) \/ RequestLock(u) \/ Recheck(u) \/ Cancel(u) \/ Grant(u))
    /\ \A a \in Actors : SF_vars(ReleaseDown(a)) /\ WF_vars(Drop(a) \/ Dreq(a))

-----------------------------------------------------------------------------
Locations == {"idle", "acquire", "query", "request", "recheck", "cancel", "grant",
              "release", "drop", "dreq"}

(* Every variable has the type the code gives it; lock_count is unsigned    *)
(* and must not wrap below zero, also after a release nobody was due.       *)
TypeOK == /\ owner \in {"none", "A55", "M3"}
          /\ req \in BOOLEAN
          /\ sem \in BOOLEAN
          /\ count \in Nat
          /\ pc \in [Actors -> Locations]
          /\ holding \subseteq Users
          /\ leaked \in Nat
          /\ shut \in BOOLEAN
          /\ uses \in [Users -> 0..MaxUses]

Inside(a) == pc[a] \in {"query", "request", "recheck", "cancel", "grant", "drop", "dreq"}

(* The semaphore is held exactly while one call works on the lock: no       *)
(* return path keeps it.                                                    *)
SemHeld == /\ ~sem <=> \E a \in Actors : Inside(a)
           /\ \A a, b \in Actors : Inside(a) /\ Inside(b) => a = b

(* The hardware lock is the A55's as long as some user was told that it     *)
(* holds it: the M3 is locked out, whatever requests, withdrawals and       *)
(* releases of other users come in between.  The shutdown path of the eMMC  *)
(* driver releases a share that is not its own, but never more than one:    *)
(* after it, the M3 can get in under a single user and not under two.       *)
M3Excluded == holding # {} /\ (shut => Cardinality(holding) > 1) => owner = "A55"

(* Users on their way to give up their share. *)
Leaving == {u \in Users : pc[u] \in {"release", "drop"}}

(* What lock_count should be: the users that hold the lock, those still in  *)
(* their release and the releases that a signal swallowed.                  *)
Due == Cardinality(holding) + Cardinality(Leaving) + leaked

(* lock_count is what is due; after a shutdown it may be one less, for the  *)
(* share that was taken from a user, and it never falls further behind      *)
(* however many users come and go.                                          *)
CountExact == count = Due \/ (shut /\ count + 1 = Due)

(* When nobody counts as a user and no call is under way, nothing of the    *)
(* A55 is left in the hardware that would keep the M3 out: neither the lock *)
(* nor a request that would take it later.                                  *)
NothingStranded == count = 0 /\ sem => owner # "A55" /\ ~req

(* Every acquire and release returns. *)
CallsReturn == \A a \in Actors : pc[a] # "idle" ~> pc[a] = "idle"
=============================================================================
