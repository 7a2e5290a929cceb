--------------------------- MODULE MsgScm3Proofs ---------------------------
(***************************************************************************)
(* Proofs about MsgScm3 for any processes, ring depth, retries and calls.  *)
(***************************************************************************)
EXTENDS MsgScm3, FiniteSetTheorems, TLAPS

USE ParamAssumption

-----------------------------------------------------------------------------
(* Rings *)

(* Slot s of a ring lies between the consumer and the producer index. *)
Queued(s, pi, ci) == IF ci <= pi THEN ci <= s /\ s < pi ELSE ci <= s \/ s < pi

(* The offset of slot s behind the consumer index, and its inverse. *)
Dist(ci, s) == IF ci <= s THEN s - ci ELSE s + Depth - ci
SlotAt(ci, k) == IF ci + k < Depth THEN ci + k ELSE ci + k - Depth

LEMMA ModOnce ==
    ASSUME NEW x \in Nat, x < 2 * Depth
    PROVE  x % Depth = IF x < Depth THEN x ELSE x - Depth
<1>1. CASE x < Depth
  BY <1>1, Z3
<1>2. CASE ~(x < Depth)
  BY <1>2, Z3
<1> QED
  BY <1>1, <1>2

LEMMA SuccValue ==
    ASSUME NEW i \in Slots
    PROVE  Succ(i) = (IF i = Depth - 1 THEN 0 ELSE i + 1) /\ Succ(i) \in Slots
<1> DEFINE x == i + 1
<1>1. x \in Nat /\ x < 2 * Depth
  BY DEF Slots
<1> HIDE DEF x
<1>2. x % Depth = IF x < Depth THEN x ELSE x - Depth
  BY <1>1, ModOnce
<1>3. Succ(i) = IF i + 1 < Depth THEN i + 1 ELSE i + 1 - Depth
  BY <1>2 DEF Succ, x, Slots
<1> QED
  BY <1>3 DEF Slots

(* Putting an entry into a ring that is not full queues the one slot at pi. *)
LEMMA Enqueue ==
    ASSUME NEW pi \in Slots, NEW ci \in Slots, ~Full(pi, ci)
    PROVE  /\ ~Queued(pi, pi, ci)
           /\ \A s \in Slots : Queued(s, Succ(pi), ci) <=> Queued(s, pi, ci) \/ s = pi
<1>1. Succ(pi) = (IF pi = Depth - 1 THEN 0 ELSE pi + 1) /\ Succ(pi) # ci
  BY SuccValue DEF Full
<1> QED
  BY <1>1 DEF Queued, Slots

(* Taking the entry at ci out of a ring that is not empty takes one slot.  *)
LEMMA Dequeue ==
    ASSUME NEW pi \in Slots, NEW ci \in Slots, pi # ci
    PROVE  /\ Queued(ci, pi, ci)
           /\ \A s \in Slots : Queued(s, pi, Succ(ci)) <=> Queued(s, pi, ci) /\ s # ci
<1>1. Succ(ci) = IF ci = Depth - 1 THEN 0 ELSE ci + 1
  BY SuccValue
<1> QED
  BY <1>1 DEF Queued, Slots

(* Pending in terms of SlotAt. *)
LEMMA PendingValue ==
    ASSUME NEW pi \in Slots, NEW ci \in Slots, NEW ring
    PROVE  Pending(ring, pi, ci) = [k \in 1..Dist(ci, pi) |-> ring[SlotAt(ci, k - 1)].tag]
<1>1. pi + Depth - ci \in Nat /\ pi + Depth - ci < 2 * Depth
  BY DEF Slots
<1>2. (pi + Depth - ci) % Depth = Dist(ci, pi) /\ Dist(ci, pi) \in 0..(Depth - 1)
  BY <1>1, ModOnce DEF Dist, Slots
<1>3. ASSUME NEW k \in 1..Dist(ci, pi)
      PROVE  (ci + k - 1) % Depth = SlotAt(ci, k - 1)
  <2> DEFINE x == ci + k - 1
  <2>1. x \in Nat /\ x < 2 * Depth
    BY <1>2 DEF Slots
  <2> HIDE DEF x
  <2>2. x % Depth = IF x < Depth THEN x ELSE x - Depth
    BY <2>1, ModOnce
  <2>3. ci \in Nat /\ k \in Nat
    BY <1>2 DEF Slots
  <2>4. SlotAt(ci, k - 1) = IF ci + k - 1 < Depth THEN ci + k - 1 ELSE ci + k - 1 - Depth
    BY <2>3 DEF SlotAt
  <2> QED
    BY <2>2, <2>3, <2>4 DEF x
<1> QED
  BY <1>2, <1>3 DEF Pending

(* The queue of a ring, as a sequence. *)
LEMMA PendingSeq ==
    ASSUME NEW pi \in Slots, NEW ci \in Slots, NEW ring \in [Slots -> Entries]
    PROVE  /\ Pending(ring, pi, ci) \in Seq(Tags)
           /\ Len(Pending(ring, pi, ci)) = Dist(ci, pi)
           /\ Dist(ci, pi) \in 0..(Depth - 1)
           /\ \A k \in 1..Dist(ci, pi) : /\ SlotAt(ci, k - 1) \in Slots
                                        /\ Pending(ring, pi, ci)[k] = ring[SlotAt(ci, k - 1)].tag
<1>1. Dist(ci, pi) \in 0..(Depth - 1)
  BY DEF Dist, Slots
<1>2. \A k \in 1..Dist(ci, pi) : SlotAt(ci, k - 1) \in Slots
  BY <1>1 DEF SlotAt, Slots
<1>3. \A k \in 1..Dist(ci, pi) : ring[SlotAt(ci, k - 1)].tag \in Tags
  BY <1>2 DEF Entries
<1>4. Pending(ring, pi, ci) = [k \in 1..Dist(ci, pi) |-> ring[SlotAt(ci, k - 1)].tag]
  BY PendingValue
<1>5. Pending(ring, pi, ci) \in [1..Dist(ci, pi) -> Tags]
  BY <1>3, <1>4
<1>6. Pending(ring, pi, ci) \in Seq(Tags) /\ Len(Pending(ring, pi, ci)) = Dist(ci, pi)
  BY <1>1, <1>5
<1> QED
  BY <1>1, <1>2, <1>4, <1>6

(* Two sequences of one length with the same elements are equal. *)
LEMMA SameSeq ==
    ASSUME NEW S, NEW p \in Seq(S), NEW q \in Seq(S), Len(p) = Len(q),
           \A k \in 1..Len(p) : p[k] = q[k]
    PROVE  p = q
OBVIOUS

(* What msg_cmd_send and the M3 do to a ring appends to its queue. *)
LEMMA FifoPut ==
    ASSUME NEW pi \in Slots, NEW ci \in Slots, ~Full(pi, ci),
           NEW ring \in [Slots -> Entries], NEW new \in [Slots -> Entries],
           \A s \in Slots : s # pi => new[s] = ring[s]
    PROVE  Pending(new, Succ(pi), ci) = Append(Pending(ring, pi, ci), new[pi].tag)
<1> DEFINE p == Pending(ring, pi, ci)
           q == Pending(new, Succ(pi), ci)
           n == Dist(ci, pi)
<1>1. Succ(pi) \in Slots /\ new[pi].tag \in Tags
  BY SuccValue DEF Entries
<1>2. n \in 0..(Depth - 1) /\ Dist(ci, Succ(pi)) = n + 1
  <2> DEFINE d == Succ(pi)
  <2>1. d = (IF pi = Depth - 1 THEN 0 ELSE pi + 1) /\ d # ci
    BY SuccValue DEF Full
  <2> HIDE DEF d
  <2>2. Dist(ci, d) = n + 1 /\ n \in 0..(Depth - 1)
    BY <2>1 DEF Dist, Slots
  <2> QED
    BY <2>2 DEF d
<1>3. SlotAt(ci, n) = pi
  BY DEF SlotAt, Dist, Slots
<1>4. \A k \in 1..n : SlotAt(ci, k - 1) # pi
  BY DEF SlotAt, Dist, Slots
<1>5. p \in Seq(Tags) /\ Len(p) = n
      /\ \A k \in 1..n : SlotAt(ci, k - 1) \in Slots /\ p[k] = ring[SlotAt(ci, k - 1)].tag
  BY PendingSeq
<1>6. q \in Seq(Tags) /\ Len(q) = Dist(ci, Succ(pi))
      /\ \A k \in 1..Dist(ci, Succ(pi)) : q[k] = new[SlotAt(ci, k - 1)].tag
  <2> DEFINE d == Succ(pi)
  <2>1. d \in Slots
    BY <1>1
  <2> HIDE DEF d
  <2>2. /\ Pending(new, d, ci) \in Seq(Tags) /\ Len(Pending(new, d, ci)) = Dist(ci, d)
        /\ \A k \in 1..Dist(ci, d) : Pending(new, d, ci)[k] = new[SlotAt(ci, k - 1)].tag
    BY <2>1, PendingSeq
  <2> QED
    BY <2>2, Zenon DEF d
<1> DEFINE r == Append(p, new[pi].tag)
<1>7. r \in Seq(Tags) /\ Len(r) = n + 1 /\ r[n + 1] = new[pi].tag /\ \A k \in 1..n : r[k] = p[k]
  BY <1>1, <1>2, <1>5
<1>8. ASSUME NEW k \in 1..(n + 1) PROVE q[k] = r[k]
  <2>1. q[k] = new[SlotAt(ci, k - 1)].tag
    BY <1>2, <1>6
  <2>2. CASE k = n + 1
    <3>1. SlotAt(ci, k - 1) = pi
      BY <1>2, <1>3, <2>2
    <3> QED
      BY <1>7, <2>1, <2>2, <3>1
  <2>3. CASE k # n + 1
    <3>1. k \in 1..n
      BY <1>2, <2>3
    <3>2. new[SlotAt(ci, k - 1)] = ring[SlotAt(ci, k - 1)]
      BY <1>4, <1>5, <3>1
    <3> QED
      BY <1>5, <1>7, <2>1, <3>1, <3>2
  <2> QED
    BY <2>2, <2>3
<1> HIDE DEF p, q, r, n
<1>9. q = r
  BY <1>2, <1>6, <1>7, <1>8, SameSeq
<1> QED
  BY <1>9 DEF p, q, r

(* Advancing ci takes the oldest entry off the queue; the slot it leaves    *)
(* may be overwritten.                                                      *)
LEMMA FifoTake ==
    ASSUME NEW pi \in Slots, NEW ci \in Slots, pi # ci,
           NEW ring \in [Slots -> Entries], NEW new \in [Slots -> Entries],
           \A s \in Slots : s # ci => new[s] = ring[s]
    PROVE  Pending(new, pi, Succ(ci)) = Tail(Pending(ring, pi, ci))
<1> DEFINE p == Pending(ring, pi, ci)
           q == Pending(new, pi, Succ(ci))
           n == Dist(ci, pi)
           d == Succ(ci)
<1>1. d \in Slots /\ d = IF ci = Depth - 1 THEN 0 ELSE ci + 1
  BY SuccValue
<1> HIDE DEF d
<1>2. n \in 1..(Depth - 1) /\ Dist(d, pi) = n - 1
  BY <1>1 DEF Dist, Slots
<1>3. \A k \in 1..(n - 1) : SlotAt(d, k - 1) = SlotAt(ci, k) /\ SlotAt(ci, k) # ci
  BY <1>1, <1>2 DEF SlotAt, Slots
<1>5. p \in Seq(Tags) /\ Len(p) = n
      /\ \A k \in 1..n : SlotAt(ci, k - 1) \in Slots /\ p[k] = ring[SlotAt(ci, k - 1)].tag
  BY PendingSeq
<1>6. q \in Seq(Tags) /\ Len(q) = Dist(d, pi)
      /\ \A k \in 1..Dist(d, pi) : SlotAt(d, k - 1) \in Slots /\ q[k] = new[SlotAt(d, k - 1)].tag
  BY <1>1, PendingSeq DEF d
<1> DEFINE r == Tail(p)
<1>7. r \in Seq(Tags) /\ Len(r) = n - 1 /\ \A k \in 1..(n - 1) : r[k] = p[k + 1]
  BY <1>2, <1>5
<1>8. ASSUME NEW k \in 1..(n - 1) PROVE q[k] = r[k]
  <2>1. q[k] = new[SlotAt(ci, k)].tag /\ SlotAt(ci, k) \in Slots /\ SlotAt(ci, k) # ci
    BY <1>2, <1>3, <1>6
  <2>2. p[k + 1] = ring[SlotAt(ci, k)].tag
    <3>1. k + 1 \in 1..n /\ (k + 1) - 1 = k
      BY <1>2
    <3> QED
      BY <1>5, <3>1
  <2> QED
    BY <1>7, <2>1, <2>2
<1> HIDE DEF p, q, r, n
<1>9. q = r
  BY <1>2, <1>6, <1>7, <1>8, SameSeq
<1> QED
  BY <1>9 DEF p, q, r

-----------------------------------------------------------------------------
(* The inductive invariant *)

(* The ioctl of p has a buffer and has not sent its request. *)
Early(p) == pc[p] \in {"copyIn", "send"}

(* Slot s of the M3's ring holds a request the M3 has not taken; slot s of  *)
(* the A55's ring holds a reply the work item has not seen: between         *)
(* complete() and the update of ci it has seen the one at ci.               *)
InM3(s) == Queued(s, m3Pi, m3Ci)
InA55(s) == Queued(s, a55Pi, a55Ci) /\ ~(workPc = "advance" /\ s = a55Ci)

(* Call t is under way between msg_cmd_send and complete(). *)
Sent(t) == \/ \E s \in Slots : InM3(s) /\ m3Ring[s].tag = t
           \/ \E e \in m3Busy : e.tag = t
           \/ \E s \in Slots : InA55(s) /\ a55Ring[s].tag = t

(* The calls that may still complete a buffer's completion. *)
Live == {t \in 1..MaxCalls : Sent(t) \/ \E p \in Procs : Early(p) /\ tag[p] = t}

(* A buffer is marked taken exactly while one process works with it. *)
OwnInv ==
    /\ \A p \in Procs : pc[p] # "idle" => bufStatus[idx[p]] = 1
    /\ \A p, q \in Procs : pc[p] # "idle" /\ pc[q] # "idle" /\ idx[p] = idx[q] => p = q
    /\ \A i \in Slots : bufStatus[i] = 1 => \E p \in Procs : pc[p] # "idle" /\ idx[p] = i

(* Calls have identities of their own. *)
TagInv ==
    /\ \A p \in Procs : pc[p] # "idle" => tag[p] \in 1..calls
    /\ \A p, q \in Procs : pc[p] # "idle" /\ pc[q] # "idle" /\ tag[p] = tag[q] => p = q
    /\ \A p \in Procs : Early(p) => ~Sent(tag[p])
    /\ \A s \in Slots : InM3(s) => m3Ring[s].tag \in 1..calls
    /\ \A e \in m3Busy : e.tag \in 1..calls
    /\ \A s \in Slots : InA55(s) => a55Ring[s].tag \in 1..calls

(* A request that was sent is in one place: in the M3's ring, with the M3,  *)
(* or in the A55's ring.                                                    *)
OnePlace ==
    /\ \A s, r \in Slots : InM3(s) /\ InM3(r) /\ m3Ring[s].tag = m3Ring[r].tag => s = r
    /\ \A d, e \in m3Busy : d.tag = e.tag => d = e
    /\ \A s, r \in Slots : InA55(s) /\ InA55(r) /\ a55Ring[s].tag = a55Ring[r].tag => s = r
    /\ \A s \in Slots, e \in m3Busy : InM3(s) => m3Ring[s].tag # e.tag
    /\ \A s, r \in Slots : InM3(s) /\ InA55(r) => m3Ring[s].tag # a55Ring[r].tag
    /\ \A s \in Slots, e \in m3Busy : InA55(s) => a55Ring[s].tag # e.tag

(* Every reply the work item sees was asked for by a call of its own. *)
CountInv ==
    /\ workPc = "advance" => a55Pi # a55Ci
    /\ \A i \in Slots : completion[i] + Cardinality(Live) <= calls

(* Some process waits for the reply to call t at buffer i. *)
Waits(i, t) == \E p \in Procs : pc[p] = "wait" /\ idx[p] = i /\ tag[p] = t

(* As long as no wait has expired, requests and replies under way are those *)
(* of the processes that wait, and a buffer's completion counts at most the *)
(* one response that lies in the buffer.                                    *)
WaitInv ==
    ~expired =>
      /\ \A s \in Slots : InM3(s) => Waits(m3Ring[s].index, m3Ring[s].tag)
      /\ \A e \in m3Busy : Waits(e.index, e.tag)
      /\ \A s \in Slots : InA55(s) =>
           /\ Waits(a55Ring[s].index, a55Ring[s].tag)
           /\ data[a55Ring[s].index] = [tag |-> a55Ring[s].tag, resp |-> TRUE]
      /\ \A i \in Slots : completion[i] > 0 =>
           /\ completion[i] = 1
           /\ Waits(i, data[i].tag) /\ ~Sent(data[i].tag)
      /\ \A p \in Procs : pc[p] \in {"copyMsg", "copyOut"} => data[idx[p]].tag = tag[p]

IInv == TypeOK /\ RingsFifo /\ OwnInv /\ TagInv /\ OnePlace /\ CountInv /\ WaitInv

LEMMA InitIInv == Init => IInv
<1> SUFFICES ASSUME Init PROVE IInv
  OBVIOUS
<1> USE DEF Init
<1>0. 0 \in Slots /\ 0 \in Tags /\ NoEntry \in Entries
  BY DEF Slots, Tags, NoEntry, Entries
<1>1. TypeOK
  <2>1. [tag |-> 0, resp |-> FALSE] \in [tag : Tags, resp : BOOLEAN]
    BY <1>0
  <2>2. data \in [Slots -> [tag : Tags, resp : BOOLEAN]]
    BY <2>1
  <2>3. /\ bufStatus \in [Slots -> 0..1] /\ completion \in [Slots -> 0..MaxCalls]
        /\ userAddr \in [Slots -> Slots]
    BY <1>0
  <2>4. /\ m3Ring \in [Slots -> Entries] /\ m3Pi \in Slots /\ m3Ci \in Slots
        /\ a55Ring \in [Slots -> Entries] /\ a55Pi \in Slots /\ a55Ci \in Slots
        /\ m3Busy \subseteq Entries /\ sent \in Seq(Tags) /\ replied \in Seq(Tags)
    BY <1>0
  <2>5. /\ pc \in [Procs -> {"idle", "copyIn", "send", "wait", "copyMsg", "copyOut"}]
        /\ idx \in [Procs -> Slots] /\ tag \in [Procs -> Tags] /\ msg \in [Procs -> Tags]
        /\ tries \in [Procs -> 0..(MaxRetry - 1)] /\ calls \in Tags
    BY <1>0
  <2> QED
    BY <2>2, <2>3, <2>4, <2>5 DEF TypeOK
<1>2. \A s \in Slots : ~Queued(s, 0, 0)
  BY DEF Queued, Slots
<1>3. \A s \in Slots : ~InM3(s) /\ ~InA55(s)
  BY <1>2 DEF InM3, InA55
<1>4. RingsFifo
  <2>1. Pending(m3Ring, 0, 0) \in Seq(Tags) /\ Len(Pending(m3Ring, 0, 0)) = Dist(0, 0)
    BY <1>0, <1>1, PendingSeq DEF TypeOK
  <2>2. Dist(0, 0) = 0
    BY DEF Dist
  <2>3. Pending(m3Ring, 0, 0) = <<>>
    BY <2>1, <2>2
  <2>4. m3Ring = a55Ring
    OBVIOUS
  <2> QED
    BY <2>3, <2>4 DEF RingsFifo
<1>5. OwnInv
  BY DEF OwnInv
<1>6. \A t : ~Sent(t)
  BY <1>3 DEF Sent
<1>7. TagInv /\ OnePlace
  BY <1>3, <1>6 DEF TagInv, OnePlace, Early
<1>8. CountInv
  <2>1. Live = {}
    BY <1>6 DEF Live, Early
  <2>2. Cardinality(Live) = 0
    BY <2>1, FS_EmptySet
  <2> QED
    BY <2>2 DEF CountInv
<1>9. WaitInv
  BY <1>3 DEF WaitInv
<1> QED
  BY <1>1, <1>4, <1>5, <1>7, <1>8, <1>9 DEF IInv

-----------------------------------------------------------------------------
(* Types *)

LEMMA Constants ==
    /\ 0 \in Slots /\ 0 \in Tags /\ NoEntry \in Entries
    /\ \A i \in Slots, t \in Tags, c \in BOOLEAN : Entry(i, t, c) \in Entries
    /\ \A i \in Slots : Succ(i) \in Slots
BY SuccValue DEF Slots, Tags, NoEntry, Entry, Entries

(* The parts of TypeOK that one group of actions changes. *)
BufTypes  == bufStatus \in [Slots -> 0..1] /\ data \in [Slots -> [tag : Tags, resp : BOOLEAN]]
ProcTypes == /\ pc \in [Procs -> {"idle", "copyIn", "send", "wait", "copyMsg", "copyOut"}]
             /\ idx \in [Procs -> Slots] /\ tag \in [Procs -> Tags] /\ msg \in [Procs -> Tags]
             /\ tries \in [Procs -> 0..(MaxRetry - 1)]
WakeTypes == completion \in [Slots -> 0..MaxCalls] /\ userAddr \in [Slots -> Slots]
RingTypes == /\ m3Ring \in [Slots -> Entries] /\ m3Pi \in Slots /\ m3Ci \in Slots
             /\ a55Ring \in [Slots -> Entries] /\ a55Pi \in Slots /\ a55Ci \in Slots
             /\ m3Busy \subseteq Entries
             /\ sent \in Seq(Tags) /\ replied \in Seq(Tags)
FlagTypes == /\ m3Init \in BOOLEAN /\ softInt \in BOOLEAN /\ irqPc \in {"idle", "clear"}
             /\ workPending \in BOOLEAN /\ workPc \in {"idle", "check", "advance"}
             /\ expired \in BOOLEAN

LEMMA TypePartsPrime ==
    BufTypes' /\ ProcTypes' /\ WakeTypes' /\ RingTypes' /\ FlagTypes' /\ calls' \in Tags => TypeOK'
BY DEF TypeOK, BufTypes, ProcTypes, WakeTypes, RingTypes, FlagTypes

LEMMA ReleaseTypes ==
    ASSUME TypeOK, NEW p \in Procs, Release(p)
    PROVE  ProcTypes' /\ bufStatus' \in [Slots -> 0..1]
BY Constants DEF TypeOK, ProcTypes, Release, Return, Goto

LEMMA BufStep == TypeOK /\ [Next]_vars => BufTypes'
<1> SUFFICES ASSUME TypeOK, [Next]_vars PROVE BufTypes'
  OBVIOUS
<1> USE Constants
<1>0. BufTypes
  BY DEF TypeOK, BufTypes
<1> USE DEF BufTypes, bufVars
<1>1. ASSUME NEW p \in Procs, GetBuffer(p) PROVE BufTypes'
  <2>1. data' = data
    BY <1>1 DEF GetBuffer
  <2>2. bufStatus' \in [Slots -> 0..1]
    BY <1>0, <1>1 DEF GetBuffer
  <2> QED
    BY <1>0, <2>1, <2>2
<1>2. ASSUME NEW p \in Procs, CopyIn(p) PROVE BufTypes'
  <2>1. [tag |-> tag[p], resp |-> FALSE] \in [tag : Tags, resp : BOOLEAN]
    BY DEF TypeOK
  <2>2. CASE Release(p) /\ UNCHANGED data
    BY <1>0, <2>2, ReleaseTypes
  <2>3. CASE /\ data' = [data EXCEPT ![idx[p]] = [tag |-> tag[p], resp |-> FALSE]]
             /\ bufStatus' = bufStatus
    BY <1>0, <2>1, <2>3
  <2> QED
    BY <1>2, <2>2, <2>3 DEF CopyIn
<1>3. ASSUME NEW p \in Procs, SendRefused(p) \/ RxTimeout(p) \/ CopyMsg(p) \/ CopyOut(p)
      PROVE  BufTypes'
  BY <1>0, <1>3, ReleaseTypes DEF SendRefused, RxTimeout, CopyMsg, CopyOut
<1>4. ASSUME M3Reply PROVE BufTypes'
  <2>1. PICK r \in m3Busy : data' = [data EXCEPT ![r.index] = [tag |-> r.tag, resp |-> TRUE]]
    BY <1>4 DEF M3Reply
  <2>2. r.index \in Slots /\ r.tag \in Tags
    BY DEF TypeOK, Entries
  <2>3. bufStatus' = bufStatus
    BY <1>4 DEF M3Reply
  <2> QED
    BY <1>0, <2>1, <2>2, <2>3
<1>5. ASSUME \/ \E p \in Procs : Send(p) \/ Woken(p)
             \/ M3Boot \/ M3Take \/ IrqQueue \/ IrqClear \/ WorkStart \/ WorkCheck \/ WorkAdvance
             \/ UNCHANGED vars
      PROVE  BufTypes'
  BY <1>0, <1>5 DEF Send, Woken, M3Boot, M3Take, IrqQueue, IrqClear, WorkStart, WorkCheck,
              WorkAdvance, vars
<1> QED
  BY <1>1, <1>2, <1>3, <1>4, <1>5 DEF Next, ProcStep

LEMMA ProcTypeStep == TypeOK /\ [Next]_vars => ProcTypes' /\ calls' \in Tags
<1> SUFFICES ASSUME TypeOK, [Next]_vars PROVE ProcTypes' /\ calls' \in Tags
  OBVIOUS
<1> USE Constants
<1>0. ProcTypes /\ calls \in Tags
  BY DEF TypeOK, ProcTypes
<1>1. ASSUME NEW p \in Procs, GetBuffer(p) PROVE ProcTypes' /\ calls' \in Tags
  <2>1. calls' \in Tags
    BY <1>0, <1>1 DEF GetBuffer, Tags
  <2> QED
    BY <1>0, <1>1, <2>1 DEF GetBuffer, Goto, ProcTypes, procVars, locals
<1>2. ASSUME NEW p \in Procs, CopyIn(p) PROVE ProcTypes' /\ calls' \in Tags
  BY <1>0, <1>2, ReleaseTypes DEF CopyIn, Goto, ProcTypes, locals
<1>3. ASSUME NEW p \in Procs, Send(p) \/ Woken(p) PROVE ProcTypes' /\ calls' \in Tags
  BY <1>0, <1>3 DEF Send, Woken, Goto, ProcTypes, locals
<1>4. ASSUME NEW p \in Procs, SendRefused(p) PROVE ProcTypes' /\ calls' \in Tags
  <2>1. CASE tries[p] + 1 < MaxRetry
    BY <1>0, <1>4, <2>1 DEF SendRefused, CountTry, ProcTypes
  <2>2. CASE ~(tries[p] + 1 < MaxRetry)
    BY <1>0, <1>4, <2>2, ReleaseTypes DEF SendRefused
  <2> QED
    BY <2>1, <2>2
<1>5. ASSUME NEW p \in Procs, RxTimeout(p) \/ CopyOut(p) PROVE ProcTypes' /\ calls' \in Tags
  BY <1>0, <1>5, ReleaseTypes DEF RxTimeout, CopyOut
<1>6. ASSUME NEW p \in Procs, CopyMsg(p) PROVE ProcTypes' /\ calls' \in Tags
  <2>1. a55Ring[userAddr[idx[p]]].tag \in Tags
    BY DEF TypeOK, Entries
  <2>2. CASE IsResponse(p)
    BY <1>0, <1>6, <2>1, <2>2 DEF CopyMsg, Goto, ProcTypes
  <2>3. CASE ~IsResponse(p)
    BY <1>0, <1>6, <2>3, ReleaseTypes DEF CopyMsg
  <2> QED
    BY <2>2, <2>3
<1>7. ASSUME \/ M3Boot \/ M3Take \/ M3Reply \/ IrqQueue \/ IrqClear
             \/ WorkStart \/ WorkCheck \/ WorkAdvance \/ UNCHANGED vars
      PROVE  ProcTypes' /\ calls' \in Tags
  <2>1. UNCHANGED <<procVars, calls>>
    BY <1>7 DEF M3Boot, M3Take, M3Reply, IrqQueue, IrqClear, WorkStart, WorkCheck,
                WorkAdvance, vars
  <2> QED
    BY <1>0, <2>1 DEF ProcTypes, procVars, locals
<1> QED
  BY <1>1, <1>2, <1>3, <1>4, <1>5, <1>6, <1>7 DEF Next, ProcStep

LEMMA FlagStep == TypeOK /\ [Next]_vars => FlagTypes'
<1> SUFFICES ASSUME TypeOK, [Next]_vars PROVE FlagTypes'
  OBVIOUS
<1> USE DEF TypeOK, FlagTypes, intVars, m3Vars
<1>1. ASSUME NEW p \in Procs, GetBuffer(p) \/ ProcStep(p) PROVE FlagTypes'
  BY <1>1 DEF GetBuffer, ProcStep, CopyIn, Send, SendRefused, Woken, RxTimeout, CopyMsg, CopyOut
<1>2. ASSUME M3Boot \/ M3Take \/ M3Reply PROVE FlagTypes'
  BY <1>2 DEF M3Boot, M3Take, M3Reply
<1>3. ASSUME \/ IrqQueue \/ IrqClear \/ WorkStart \/ WorkCheck \/ WorkAdvance \/ UNCHANGED vars
      PROVE  FlagTypes'
  BY <1>3 DEF IrqQueue, IrqClear, WorkStart, WorkCheck, WorkAdvance, vars
<1> QED
  BY <1>1, <1>2, <1>3 DEF Next

(* The rings and their queues, together. *)
LEMMA RingStep ==
    TypeOK /\ CountInv /\ RingsFifo /\ [Next]_vars => RingTypes' /\ RingsFifo'
<1> SUFFICES ASSUME TypeOK, CountInv, RingsFifo, [Next]_vars PROVE RingTypes' /\ RingsFifo'
  OBVIOUS
<1> USE Constants
<1>0. RingTypes
  BY DEF TypeOK, RingTypes
<1>b. /\ m3Ring \in [Slots -> Entries] /\ m3Pi \in Slots /\ m3Ci \in Slots
      /\ a55Ring \in [Slots -> Entries] /\ a55Pi \in Slots /\ a55Ci \in Slots
  BY DEF TypeOK
<1>a. ASSUME UNCHANGED <<m3Ring, m3Pi, m3Ci, sent, a55Vars, m3Busy>> PROVE RingTypes' /\ RingsFifo'
  BY <1>0, <1>a DEF RingTypes, RingsFifo, Pending, a55Vars
<1>1. ASSUME NEW p \in Procs, Send(p) PROVE RingTypes' /\ RingsFifo'
  <2> DEFINE e == Entry(idx[p], tag[p], TRUE)
  <2>1. e \in Entries /\ e.tag = tag[p] /\ tag[p] \in Tags
    BY DEF TypeOK, Entry
  <2>2. /\ m3Ring' = [m3Ring EXCEPT ![m3Pi] = e] /\ m3Pi' = Succ(m3Pi) /\ m3Ci' = m3Ci
        /\ sent' = Append(sent, tag[p]) /\ UNCHANGED <<a55Vars, m3Busy>>
    BY <1>1 DEF Send
  <2>3. ~Full(m3Pi, m3Ci)
    BY <1>1 DEF Send, Refused
  <2> HIDE DEF e
  <2>b. /\ m3Ring' \in [Slots -> Entries] /\ m3Ring'[m3Pi] = e
        /\ \A s \in Slots : s # m3Pi => m3Ring'[s] = m3Ring[s]
    BY <1>b, <2>2, <2>1, <2>3
  <2>a. Pending(m3Ring', Succ(m3Pi), m3Ci) = Append(Pending(m3Ring, m3Pi, m3Ci), e.tag)
    BY <1>b, <2>b, <2>1, <2>3, FifoPut
  <2>4. Pending(m3Ring', m3Pi', m3Ci') = sent'
    BY <2>1, <2>2, <2>a DEF RingsFifo
  <2>5. RingTypes'
    BY <1>0, <2>1, <2>2 DEF RingTypes, a55Vars
  <2> QED
    BY <2>2, <2>4, <2>5 DEF RingsFifo, a55Vars
<1>2. ASSUME M3Take PROVE RingTypes' /\ RingsFifo'
  <2>1. /\ m3Ring' = [m3Ring EXCEPT ![m3Ci] = NoEntry] /\ m3Ci' = Succ(m3Ci) /\ m3Pi' = m3Pi
        /\ sent' = Tail(sent) /\ UNCHANGED a55Vars /\ m3Pi # m3Ci
        /\ m3Busy' = m3Busy \cup {m3Ring[m3Ci]}
    BY <1>2 DEF M3Take
  <2>2. m3Ring' \in [Slots -> Entries] /\ m3Ci' \in Slots /\ m3Pi' \in Slots
        /\ \A s \in Slots : s # m3Ci => m3Ring'[s] = m3Ring[s]
    BY <1>0, <2>1 DEF RingTypes
  <2>3. Pending(m3Ring', m3Pi, Succ(m3Ci)) = Tail(Pending(m3Ring, m3Pi, m3Ci))
    BY <1>b, <2>1, <2>2, FifoTake
  <2>4. Pending(m3Ring', m3Pi', m3Ci') = sent'
    BY <2>1, <2>3 DEF RingsFifo
  <2>5. sent' \in Seq(Tags)
    BY <2>2, <2>4, PendingSeq
  <2>6. m3Busy' \subseteq Entries
    BY <1>0, <2>1 DEF RingTypes
  <2> QED
    BY <1>0, <2>1, <2>2, <2>4, <2>5, <2>6 DEF RingTypes, RingsFifo, a55Vars
<1>3. ASSUME M3Reply PROVE RingTypes' /\ RingsFifo'
  <2>1. PICK r \in m3Busy, c \in Crcs :
           /\ ~Full(a55Pi, a55Ci)
           /\ m3Busy' = m3Busy \ {r}
           /\ a55Ring' = [a55Ring EXCEPT ![a55Pi] = Entry(r.index, r.tag, c)]
           /\ a55Pi' = Succ(a55Pi)
           /\ replied' = Append(replied, r.tag)
           /\ UNCHANGED <<m3Ring, m3Pi, m3Ci, sent, a55Ci>>
    BY <1>3 DEF M3Reply, m3Vars
  <2> DEFINE e == Entry(r.index, r.tag, c)
  <2>2. r.index \in Slots /\ r.tag \in Tags /\ c \in BOOLEAN
    BY <1>0 DEF RingTypes, Entries
  <2>3. e \in Entries /\ e.tag = r.tag
    BY <2>2 DEF Entry
  <2>4. a55Ring' = [a55Ring EXCEPT ![a55Pi] = e]
    BY <2>1
  <2> HIDE DEF e
  <2>b. /\ a55Ring' \in [Slots -> Entries] /\ a55Ring'[a55Pi] = e
        /\ \A s \in Slots : s # a55Pi => a55Ring'[s] = a55Ring[s]
    BY <1>b, <2>4, <2>1, <2>3
  <2>c. ~Full(a55Pi, a55Ci)
    BY <2>1
  <2>a. Pending(a55Ring', Succ(a55Pi), a55Ci) = Append(Pending(a55Ring, a55Pi, a55Ci), e.tag)
    <3>1. a55Pi \in Slots /\ a55Ci \in Slots /\ a55Ring \in [Slots -> Entries]
      BY <1>b
    <3>2. Pending(a55Ring', Succ(a55Pi), a55Ci)
            = Append(Pending(a55Ring, a55Pi, a55Ci), a55Ring'[a55Pi].tag)
      BY <2>b, <2>c, <3>1, FifoPut
    <3> QED
      BY <2>b, <3>2
  <2>5. Pending(a55Ring', a55Pi', a55Ci') = replied'
    BY <2>1, <2>3, <2>4, <2>a DEF RingsFifo
  <2>6. RingTypes'
    BY <1>0, <2>1, <2>2, <2>3, <2>4 DEF RingTypes
  <2> QED
    BY <2>1, <2>5, <2>6 DEF RingsFifo
<1>4. ASSUME WorkAdvance PROVE RingTypes' /\ RingsFifo'
  <2>1. /\ a55Pi # a55Ci /\ a55Ci' = Succ(a55Ci) /\ replied' = Tail(replied)
        /\ UNCHANGED <<a55Ring, a55Pi, m3Ring, m3Pi, m3Ci, sent, m3Busy>>
    BY <1>4 DEF WorkAdvance, CountInv, m3Vars
  <2>2. Pending(a55Ring, a55Pi, Succ(a55Ci)) = Tail(Pending(a55Ring, a55Pi, a55Ci))
    BY <1>0, <2>1, FifoTake DEF RingTypes
  <2>3. Pending(a55Ring', a55Pi', a55Ci') = replied'
    BY <2>1, <2>2 DEF RingsFifo
  <2>4. a55Ci' \in Slots
    BY <1>0, <2>1 DEF RingTypes
  <2>5. replied' \in Seq(Tags)
    <3>1. Succ(a55Ci) \in Slots
      BY <1>b
    <3>2. Pending(a55Ring, a55Pi, Succ(a55Ci)) \in Seq(Tags)
      BY <1>b, <3>1, PendingSeq
    <3> QED
      BY <2>1, <2>3, <3>2
  <2> QED
    BY <1>0, <2>1, <2>3, <2>4, <2>5 DEF RingTypes, RingsFifo
<1>5. ASSUME NEW p \in Procs, \/ GetBuffer(p) \/ CopyIn(p) \/ SendRefused(p) \/ Woken(p)
                              \/ RxTimeout(p) \/ CopyMsg(p) \/ CopyOut(p)
      PROVE  RingTypes' /\ RingsFifo'
  BY <1>5, <1>a DEF GetBuffer, CopyIn, SendRefused, Woken, RxTimeout, CopyMsg, CopyOut, m3Vars
<1>6. ASSUME M3Boot \/ IrqQueue \/ IrqClear \/ WorkStart \/ WorkCheck \/ UNCHANGED vars
      PROVE  RingTypes' /\ RingsFifo'
  BY <1>6, <1>a DEF M3Boot, IrqQueue, IrqClear, WorkStart, WorkCheck, m3Vars, vars
<1> QED
  BY <1>1, <1>2, <1>3, <1>4, <1>5, <1>6 DEF Next, ProcStep

-----------------------------------------------------------------------------
(* What a step does to the processes: nothing, or one of them returns,      *)
(* goes on with its call, or begins one.                                    *)
Others(p) == \A q \in Procs : q # p => pc'[q] = pc[q] /\ idx'[q] = idx[q] /\ tag'[q] = tag[q]

Still == UNCHANGED <<bufStatus, pc, idx, tag>> /\ calls' \in {calls, calls + 1}

Returns(p) == /\ pc[p] # "idle" /\ pc'[p] = "idle" /\ Others(p)
              /\ bufStatus' = [bufStatus EXCEPT ![idx[p]] = 0]
              /\ calls' = calls

Moves(p) == /\ pc[p] # "idle" /\ pc'[p] # "idle" /\ Others(p)
            /\ Early(p)' => Early(p)
            /\ UNCHANGED <<bufStatus, idx, tag, calls>>

Begins(p) == /\ pc[p] = "idle" /\ pc'[p] = "copyIn" /\ Others(p)
             /\ calls' = calls + 1 /\ tag'[p] = calls'
             /\ \E i \in Slots : /\ bufStatus[i] = 0
                                 /\ bufStatus' = [bufStatus EXCEPT ![i] = 1]
                                 /\ idx'[p] = i

LEMMA ReleaseReturns ==
    ASSUME TypeOK, NEW p \in Procs, Release(p), pc[p] # "idle", calls' = calls
    PROVE  Returns(p)
BY DEF TypeOK, Release, Return, Goto, Returns, Others

LEMMA ProcShape ==
    ASSUME TypeOK, [Next]_vars
    PROVE  Still \/ \E p \in Procs : Returns(p) \/ Moves(p) \/ Begins(p)
<1> USE DEF bufVars, procVars, locals
<1>0. /\ pc \in [Procs -> {"idle", "copyIn", "send", "wait", "copyMsg", "copyOut"}]
      /\ idx \in [Procs -> Slots] /\ tag \in [Procs -> Tags]
      /\ calls \in Nat
  BY DEF TypeOK, Tags
<1>1. ASSUME NEW p \in Procs, GetBuffer(p) PROVE Still \/ Begins(p)
  <2>1. calls' = calls + 1 /\ pc[p] = "idle"
    BY <1>1 DEF GetBuffer
  <2>2. CASE UNCHANGED <<bufStatus, procVars>>
    BY <2>1, <2>2 DEF Still
  <2>3. CASE \E i \in Slots :
               /\ Free(i)
               /\ bufStatus' = [bufStatus EXCEPT ![i] = 1]
               /\ idx' = [idx EXCEPT ![p] = i]
               /\ tag' = [tag EXCEPT ![p] = calls']
               /\ Goto(p, "copyIn")
    BY <1>0, <2>1, <2>3 DEF Free, Goto, Begins, Others
  <2> QED
    BY <1>1, <2>2, <2>3 DEF GetBuffer
<1>2. ASSUME NEW p \in Procs, CopyIn(p) PROVE Returns(p) \/ Moves(p)
  BY <1>0, <1>2, ReleaseReturns DEF CopyIn, Goto, Moves, Others, Early
<1>3. ASSUME NEW p \in Procs, Send(p) \/ Woken(p) PROVE Moves(p)
  BY <1>0, <1>3 DEF Send, Woken, Goto, Moves, Others, Early
<1>4. ASSUME NEW p \in Procs, SendRefused(p) PROVE Returns(p) \/ Moves(p)
  BY <1>0, <1>4, ReleaseReturns DEF SendRefused, Moves, Others, Early
<1>5. ASSUME NEW p \in Procs, CopyMsg(p) PROVE Returns(p) \/ Moves(p)
  BY <1>0, <1>5, ReleaseReturns DEF CopyMsg, Goto, Moves, Others, Early
<1>6. ASSUME NEW p \in Procs, RxTimeout(p) \/ CopyOut(p) PROVE Returns(p)
  BY <1>0, <1>6, ReleaseReturns DEF RxTimeout, CopyOut
<1>7. ASSUME \/ M3Boot \/ M3Take \/ M3Reply \/ IrqQueue \/ IrqClear
             \/ WorkStart \/ WorkCheck \/ WorkAdvance \/ UNCHANGED vars
      PROVE  Still
  BY <1>7 DEF Still, M3Boot, M3Take, M3Reply, IrqQueue, IrqClear, WorkStart, WorkCheck,
              WorkAdvance, vars
<1> QED
  BY <1>1, <1>2, <1>3, <1>4, <1>5, <1>6, <1>7 DEF Next, ProcStep

LEMMA OwnStep == TypeOK /\ OwnInv /\ [Next]_vars => OwnInv'
<1> SUFFICES ASSUME TypeOK, OwnInv, [Next]_vars PROVE OwnInv'
  OBVIOUS
<1>0. /\ bufStatus \in [Slots -> 0..1] /\ idx \in [Procs -> Slots]
  BY DEF TypeOK
<1>1. CASE Still
  BY <1>1 DEF Still, OwnInv
<1>2. ASSUME NEW p \in Procs, Returns(p) PROVE OwnInv'
  <2>1. /\ \A q \in Procs : pc'[q] # "idle" =>
              q # p /\ pc[q] # "idle" /\ idx'[q] = idx[q] /\ idx[q] # idx[p]
        /\ \A q \in Procs : pc[q] # "idle" /\ q # p => pc'[q] # "idle" /\ idx'[q] = idx[q]
    BY <1>2 DEF Returns, Others, OwnInv
  <2>2. /\ bufStatus'[idx[p]] = 0
        /\ \A i \in Slots : i # idx[p] => bufStatus'[i] = bufStatus[i]
    BY <1>0, <1>2 DEF Returns
  <2>3. \A i \in Slots : bufStatus'[i] = 1 => \E q \in Procs : pc'[q] # "idle" /\ idx'[q] = i
    BY <2>1, <2>2 DEF OwnInv
  <2> QED
    BY <1>0, <2>1, <2>2, <2>3 DEF OwnInv
<1>3. ASSUME NEW p \in Procs, Moves(p) PROVE OwnInv'
  <2>1. UNCHANGED <<bufStatus, idx>> /\ \A q \in Procs : pc'[q] # "idle" <=> pc[q] # "idle"
    BY <1>3 DEF Moves, Others
  <2> QED
    BY <2>1 DEF OwnInv
<1>4. ASSUME NEW p \in Procs, Begins(p) PROVE OwnInv'
  <2>1. PICK i \in Slots : /\ bufStatus[i] = 0
                           /\ bufStatus' = [bufStatus EXCEPT ![i] = 1]
                           /\ idx'[p] = i
    BY <1>4 DEF Begins
  <2>2. pc'[p] # "idle" /\ \A q \in Procs : q # p => pc'[q] = pc[q] /\ idx'[q] = idx[q]
    BY <1>4 DEF Begins, Others
  <2>3. \A q \in Procs : pc[q] # "idle" => q # p /\ idx[q] # i
    BY <1>4, <2>1 DEF OwnInv, Begins
  <2>4. bufStatus'[i] = 1 /\ \A j \in Slots : j # i => bufStatus'[j] = bufStatus[j]
    BY <1>0, <2>1
  <2> QED
    BY <1>0, <2>1, <2>2, <2>3, <2>4 DEF OwnInv
<1> QED
  BY ProcShape, <1>1, <1>2, <1>3, <1>4

(* OwnInv is what BufferOwned says. *)
LEMMA OwnOwned == TypeOK /\ OwnInv => BufferOwned
<1> SUFFICES ASSUME TypeOK, OwnInv, NEW i \in Slots
             PROVE  Cardinality({p \in Procs : pc[p] # "idle" /\ idx[p] = i}) = bufStatus[i]
  BY DEF BufferOwned
<1> DEFINE owners == {p \in Procs : pc[p] # "idle" /\ idx[p] = i}
<1>1. CASE bufStatus[i] = 0
  <2>1. owners = {}
    BY <1>1 DEF OwnInv
  <2> QED
    BY <1>1, <2>1, FS_EmptySet
<1>2. CASE bufStatus[i] = 1
  <2>1. PICK p \in Procs : pc[p] # "idle" /\ idx[p] = i
    BY <1>2 DEF OwnInv
  <2>2. owners = {p}
    BY <2>1 DEF OwnInv
  <2> QED
    BY <1>2, <2>2, FS_Singleton
<1> QED
  BY <1>1, <1>2 DEF TypeOK

-----------------------------------------------------------------------------
(* What a step does to the requests under way. *)
TokensSame == /\ \A s \in Slots : (InM3(s)' <=> InM3(s)) /\ (InA55(s)' <=> InA55(s))
              /\ UNCHANGED <<m3Ring, m3Busy, a55Ring>>

LEMMA SameSent == TokensSame => \A t : Sent(t)' <=> Sent(t)
BY DEF TokensSame, Sent

(* The work item wakes the waiter of the reply at ci. *)
Wakes == /\ workPc = "check" /\ workPc' = "advance"
         /\ a55Pi # a55Ci
         /\ UNCHANGED <<m3Ring, m3Pi, m3Ci, m3Busy, a55Ring, a55Pi, a55Ci>>
         /\ UNCHANGED <<data, pc, idx, tag, expired, calls>>

LEMMA TokenShape ==
    ASSUME TypeOK, CountInv, [Next]_vars
    PROVE  TokensSame \/ Wakes \/ (\E p \in Procs : Send(p)) \/ M3Take \/ M3Reply
<1> USE DEF m3Vars, a55Vars, intVars
<1>a. ASSUME UNCHANGED <<m3Ring, m3Pi, m3Ci, m3Busy, a55Ring, a55Pi, a55Ci>>,
             workPc' = workPc \/ (workPc # "advance" /\ workPc' # "advance")
      PROVE  TokensSame
  BY <1>a DEF TokensSame, InM3, InA55
<1>1. ASSUME NEW p \in Procs, \/ GetBuffer(p) \/ CopyIn(p) \/ SendRefused(p) \/ Woken(p)
                              \/ RxTimeout(p) \/ CopyMsg(p) \/ CopyOut(p)
      PROVE  TokensSame
  BY <1>1, <1>a DEF GetBuffer, CopyIn, SendRefused, Woken, RxTimeout, CopyMsg, CopyOut
<1>2. ASSUME M3Boot \/ IrqQueue \/ IrqClear \/ WorkStart \/ UNCHANGED vars PROVE TokensSame
  BY <1>2, <1>a DEF M3Boot, IrqQueue, IrqClear, WorkStart, vars
<1>3. ASSUME WorkCheck PROVE TokensSame \/ Wakes
  <2>1. CASE a55Pi # a55Ci /\ a55Ring[a55Ci].crc
    BY <1>3, <2>1 DEF WorkCheck, Wakes, bufVars, procVars, locals
  <2>2. CASE ~(a55Pi # a55Ci /\ a55Ring[a55Ci].crc)
    BY <1>3, <2>2, <1>a DEF WorkCheck
  <2> QED
    BY <2>1, <2>2
<1>4. ASSUME WorkAdvance PROVE TokensSame
  <2>1. /\ workPc = "advance" /\ workPc' = "check" /\ a55Ci' = Succ(a55Ci) /\ a55Pi # a55Ci
        /\ UNCHANGED <<m3Ring, m3Pi, m3Ci, m3Busy, a55Ring, a55Pi>>
    BY <1>4 DEF WorkAdvance, CountInv
  <2>2. \A s \in Slots : Queued(s, a55Pi, Succ(a55Ci)) <=> Queued(s, a55Pi, a55Ci) /\ s # a55Ci
    BY <2>1, Dequeue DEF TypeOK
  <2> QED
    BY <2>1, <2>2 DEF TokensSame, InM3, InA55
<1> QED
  BY <1>1, <1>2, <1>3, <1>4 DEF Next, ProcStep

(* The four steps that move a request: into the M3's ring, to the M3, into  *)
(* the A55's ring, and off when its waiter is woken.                        *)
LEMMA SendMoves ==
    ASSUME TypeOK, NEW p \in Procs, Send(p)
    PROVE  /\ m3Pi \in Slots /\ ~InM3(m3Pi)
           /\ \A s \in Slots : InM3(s)' <=> InM3(s) \/ s = m3Pi
           /\ \A s \in Slots : InA55(s)' <=> InA55(s)
           /\ m3Ring'[m3Pi] = Entry(idx[p], tag[p], TRUE)
           /\ \A s \in Slots : InM3(s) => m3Ring'[s] = m3Ring[s]
           /\ UNCHANGED <<m3Busy, a55Ring>>
           /\ \A t : Sent(t)' <=> Sent(t) \/ t = tag[p]
<1>1. /\ ~Full(m3Pi, m3Ci) /\ m3Ring' = [m3Ring EXCEPT ![m3Pi] = Entry(idx[p], tag[p], TRUE)]
      /\ m3Pi' = Succ(m3Pi) /\ UNCHANGED <<m3Ci, m3Busy, a55Ring, a55Pi, a55Ci, workPc>>
  BY DEF Send, Refused, a55Vars, intVars
<1>2. m3Pi \in Slots /\ m3Ci \in Slots /\ m3Ring \in [Slots -> Entries]
  BY DEF TypeOK
<1>3. ~InM3(m3Pi) /\ \A s \in Slots : InM3(s)' <=> InM3(s) \/ s = m3Pi
  BY <1>1, <1>2, Enqueue DEF InM3
<1>4. \A s \in Slots : InA55(s)' <=> InA55(s)
  BY <1>1 DEF InA55
<1>5. m3Ring'[m3Pi] = Entry(idx[p], tag[p], TRUE) /\ \A s \in Slots : InM3(s) => m3Ring'[s] = m3Ring[s]
  BY <1>1, <1>2, <1>3
<1>6. m3Ring'[m3Pi].tag = tag[p]
  BY <1>5 DEF Entry
<1>7. ASSUME NEW t PROVE Sent(t)' <=> Sent(t) \/ t = tag[p]
  BY <1>1, <1>2, <1>3, <1>4, <1>5, <1>6 DEF Sent
<1> QED
  BY <1>1, <1>2, <1>3, <1>4, <1>5, <1>7

LEMMA TakeMoves ==
    ASSUME TypeOK, M3Take
    PROVE  /\ m3Ci \in Slots /\ InM3(m3Ci)
           /\ \A s \in Slots : InM3(s)' <=> InM3(s) /\ s # m3Ci
           /\ \A s \in Slots : InA55(s)' <=> InA55(s)
           /\ \A s \in Slots : s # m3Ci => m3Ring'[s] = m3Ring[s]
           /\ m3Busy' = m3Busy \cup {m3Ring[m3Ci]} /\ UNCHANGED a55Ring
           /\ \A t : Sent(t)' <=> Sent(t)
<1>1. /\ m3Pi # m3Ci /\ m3Ring' = [m3Ring EXCEPT ![m3Ci] = NoEntry]
      /\ m3Ci' = Succ(m3Ci) /\ m3Busy' = m3Busy \cup {m3Ring[m3Ci]}
      /\ UNCHANGED <<m3Pi, a55Ring, a55Pi, a55Ci, workPc>>
  BY DEF M3Take, a55Vars, intVars
<1>2. m3Pi \in Slots /\ m3Ci \in Slots /\ m3Ring \in [Slots -> Entries]
  BY DEF TypeOK
<1>3. InM3(m3Ci) /\ \A s \in Slots : InM3(s)' <=> InM3(s) /\ s # m3Ci
  BY <1>1, <1>2, Dequeue DEF InM3
<1>4. \A s \in Slots : InA55(s)' <=> InA55(s)
  BY <1>1 DEF InA55
<1>5. \A s \in Slots : s # m3Ci => m3Ring'[s] = m3Ring[s]
  BY <1>1, <1>2
<1>6. ASSUME NEW t PROVE Sent(t)' <=> Sent(t)
  <2>1. (\E s \in Slots : InM3(s) /\ m3Ring[s].tag = t)
          <=> (\E s \in Slots : InM3(s)' /\ m3Ring'[s].tag = t) \/ m3Ring[m3Ci].tag = t
    BY <1>2, <1>3, <1>5
  <2>2. (\E e \in m3Busy' : e.tag = t) <=> (\E e \in m3Busy : e.tag = t) \/ m3Ring[m3Ci].tag = t
    BY <1>1
  <2>3. (\E s \in Slots : InA55(s) /\ a55Ring[s].tag = t)
          <=> (\E s \in Slots : InA55(s)' /\ a55Ring'[s].tag = t)
    BY <1>1, <1>4
  <2> QED
    BY <2>1, <2>2, <2>3 DEF Sent
<1> QED
  BY <1>1, <1>2, <1>3, <1>4, <1>5, <1>6

LEMMA ReplyMoves ==
    ASSUME TypeOK, OnePlace, CountInv, M3Reply
    PROVE  \E r \in m3Busy, c \in BOOLEAN :
           /\ r.index \in Slots /\ r.tag \in Tags
           /\ a55Pi \in Slots /\ ~InA55(a55Pi)
           /\ \A s \in Slots : InA55(s)' <=> InA55(s) \/ s = a55Pi
           /\ \A s \in Slots : InM3(s)' <=> InM3(s)
           /\ a55Ring'[a55Pi] = Entry(r.index, r.tag, c)
           /\ \A s \in Slots : InA55(s) => a55Ring'[s] = a55Ring[s]
           /\ data' = [data EXCEPT ![r.index] = [tag |-> r.tag, resp |-> TRUE]]
           /\ m3Busy' = m3Busy \ {r} /\ UNCHANGED m3Ring
           /\ \A t : Sent(t)' <=> Sent(t)
<1>1. PICK r \in m3Busy, c \in Crcs :
        /\ ~Full(a55Pi, a55Ci)
        /\ m3Busy' = m3Busy \ {r}
        /\ data' = [data EXCEPT ![r.index] = [tag |-> r.tag, resp |-> TRUE]]
        /\ a55Ring' = [a55Ring EXCEPT ![a55Pi] = Entry(r.index, r.tag, c)]
        /\ a55Pi' = Succ(a55Pi)
        /\ UNCHANGED <<a55Ci, workPc, m3Ring, m3Pi, m3Ci>>
  BY DEF M3Reply, m3Vars
<1>2. /\ a55Pi \in Slots /\ a55Ci \in Slots /\ a55Ring \in [Slots -> Entries]
      /\ r.index \in Slots /\ r.tag \in Tags /\ c \in BOOLEAN
  BY DEF TypeOK, Entries
<1>3. ~Queued(a55Pi, a55Pi, a55Ci)
      /\ \A s \in Slots : Queued(s, Succ(a55Pi), a55Ci) <=> Queued(s, a55Pi, a55Ci) \/ s = a55Pi
  BY <1>1, <1>2, Enqueue
<1>4. \A s \in Slots : InM3(s)' <=> InM3(s)
  BY <1>1 DEF InM3
<1>0. workPc = "advance" => a55Pi # a55Ci
  BY DEF CountInv
<1>5. ~InA55(a55Pi) /\ \A s \in Slots : InA55(s)' <=> InA55(s) \/ s = a55Pi
  BY <1>0, <1>1, <1>2, <1>3 DEF InA55
<1>6. a55Ring'[a55Pi] = Entry(r.index, r.tag, c)
      /\ \A s \in Slots : InA55(s) => a55Ring'[s] = a55Ring[s]
  BY <1>1, <1>2, <1>5
<1>7. a55Ring'[a55Pi].tag = r.tag
  BY <1>6 DEF Entry
<1>8. ASSUME NEW t PROVE Sent(t)' <=> Sent(t)
  <2>1. (\E s \in Slots : InA55(s)' /\ a55Ring'[s].tag = t)
          <=> (\E s \in Slots : InA55(s) /\ a55Ring[s].tag = t) \/ t = r.tag
    BY <1>2, <1>5, <1>6, <1>7
  <2>2. (\E e \in m3Busy : e.tag = t) <=> (\E e \in m3Busy' : e.tag = t) \/ t = r.tag
    BY <1>1
  <2>3. (\E s \in Slots : InM3(s) /\ m3Ring[s].tag = t)
          <=> (\E s \in Slots : InM3(s)' /\ m3Ring'[s].tag = t)
    BY <1>1, <1>4
  <2> QED
    BY <2>1, <2>2, <2>3 DEF Sent
<1> QED
  BY <1>1, <1>2, <1>4, <1>5, <1>6, <1>8

LEMMA WakeMoves ==
    ASSUME TypeOK, OnePlace, Wakes
    PROVE  /\ a55Ci \in Slots /\ InA55(a55Ci)
           /\ \A s \in Slots : InA55(s)' <=> InA55(s) /\ s # a55Ci
           /\ \A s \in Slots : InM3(s)' <=> InM3(s)
           /\ UNCHANGED <<m3Ring, m3Busy, a55Ring>>
           /\ \A t : Sent(t)' <=> Sent(t) /\ t # a55Ring[a55Ci].tag
<1>1. a55Pi \in Slots /\ a55Ci \in Slots
  BY DEF TypeOK
<1>2. Queued(a55Ci, a55Pi, a55Ci)
  BY <1>1, Dequeue DEF Wakes
<1>3. InA55(a55Ci) /\ \A s \in Slots : InA55(s)' <=> InA55(s) /\ s # a55Ci
  BY <1>2 DEF Wakes, InA55
<1>4. \A s \in Slots : InM3(s)' <=> InM3(s)
  BY DEF Wakes, InM3
<1>5. UNCHANGED <<m3Ring, m3Busy, a55Ring>>
  BY DEF Wakes
<1>6. ASSUME NEW t PROVE Sent(t)' <=> Sent(t) /\ t # a55Ring[a55Ci].tag
  BY <1>1, <1>3, <1>4, <1>5 DEF Sent, OnePlace
<1> QED
  BY <1>1, <1>3, <1>4, <1>5, <1>6

(* The first two parts of TagInv, which are about processes. *)
LEMMA ProcTagStep ==
    ASSUME TypeOK, TagInv, [Next]_vars
    PROVE  /\ \A p \in Procs : pc'[p] # "idle" => tag'[p] \in 1..calls'
           /\ \A p, q \in Procs : pc'[p] # "idle" /\ pc'[q] # "idle" /\ tag'[p] = tag'[q] => p = q
           /\ calls \in Nat /\ calls' \in {calls, calls + 1}
           /\ \A p \in Procs : Early(p)' => \/ Early(p) /\ tag'[p] = tag[p]
                                            \/ tag'[p] = calls + 1
<1>0. calls \in Nat /\ \A p \in Procs : pc[p] # "idle" => tag[p] \in 1..calls
  BY DEF TypeOK, Tags, TagInv
<1>1. CASE Still
  BY <1>0, <1>1 DEF Still, TagInv, Early
<1>2. ASSUME NEW p \in Procs, Returns(p) \/ Moves(p)
      PROVE  /\ calls' = calls
             /\ \A q \in Procs : pc'[q] # "idle" => pc[q] # "idle" /\ tag'[q] = tag[q]
             /\ \A q \in Procs : Early(q)' => Early(q)
  BY <1>2 DEF Returns, Moves, Others, Early
<1>3. ASSUME NEW p \in Procs, Begins(p)
      PROVE  /\ calls' = calls + 1 /\ tag'[p] = calls + 1 /\ pc[p] = "idle"
             /\ \A q \in Procs : q # p => pc'[q] = pc[q] /\ tag'[q] = tag[q]
  BY <1>3 DEF Begins, Others
<1>4. ASSUME NEW p \in Procs, Begins(p)
      PROVE  /\ \A q \in Procs : pc'[q] # "idle" => tag'[q] \in 1..calls'
             /\ \A q, r \in Procs : pc'[q] # "idle" /\ pc'[r] # "idle" /\ tag'[q] = tag'[r] => q = r
             /\ \A q \in Procs : Early(q)' => \/ Early(q) /\ tag'[q] = tag[q]
                                              \/ tag'[q] = calls + 1
  <2>1. \A q \in Procs : q # p /\ pc'[q] # "idle" => tag'[q] \in 1..calls
    BY <1>0, <1>3, <1>4
  <2>2. \A q \in Procs : pc'[q] # "idle" => tag'[q] \in 1..calls'
    BY <1>0, <1>3, <1>4, <2>1
  <2>3. \A q \in Procs : q # p /\ pc'[q] # "idle" => tag'[q] # tag'[p]
    BY <1>0, <1>3, <1>4, <2>1
  <2>4. \A q, r \in Procs : pc'[q] # "idle" /\ pc'[r] # "idle" /\ tag'[q] = tag'[r] => q = r
    BY <1>3, <1>4, <2>3 DEF TagInv
  <2>5. \A q \in Procs : Early(q)' => \/ Early(q) /\ tag'[q] = tag[q]
                                      \/ tag'[q] = calls + 1
    BY <1>3, <1>4 DEF Early
  <2> QED
    BY <2>2, <2>4, <2>5
<1>5. ASSUME NEW p \in Procs, Returns(p) \/ Moves(p)
      PROVE  /\ \A q \in Procs : pc'[q] # "idle" => tag'[q] \in 1..calls'
             /\ \A q, r \in Procs : pc'[q] # "idle" /\ pc'[r] # "idle" /\ tag'[q] = tag'[r] => q = r
             /\ \A q \in Procs : Early(q)' => Early(q) /\ tag'[q] = tag[q]
  <2>1. \A q \in Procs : Early(q)' => pc'[q] # "idle"
    BY DEF Early
  <2> QED
    BY <1>0, <1>2, <1>5, <2>1 DEF TagInv
<1> QED
  BY <1>0, <1>1, <1>2, <1>3, <1>4, <1>5, ProcShape

LEMMA TagStep == TypeOK /\ TagInv /\ OnePlace /\ CountInv /\ [Next]_vars => TagInv'
<1> SUFFICES ASSUME TypeOK, TagInv, OnePlace, CountInv, [Next]_vars PROVE TagInv'
  OBVIOUS
<1> DEFINE Ranges == /\ \A s \in Slots : InM3(s) => m3Ring[s].tag \in 1..calls
                     /\ \A e \in m3Busy : e.tag \in 1..calls
                     /\ \A s \in Slots : InA55(s) => a55Ring[s].tag \in 1..calls
           Unsent == \A p \in Procs : Early(p) => ~Sent(tag[p])
<1>0. /\ calls \in Nat /\ calls' \in Nat /\ 1..calls \subseteq 1..calls'
      /\ calls' \in {calls, calls + 1}
  BY ProcTagStep
<1>a. Ranges /\ Unsent
  BY DEF TagInv
<1>b. ~Sent(calls + 1)
  BY <1>0, <1>a DEF Sent
<1>c. ASSUME \A t : Sent(t)' => Sent(t) PROVE Unsent'
  BY <1>0, <1>a, <1>b, <1>c, ProcTagStep
<1>1. CASE TokensSame
  <2>1. Ranges'
    BY <1>0, <1>1, <1>a DEF TokensSame
  <2> QED
    BY <1>1, <1>c, <2>1, SameSent, ProcTagStep DEF TagInv
<1>2. CASE Wakes
  <2>1. Ranges'
    BY <1>0, <1>2, <1>a, WakeMoves
  <2>2. \A t : Sent(t)' => Sent(t)
    BY <1>2, WakeMoves
  <2> QED
    BY <1>c, <2>1, <2>2, ProcTagStep DEF TagInv
<1>3. ASSUME NEW p \in Procs, Send(p) PROVE TagInv'
  <2>1. tag[p] \in 1..calls
    BY <1>3 DEF TagInv, Send
  <2>a. m3Ring'[m3Pi] = Entry(idx[p], tag[p], TRUE)
    BY <1>3, SendMoves
  <2>2. m3Ring'[m3Pi].tag = tag[p]
    BY <2>a DEF Entry
  <2>3. Ranges'
    BY <1>0, <1>3, <1>a, <2>1, <2>2, SendMoves
  <2>4. \A q \in Procs : Early(q)' => Early(q) /\ q # p /\ tag' = tag
    BY <1>3 DEF Send, Goto, Early, locals, TypeOK
  <2>5. Unsent'
    <3> SUFFICES ASSUME NEW q \in Procs, Early(q)' PROVE ~Sent(tag[q])'
      OBVIOUS
    <3>1. Early(q) /\ q # p /\ tag'[q] = tag[q]
      BY <2>4
    <3>2. tag[q] # tag[p]
      BY <1>3, <3>1 DEF TagInv, Send, Early
    <3>3. \A t : Sent(t)' <=> Sent(t) \/ t = tag[p]
      BY <1>3, SendMoves
    <3>4. ~Sent(tag[q])
      BY <1>a, <3>1
    <3>5. tag' = tag
      BY <1>3 DEF Send, locals
    <3> QED
      BY <3>2, <3>3, <3>4, <3>5 DEF Sent
  <2> QED
    BY <2>3, <2>5, ProcTagStep DEF TagInv
<1>4. CASE M3Take
  <2>1. Ranges'
    BY <1>0, <1>4, <1>a, TakeMoves
  <2>2. \A t : Sent(t)' => Sent(t)
    BY <1>4, TakeMoves
  <2> QED
    BY <1>c, <2>1, <2>2, ProcTagStep DEF TagInv
<1>5. CASE M3Reply
  <2>1. PICK r \in m3Busy, c \in BOOLEAN :
           /\ a55Pi \in Slots
           /\ \A s \in Slots : InA55(s)' <=> InA55(s) \/ s = a55Pi
           /\ \A s \in Slots : InM3(s)' <=> InM3(s)
           /\ a55Ring'[a55Pi] = Entry(r.index, r.tag, c)
           /\ \A s \in Slots : InA55(s) => a55Ring'[s] = a55Ring[s]
           /\ m3Busy' = m3Busy \ {r} /\ UNCHANGED m3Ring
           /\ \A t : Sent(t)' <=> Sent(t)
    BY <1>5, ReplyMoves
  <2>2. a55Ring'[a55Pi].tag = r.tag
    BY <2>1 DEF Entry
  <2>3. Ranges'
    BY <1>0, <1>a, <2>1, <2>2
  <2> QED
    BY <1>c, <2>1, <2>3, ProcTagStep DEF TagInv
<1> QED
  BY <1>1, <1>2, <1>3, <1>4, <1>5, TokenShape

LEMMA PlaceStep == TypeOK /\ TagInv /\ OnePlace /\ CountInv /\ [Next]_vars => OnePlace'
<1> SUFFICES ASSUME TypeOK, TagInv, OnePlace, CountInv, [Next]_vars PROVE OnePlace'
  OBVIOUS
<1>1. CASE TokensSame
  BY <1>1 DEF TokensSame, OnePlace
<1>2. CASE Wakes
  <2>1. /\ \A s \in Slots : InA55(s)' => InA55(s)
        /\ \A s \in Slots : InM3(s)' <=> InM3(s)
        /\ UNCHANGED <<m3Ring, m3Busy, a55Ring>>
    BY <1>2, WakeMoves
  <2> QED
    BY <2>1 DEF OnePlace
<1>3. ASSUME NEW p \in Procs, Send(p) PROVE OnePlace'
  <2>1. /\ m3Pi \in Slots
        /\ \A s \in Slots : InM3(s)' <=> InM3(s) \/ s = m3Pi
        /\ \A s \in Slots : InA55(s)' <=> InA55(s)
        /\ m3Ring'[m3Pi] = Entry(idx[p], tag[p], TRUE)
        /\ \A s \in Slots : InM3(s) => m3Ring'[s] = m3Ring[s]
        /\ UNCHANGED <<m3Busy, a55Ring>> /\ ~InM3(m3Pi)
    BY <1>3, SendMoves
  <2>2. m3Ring'[m3Pi].tag = tag[p]
    BY <2>1 DEF Entry
  <2>3. ~Sent(tag[p])
    BY <1>3 DEF Send, TagInv, Early
  <2>4. /\ \A s \in Slots : InM3(s) => m3Ring[s].tag # tag[p]
        /\ \A e \in m3Busy : e.tag # tag[p]
        /\ \A s \in Slots : InA55(s) => a55Ring[s].tag # tag[p]
    BY <2>3 DEF Sent
  <2>5. \A s \in Slots : InM3(s)' => \/ s = m3Pi /\ m3Ring'[s].tag = tag[p]
                                     \/ InM3(s) /\ m3Ring'[s].tag = m3Ring[s].tag
    BY <2>1, <2>2
  <2>6. \A s, r \in Slots : InM3(s)' /\ InM3(r)' /\ m3Ring'[s].tag = m3Ring'[r].tag => s = r
    BY <2>4, <2>5 DEF OnePlace
  <2>7. \A s \in Slots, e \in m3Busy : InM3(s)' => m3Ring'[s].tag # e.tag
    BY <2>4, <2>5 DEF OnePlace
  <2>8. \A s, r \in Slots : InM3(s)' /\ InA55(r) => m3Ring'[s].tag # a55Ring[r].tag
    BY <2>4, <2>5 DEF OnePlace
  <2> QED
    BY <2>1, <2>6, <2>7, <2>8 DEF OnePlace
<1>4. CASE M3Take
  <2>1. /\ m3Ci \in Slots /\ InM3(m3Ci)
        /\ \A s \in Slots : InM3(s)' <=> InM3(s) /\ s # m3Ci
        /\ \A s \in Slots : InA55(s)' <=> InA55(s)
        /\ \A s \in Slots : s # m3Ci => m3Ring'[s] = m3Ring[s]
        /\ m3Busy' = m3Busy \cup {m3Ring[m3Ci]} /\ UNCHANGED a55Ring
    BY <1>4, TakeMoves
  <2>2. \A d, e \in m3Busy' : d.tag = e.tag => d = e
    BY <2>1 DEF OnePlace
  <2>3. \A s \in Slots, e \in m3Busy' : InM3(s)' => m3Ring'[s].tag # e.tag
    BY <2>1 DEF OnePlace
  <2>4. \A s \in Slots, e \in m3Busy' : InA55(s)' => a55Ring'[s].tag # e.tag
    BY <2>1 DEF OnePlace
  <2> QED
    BY <2>1, <2>2, <2>3, <2>4 DEF OnePlace
<1>5. CASE M3Reply
  <2>1. PICK r \in m3Busy, c \in BOOLEAN :
           /\ a55Pi \in Slots /\ ~InA55(a55Pi)
           /\ \A s \in Slots : InA55(s)' <=> InA55(s) \/ s = a55Pi
           /\ \A s \in Slots : InM3(s)' <=> InM3(s)
           /\ a55Ring'[a55Pi] = Entry(r.index, r.tag, c)
           /\ \A s \in Slots : InA55(s) => a55Ring'[s] = a55Ring[s]
           /\ m3Busy' = m3Busy \ {r} /\ UNCHANGED m3Ring
    BY <1>5, ReplyMoves
  <2>2. a55Ring'[a55Pi].tag = r.tag
    BY <2>1 DEF Entry
  <2>3. \A e \in m3Busy' : e \in m3Busy /\ e.tag # r.tag
    BY <2>1 DEF OnePlace
  <2>4. /\ \A s \in Slots : InM3(s) => m3Ring[s].tag # r.tag
        /\ \A s \in Slots : InA55(s) => a55Ring[s].tag # r.tag
    BY DEF OnePlace
  <2> QED
    BY <2>1, <2>2, <2>3, <2>4 DEF OnePlace
<1> QED
  BY <1>1, <1>2, <1>3, <1>4, <1>5, TokenShape

-----------------------------------------------------------------------------
(* Completions *)

LEMMA LiveFinite == IsFiniteSet(Live) /\ Cardinality(Live) \in Nat
<1>1. IsFiniteSet(1..MaxCalls)
  BY FS_Interval
<1>2. Live \in SUBSET (1..MaxCalls)
  BY DEF Live
<1> QED
  BY <1>1, <1>2, FS_Subset, FS_CardinalityType

(* Only the work item adds to a completion, and it has a reply for it. *)
LEMMA CompletionShape ==
    ASSUME TypeOK, [Next]_vars
    PROVE  /\ completion' \in [Slots -> Nat] /\ userAddr' \in [Slots -> Slots]
           /\ \/ \A i \in Slots : completion'[i] <= completion[i]
              \/ /\ Wakes
                 /\ completion' = [completion EXCEPT ![a55Ring[a55Ci].index] = @ + 1]
<1>0. completion \in [Slots -> Nat] /\ userAddr \in [Slots -> Slots]
  BY DEF TypeOK
<1>a. ASSUME UNCHANGED wakeVars
      PROVE  /\ completion' \in [Slots -> Nat] /\ userAddr' \in [Slots -> Slots]
             /\ \A i \in Slots : completion'[i] <= completion[i]
  BY <1>0, <1>a DEF wakeVars
<1>1. ASSUME NEW p \in Procs, \/ GetBuffer(p) \/ CopyIn(p) \/ Send(p) \/ SendRefused(p)
                              \/ RxTimeout(p) \/ CopyMsg(p) \/ CopyOut(p)
      PROVE  UNCHANGED wakeVars
  BY <1>1 DEF GetBuffer, CopyIn, Send, SendRefused, RxTimeout, CopyMsg, CopyOut
<1>2. ASSUME \/ M3Boot \/ M3Take \/ M3Reply \/ IrqQueue \/ IrqClear \/ WorkStart \/ WorkAdvance
             \/ UNCHANGED vars
      PROVE  UNCHANGED wakeVars
  BY <1>2 DEF M3Boot, M3Take, M3Reply, IrqQueue, IrqClear, WorkStart, WorkAdvance, vars
<1>3. ASSUME NEW p \in Procs, Woken(p)
      PROVE  /\ completion' \in [Slots -> Nat] /\ userAddr' \in [Slots -> Slots]
             /\ \A i \in Slots : completion'[i] <= completion[i]
  <2>1. idx[p] \in Slots /\ completion[idx[p]] > 0 /\ userAddr' = userAddr
        /\ completion' = [completion EXCEPT ![idx[p]] = completion[idx[p]] - 1]
    BY <1>3 DEF Woken, TypeOK
  <2> QED
    BY <1>0, <2>1
<1>4. CASE WorkCheck
  <2> DEFINE i == a55Ring[a55Ci].index
  <2>1. i \in Slots /\ a55Ci \in Slots
    BY DEF TypeOK, Entries
  <2>2. CASE a55Pi # a55Ci /\ a55Ring[a55Ci].crc
    <3>1. Wakes
      BY <1>4, <2>2 DEF WorkCheck, Wakes, m3Vars, a55Vars, bufVars, procVars, locals
    <3>2. completion' = [completion EXCEPT ![i] = completion[i] + 1]
          /\ userAddr' = [userAddr EXCEPT ![i] = a55Ci]
      BY <1>4, <2>2 DEF WorkCheck, Complete
    <3> HIDE DEF i
    <3>3. completion' \in [Slots -> Nat] /\ userAddr' \in [Slots -> Slots]
      BY <1>0, <2>1, <3>2
    <3> QED
      BY <3>1, <3>2, <3>3 DEF i
  <2>3. CASE ~(a55Pi # a55Ci /\ a55Ring[a55Ci].crc)
    BY <1>4, <2>3, <1>a DEF WorkCheck
  <2> QED
    BY <2>2, <2>3
<1> QED
  BY <1>a, <1>1, <1>2, <1>3, <1>4 DEF Next, ProcStep

(* A call becomes live when it begins, and in no other way. *)
LEMMA LiveShape ==
    ASSUME TypeOK, TagInv, OnePlace, CountInv, [Next]_vars
    PROVE  /\ Live' \subseteq Live \/ (calls' = calls + 1 /\ Live' \subseteq Live \cup {calls + 1})
           /\ Wakes => a55Ring[a55Ci].tag \in Live /\ Live' \subseteq Live \ {a55Ring[a55Ci].tag}
<1>0. calls \in Nat /\ calls <= MaxCalls
  BY DEF TypeOK, Tags
<1>1. ASSUME NEW t, Sent(t)' PROVE Sent(t) \/ \E p \in Procs : Early(p) /\ tag[p] = t
  <2>1. CASE TokensSame
    BY <1>1, <2>1, SameSent
  <2>2. CASE Wakes
    BY <1>1, <2>2, WakeMoves
  <2>3. ASSUME NEW p \in Procs, Send(p)
        PROVE  Sent(t) \/ \E q \in Procs : Early(q) /\ tag[q] = t
    <3>1. Sent(t) \/ t = tag[p]
      BY <1>1, <2>3, SendMoves
    <3>2. Early(p)
      BY <2>3 DEF Send, Early
    <3> QED
      BY <3>1, <3>2
  <2>4. CASE M3Take
    BY <1>1, <2>4, TakeMoves
  <2>5. CASE M3Reply
    BY <1>1, <2>5, ReplyMoves
  <2> QED
    BY <2>1, <2>2, <2>3, <2>4, <2>5, TokenShape
<1>2. ASSUME NEW p \in Procs, Early(p)'
      PROVE  (Early(p) /\ tag'[p] = tag[p]) \/ (calls' = calls + 1 /\ tag'[p] = calls + 1)
  <2>1. pc'[p] # "idle"
    BY <1>2 DEF Early
  <2>2. tag'[p] \in 1..calls' /\ calls' \in {calls, calls + 1}
    BY <2>1, ProcTagStep
  <2>3. (Early(p) /\ tag'[p] = tag[p]) \/ tag'[p] = calls + 1
    BY <1>2, ProcTagStep
  <2> QED
    BY <1>0, <2>2, <2>3
<1>3. ASSUME NEW t \in Live' PROVE t \in Live \/ (calls' = calls + 1 /\ t = calls + 1)
  <2>1. CASE Sent(t)'
    BY <1>1, <1>3, <2>1 DEF Live
  <2>2. ASSUME NEW p \in Procs, Early(p)', tag'[p] = t
        PROVE  t \in Live \/ (calls' = calls + 1 /\ t = calls + 1)
    BY <1>2, <1>3, <2>2 DEF Live
  <2> QED
    BY <1>3, <2>1, <2>2 DEF Live
<1>4. ASSUME Wakes
      PROVE  a55Ring[a55Ci].tag \in Live /\ Live' \subseteq Live \ {a55Ring[a55Ci].tag}
  <2> DEFINE u == a55Ring[a55Ci].tag
  <2>1. a55Ci \in Slots /\ InA55(a55Ci) /\ \A t : Sent(t)' <=> Sent(t) /\ t # u
    BY <1>4, WakeMoves
  <2>2. Sent(u) /\ u \in 1..calls
    BY <2>1 DEF Sent, TagInv
  <2>3. UNCHANGED <<pc, tag>>
    BY <1>4 DEF Wakes
  <2>4. \A p \in Procs : Early(p) => tag[p] # u
    BY <2>2 DEF TagInv
  <2>5. u \in Live
    BY <1>0, <2>2 DEF Live
  <2>6. \A t \in Live' : t \in Live /\ t # u
    BY <2>1, <2>3, <2>4 DEF Live, Early
  <2> QED
    BY <2>5, <2>6
<1> QED
  BY <1>3, <1>4

LEMMA CountStep == TypeOK /\ TagInv /\ OnePlace /\ CountInv /\ [Next]_vars => CountInv'
<1> SUFFICES ASSUME TypeOK, TagInv, OnePlace, CountInv, [Next]_vars PROVE CountInv'
  OBVIOUS
<1>0. /\ IsFiniteSet(Live) /\ Cardinality(Live) \in Nat
      /\ calls \in Nat /\ completion \in [Slots -> Nat] /\ calls' \in {calls, calls + 1}
      /\ completion' \in [Slots -> Nat]
  <2>1. calls \in Nat /\ completion \in [Slots -> Nat]
    BY DEF TypeOK, Tags
  <2>2. calls' \in {calls, calls + 1}
    BY ProcTagStep
  <2>3. completion' \in [Slots -> Nat]
    BY CompletionShape
  <2> QED
    BY <2>1, <2>2, <2>3, LiveFinite
<1>1. workPc' = "advance" => a55Pi' # a55Ci'
  <2>1. ASSUME NEW p \in Procs, GetBuffer(p) \/ ProcStep(p)
        PROVE  UNCHANGED <<workPc, a55Pi, a55Ci>>
    BY <2>1 DEF GetBuffer, ProcStep, CopyIn, Send, SendRefused, Woken, RxTimeout, CopyMsg, CopyOut,
                intVars, a55Vars
  <2>2. CASE M3Boot \/ M3Take \/ IrqQueue \/ IrqClear \/ UNCHANGED vars
    BY <2>2 DEF M3Boot, M3Take, IrqQueue, IrqClear, vars, intVars, a55Vars, CountInv
  <2>3. CASE M3Reply
    BY <2>3 DEF M3Reply, Full
  <2>4. CASE WorkStart \/ WorkAdvance \/ WorkCheck
    BY <2>4 DEF WorkStart, WorkAdvance, WorkCheck, a55Vars
  <2> QED
    BY <2>1, <2>2, <2>3, <2>4 DEF Next, CountInv
<1>2. Cardinality(Live') \in Nat
  <2>1. IsFiniteSet(1..MaxCalls)
    BY FS_Interval
  <2>2. Live' \in SUBSET (1..MaxCalls)
    BY DEF Live
  <2> QED
    BY <2>1, <2>2, FS_Subset, FS_CardinalityType
<1>3. Cardinality(Live') <= Cardinality(Live) + (calls' - calls)
  <2>1. CASE Live' \subseteq Live
    BY <1>0, <1>2, <2>1, FS_Subset
  <2>2. CASE calls' = calls + 1 /\ Live' \subseteq Live \cup {calls + 1}
    <3> DEFINE S == Live \cup {calls + 1}
    <3>1. IsFiniteSet(S) /\ (Cardinality(S) = Cardinality(Live) \/ Cardinality(S) = Cardinality(Live) + 1)
      BY <1>0, FS_AddElement
    <3>2. Live' \in SUBSET S
      BY <2>2
    <3> HIDE DEF S
    <3>3. Cardinality(Live') <= Cardinality(S)
      BY <3>1, <3>2, FS_Subset
    <3> QED
      BY <1>0, <1>2, <2>2, <3>1, <3>3
  <2> QED
    BY <2>1, <2>2, LiveShape
<1>4. CASE \A i \in Slots : completion'[i] <= completion[i]
  <2>1. \A i \in Slots : completion[i] + Cardinality(Live) <= calls
    BY DEF CountInv
  <2>2. \A i \in Slots : completion'[i] + Cardinality(Live') <= calls'
    BY <1>0, <1>2, <1>3, <1>4, <2>1
  <2> QED
    BY <1>1, <2>2 DEF CountInv
<1>5. CASE Wakes /\ completion' = [completion EXCEPT ![a55Ring[a55Ci].index] = @ + 1]
  <2> DEFINE u == a55Ring[a55Ci].tag
             S == Live \ {u}
  <2>1. u \in Live /\ Live' \in SUBSET S
    BY <1>5, LiveShape
  <2>a. u \in Live
    BY <2>1
  <2>2. IsFiniteSet(S) /\ Cardinality(S) = Cardinality(Live) - 1
    <3> HIDE DEF u
    <3> QED
      BY <1>0, <2>a, FS_RemoveElement
  <2> HIDE DEF S
  <2>3. Cardinality(Live') <= Cardinality(S)
    BY <2>1, <2>2, FS_Subset
  <2>4. \A i \in Slots : completion'[i] <= completion[i] + 1
    BY <1>0, <1>5
  <2>5. \A i \in Slots : completion[i] + Cardinality(Live) <= calls
    BY DEF CountInv
  <2>6. \A i \in Slots : completion'[i] + Cardinality(Live') <= calls'
    BY <1>0, <1>2, <2>2, <2>3, <2>4, <2>5
  <2> QED
    BY <1>1, <2>6 DEF CountInv
<1> QED
  BY <1>4, <1>5, CompletionShape

LEMMA TypeStep ==
    TypeOK /\ RingsFifo /\ TagInv /\ OnePlace /\ CountInv /\ [Next]_vars => TypeOK'
<1> SUFFICES ASSUME TypeOK, RingsFifo, TagInv, OnePlace, CountInv, [Next]_vars PROVE TypeOK'
  OBVIOUS
<1>1. BufTypes' /\ ProcTypes' /\ RingTypes' /\ FlagTypes' /\ calls' \in Tags
  BY BufStep, ProcTypeStep, RingStep, FlagStep
<1>2. CountInv'
  BY CountStep
<1>3. Cardinality(Live') \in Nat
  <2>1. IsFiniteSet(1..MaxCalls)
    BY FS_Interval
  <2>2. Live' \in SUBSET (1..MaxCalls)
    BY DEF Live
  <2> QED
    BY <2>1, <2>2, FS_Subset, FS_CardinalityType
<1>4. completion' \in [Slots -> Nat] /\ userAddr' \in [Slots -> Slots]
  BY CompletionShape
<1>5. \A i \in Slots : completion'[i] \in 0..MaxCalls
  BY <1>1, <1>2, <1>3, <1>4 DEF CountInv, Tags
<1>6. WakeTypes'
  BY <1>4, <1>5 DEF WakeTypes
<1> QED
  BY <1>1, <1>6, TypePartsPrime

-----------------------------------------------------------------------------
(* Who waits for what *)

(* Parts of WaitInv. *)
WaitM3   == \A s \in Slots : InM3(s) => Waits(m3Ring[s].index, m3Ring[s].tag)
WaitBusy == \A e \in m3Busy : Waits(e.index, e.tag)
WaitA55  == \A s \in Slots : InA55(s) =>
               /\ Waits(a55Ring[s].index, a55Ring[s].tag)
               /\ data[a55Ring[s].index] = [tag |-> a55Ring[s].tag, resp |-> TRUE]
WaitDone == \A i \in Slots : completion[i] > 0 =>
               /\ completion[i] = 1
               /\ Waits(i, data[i].tag) /\ ~Sent(data[i].tag)
WaitCopy == \A p \in Procs : pc[p] \in {"copyMsg", "copyOut"} => data[idx[p]].tag = tag[p]

LEMMA WaitParts == WaitInv <=> (~expired => WaitM3 /\ WaitBusy /\ WaitA55 /\ WaitDone /\ WaitCopy)
BY DEF WaitInv, WaitM3, WaitBusy, WaitA55, WaitDone, WaitCopy

LEMMA WaitPartsPrime ==
    WaitM3' /\ WaitBusy' /\ WaitA55' /\ WaitDone' /\ WaitCopy' => WaitInv'
BY DEF WaitInv, WaitM3, WaitBusy, WaitA55, WaitDone, WaitCopy

(* A buffer has one owner, who waits for one reply. *)
LEMMA OneWaiter ==
    ASSUME OwnInv, NEW i, NEW t, NEW u, Waits(i, t), Waits(i, u)
    PROVE  t = u
BY DEF OwnInv, Waits

(* The processes that wait go on waiting. *)
KeepWaiting == \A p \in Procs : pc[p] = "wait" =>
                  pc'[p] = "wait" /\ idx'[p] = idx[p] /\ tag'[p] = tag[p]

LEMMA KeepWaits == KeepWaiting => \A i, t : Waits(i, t) => Waits(i, t)'
BY DEF KeepWaiting, Waits

(* A process copies a reply that it was already copying. *)
KeepCopying == \A p \in Procs : pc'[p] \in {"copyMsg", "copyOut"} =>
                  /\ pc[p] \in {"copyMsg", "copyOut"}
                  /\ idx'[p] = idx[p] /\ tag'[p] = tag[p]

(* The buffers of processes past their send are left alone. *)
KeepData == \A p \in Procs : pc[p] \in {"wait", "copyMsg", "copyOut"} => data'[idx[p]] = data[idx[p]]

LEMMA WaitFrame ==
    ASSUME TypeOK, WaitM3, WaitBusy, WaitA55, WaitDone, WaitCopy,
           TokensSame, KeepWaiting, KeepCopying, KeepData, completion' = completion
    PROVE  WaitInv'
<1>0. \A i, t : Waits(i, t) => Waits(i, t)' /\ data'[i] = data[i]
  BY KeepWaits DEF Waits, KeepData
<1>1. WaitM3' /\ WaitBusy'
  BY <1>0 DEF WaitM3, WaitBusy, TokensSame
<1>2. WaitA55'
  BY <1>0 DEF WaitA55, TokensSame
<1>3. WaitDone'
  <2> SUFFICES ASSUME NEW i \in Slots, completion'[i] > 0
               PROVE  completion'[i] = 1 /\ Waits(i, data[i].tag)' /\ ~Sent(data[i].tag)'
    BY DEF WaitDone
  <2>0. PICK t : t = data[i].tag
    OBVIOUS
  <2>1. completion[i] = 1 /\ Waits(i, t) /\ ~Sent(t)
    BY <2>0 DEF WaitDone
  <2>2. data'[i].tag = t
    BY <1>0, <2>0, <2>1
  <2>3. Waits(i, t)' /\ ~Sent(t)'
    BY <1>0, <2>1, SameSent
  <2> QED
    BY <2>1, <2>2, <2>3
<1>4. WaitCopy'
  BY DEF WaitCopy, KeepCopying, KeepData
<1> QED
  BY <1>1, <1>2, <1>3, <1>4, WaitPartsPrime

LEMMA WaitStep == IInv /\ [Next]_vars => WaitInv'
<1> SUFFICES ASSUME IInv, [Next]_vars, ~expired' PROVE WaitInv'
  BY DEF WaitInv
<1> USE DEF IInv
<1>0. /\ pc \in [Procs -> {"idle", "copyIn", "send", "wait", "copyMsg", "copyOut"}]
      /\ idx \in [Procs -> Slots] /\ tag \in [Procs -> Tags]
      /\ data \in [Slots -> [tag : Tags, resp : BOOLEAN]]
      /\ completion \in [Slots -> Nat]
  BY DEF TypeOK
<1>e. ~expired
  BY DEF Next, ProcStep, GetBuffer, CopyIn, Send, SendRefused, Woken, RxTimeout, CopyMsg, CopyOut,
         M3Boot, M3Take, M3Reply, IrqQueue, IrqClear, WorkStart, WorkCheck, WorkAdvance, vars
<1>w. WaitM3 /\ WaitBusy /\ WaitA55 /\ WaitDone /\ WaitCopy
  BY <1>e, WaitParts
<1>1. ASSUME NEW p \in Procs, GetBuffer(p) \/ SendRefused(p) \/ CopyMsg(p) \/ CopyOut(p)
      PROVE  WaitInv'
  <2>1. KeepWaiting /\ KeepCopying
    BY <1>0, <1>1 DEF KeepWaiting, KeepCopying, GetBuffer, SendRefused, CopyMsg, CopyOut,
                      Release, Return, Goto, procVars, locals
  <2>2. UNCHANGED <<data, completion>>
    BY <1>1 DEF GetBuffer, SendRefused, CopyMsg, CopyOut, wakeVars
  <2>3. TokensSame
    BY <1>1 DEF TokensSame, InM3, InA55, GetBuffer, SendRefused, CopyMsg, CopyOut,
                m3Vars, a55Vars, intVars
  <2> QED
    BY <1>w, <2>1, <2>2, <2>3, WaitFrame DEF KeepData
<1>2. ASSUME NEW p \in Procs, CopyIn(p) PROVE WaitInv'
  <2>1. KeepWaiting /\ KeepCopying
    BY <1>0, <1>2 DEF KeepWaiting, KeepCopying, CopyIn, Release, Return, Goto, locals
  <2>2. completion' = completion /\ pc[p] = "copyIn"
    BY <1>2 DEF CopyIn, wakeVars
  <2>3. TokensSame
    BY <1>2 DEF TokensSame, InM3, InA55, CopyIn, m3Vars, a55Vars, intVars
  <2>4. \A i \in Slots : i # idx[p] => data'[i] = data[i]
    BY <1>0, <1>2 DEF CopyIn
  <2>5. \A q \in Procs : q # p /\ pc[q] # "idle" => idx[q] # idx[p]
    BY <2>2 DEF OwnInv
  <2>6. KeepData
    BY <1>0, <2>2, <2>4, <2>5 DEF KeepData
  <2> QED
    BY <1>w, <2>1, <2>2, <2>3, <2>6, WaitFrame
<1>3. ASSUME NEW p \in Procs, Send(p) PROVE WaitInv'
  <2>1. /\ pc[p] = "send" /\ pc' = [pc EXCEPT ![p] = "wait"]
        /\ UNCHANGED <<data, completion, idx, tag>>
    BY <1>3 DEF Send, Goto, locals, bufVars, wakeVars
  <2>2. /\ m3Pi \in Slots
        /\ \A s \in Slots : InM3(s)' <=> InM3(s) \/ s = m3Pi
        /\ \A s \in Slots : InA55(s)' <=> InA55(s)
        /\ m3Ring'[m3Pi] = Entry(idx[p], tag[p], TRUE)
        /\ \A s \in Slots : InM3(s) => m3Ring'[s] = m3Ring[s]
        /\ UNCHANGED <<m3Busy, a55Ring>>
    BY <1>3, SendMoves
  <2>a. \A t : Sent(t)' <=> Sent(t) \/ t = tag[p]
    BY <1>3, SendMoves
  <2>3. \A i, t : Waits(i, t) => Waits(i, t)'
    BY <1>0, <2>1, KeepWaits DEF KeepWaiting
  <2>4. m3Ring'[m3Pi].index = idx[p] /\ m3Ring'[m3Pi].tag = tag[p]
    BY <2>2 DEF Entry
  <2>5. Waits(idx[p], tag[p])'
    BY <1>0, <2>1 DEF Waits
  <2>6. \A s \in Slots : InM3(s)' => Waits(m3Ring[s].index, m3Ring[s].tag)'
    <3> SUFFICES ASSUME NEW s \in Slots, InM3(s)' PROVE Waits(m3Ring[s].index, m3Ring[s].tag)'
      OBVIOUS
    <3>1. CASE s = m3Pi
      BY <2>1, <2>4, <2>5, <3>1 DEF Waits
    <3>2. CASE s # m3Pi
      <4>1. InM3(s) /\ m3Ring'[s] = m3Ring[s]
        BY <2>2, <3>2
      <4>2. PICK i, t : i = m3Ring[s].index /\ t = m3Ring[s].tag
        OBVIOUS
      <4>3. Waits(i, t)'
        BY <1>w, <2>3, <4>1, <4>2 DEF WaitM3
      <4> QED
        BY <4>1, <4>2, <4>3
    <3> QED
      BY <3>1, <3>2
  <2>7. WaitBusy' /\ WaitA55'
    BY <1>w, <2>1, <2>2, <2>3 DEF WaitBusy, WaitA55
  <2>8. WaitDone'
    <3> SUFFICES ASSUME NEW i \in Slots, completion'[i] > 0
                 PROVE  completion'[i] = 1 /\ Waits(i, data[i].tag)' /\ ~Sent(data[i].tag)'
      BY DEF WaitDone
    <3>0. PICK t : t = data[i].tag
      OBVIOUS
    <3>1. completion[i] = 1 /\ Waits(i, t) /\ ~Sent(t)
      BY <1>w, <2>1, <3>0 DEF WaitDone
    <3>2. t # tag[p]
      BY <2>1, <3>1 DEF Waits, TagInv
    <3>3. Waits(i, t)' /\ ~Sent(t)'
      BY <2>3, <2>a, <3>1, <3>2
    <3> QED
      BY <2>1, <3>0, <3>1, <3>3
  <2>9. WaitCopy'
    BY <1>0, <1>w, <2>1 DEF WaitCopy
  <2> QED
    BY <2>6, <2>7, <2>8, <2>9, WaitPartsPrime DEF WaitM3
<1>4. ASSUME NEW p \in Procs, Woken(p) PROVE WaitInv'
  <2>1. /\ pc[p] = "wait" /\ pc' = [pc EXCEPT ![p] = "copyMsg"]
        /\ completion[idx[p]] > 0
        /\ completion' = [completion EXCEPT ![idx[p]] = completion[idx[p]] - 1]
        /\ UNCHANGED <<data, idx, tag>>
    BY <1>4 DEF Woken, Goto, locals, bufVars
  <2>2. TokensSame
    BY <1>4 DEF TokensSame, InM3, InA55, Woken, m3Vars, a55Vars, intVars
  <2>3. Waits(idx[p], tag[p])
    BY <2>1 DEF Waits
  <2>4. completion[idx[p]] = 1 /\ Waits(idx[p], data[idx[p]].tag) /\ ~Sent(data[idx[p]].tag)
    BY <1>0, <1>w, <2>1 DEF WaitDone
  <2>5. data[idx[p]].tag = tag[p]
    BY <2>3, <2>4, OneWaiter
  <2>6. ~Sent(tag[p])
    BY <2>4, <2>5
  <2>7. ASSUME NEW i, NEW t, Waits(i, t), t # tag[p] PROVE Waits(i, t)'
    BY <1>0, <2>1, <2>7 DEF Waits
  <2>8. WaitM3' /\ WaitBusy'
    <3>1. \A s \in Slots : InM3(s) => m3Ring[s].tag # tag[p]
      BY <2>6 DEF Sent
    <3>2. \A e \in m3Busy : e.tag # tag[p]
      BY <2>6 DEF Sent
    <3> QED
      BY <1>w, <2>2, <2>7, <3>1, <3>2 DEF WaitM3, WaitBusy, TokensSame
  <2>9. WaitA55'
    <3>1. \A s \in Slots : InA55(s) => a55Ring[s].tag # tag[p]
      BY <2>6 DEF Sent
    <3> QED
      BY <1>w, <2>1, <2>2, <2>7, <3>1 DEF WaitA55, TokensSame
  <2>10. WaitDone'
    <3> SUFFICES ASSUME NEW i \in Slots, completion'[i] > 0
                 PROVE  completion'[i] = 1 /\ Waits(i, data[i].tag)' /\ ~Sent(data[i].tag)'
      BY DEF WaitDone
    <3>1. i # idx[p] /\ completion'[i] = completion[i]
      BY <1>0, <2>1, <2>4
    <3>0. PICK t : t = data[i].tag
      OBVIOUS
    <3>2. completion[i] = 1 /\ Waits(i, t) /\ ~Sent(t)
      BY <1>w, <3>0, <3>1 DEF WaitDone
    <3>3. t # tag[p]
      BY <2>1, <3>1, <3>2 DEF Waits, TagInv
    <3>4. Waits(i, t)' /\ ~Sent(t)'
      BY <2>2, <2>7, <3>2, <3>3, SameSent
    <3> QED
      BY <2>1, <3>0, <3>1, <3>2, <3>4
  <2>11. WaitCopy'
    BY <1>0, <1>w, <2>1, <2>5 DEF WaitCopy
  <2> QED
    BY <2>8, <2>9, <2>10, <2>11, WaitPartsPrime
<1>5. ASSUME NEW p \in Procs, RxTimeout(p) PROVE WaitInv'
  BY <1>5 DEF RxTimeout
<1>6. CASE M3Take
  <2>1. UNCHANGED <<data, completion, pc, idx, tag>>
    BY <1>6 DEF M3Take, bufVars, wakeVars, procVars, locals
  <2>2. /\ m3Ci \in Slots /\ InM3(m3Ci)
        /\ \A s \in Slots : InM3(s)' <=> InM3(s) /\ s # m3Ci
        /\ \A s \in Slots : InA55(s)' <=> InA55(s)
        /\ \A s \in Slots : s # m3Ci => m3Ring'[s] = m3Ring[s]
        /\ m3Busy' = m3Busy \cup {m3Ring[m3Ci]} /\ UNCHANGED a55Ring
    BY <1>6, TakeMoves
  <2>a. \A t : Sent(t)' <=> Sent(t)
    BY <1>6, TakeMoves
  <2>3. \A i, t : Waits(i, t) <=> Waits(i, t)'
    BY <2>1 DEF Waits
  <2>4. WaitM3' /\ WaitA55' /\ WaitBusy'
    BY <1>w, <2>1, <2>2, <2>3 DEF WaitM3, WaitA55, WaitBusy
  <2>5. WaitDone' /\ WaitCopy'
    BY <1>w, <2>1, <2>a, <2>3 DEF WaitDone, WaitCopy
  <2> QED
    BY <2>4, <2>5, WaitPartsPrime
<1>7. CASE M3Reply
  <2>1. UNCHANGED <<completion, pc, idx, tag>>
    BY <1>7 DEF M3Reply, wakeVars, procVars, locals
  <2>2. PICK r \in m3Busy, c \in BOOLEAN :
           /\ r.index \in Slots
           /\ a55Pi \in Slots /\ ~InA55(a55Pi)
           /\ \A s \in Slots : InA55(s)' <=> InA55(s) \/ s = a55Pi
           /\ \A s \in Slots : InM3(s)' <=> InM3(s)
           /\ a55Ring'[a55Pi] = Entry(r.index, r.tag, c)
           /\ \A s \in Slots : InA55(s) => a55Ring'[s] = a55Ring[s]
           /\ data' = [data EXCEPT ![r.index] = [tag |-> r.tag, resp |-> TRUE]]
           /\ m3Busy' = m3Busy \ {r} /\ UNCHANGED m3Ring
           /\ \A t : Sent(t)' <=> Sent(t)
    BY <1>7, ReplyMoves
  <2>3. a55Ring'[a55Pi].index = r.index /\ a55Ring'[a55Pi].tag = r.tag
    BY <2>2 DEF Entry
  <2>4. data'[r.index] = [tag |-> r.tag, resp |-> TRUE]
        /\ \A i \in Slots : i # r.index => data'[i] = data[i]
    BY <1>0, <2>2
  <2>5. \A i, t : Waits(i, t) <=> Waits(i, t)'
    BY <2>1 DEF Waits
  <2>6. Waits(r.index, r.tag) /\ Sent(r.tag)
    BY <1>w DEF WaitBusy, Sent
  <2>7. WaitM3' /\ WaitBusy'
    BY <1>w, <2>2, <2>5 DEF WaitM3, WaitBusy
  <2>8. WaitA55'
    <3> SUFFICES ASSUME NEW s \in Slots, InA55(s)'
                 PROVE  /\ Waits(a55Ring[s].index, a55Ring[s].tag)'
                        /\ data'[a55Ring'[s].index] = [tag |-> a55Ring'[s].tag, resp |-> TRUE]
      BY DEF WaitA55
    <3>1. CASE s = a55Pi
      BY <2>3, <2>4, <2>5, <2>6, <3>1
    <3>2. CASE s # a55Pi
      <4>1. InA55(s) /\ a55Ring'[s] = a55Ring[s] /\ a55Ring[s].index \in Slots
        BY <2>2, <3>2 DEF TypeOK, Entries
      <4>2. Waits(a55Ring[s].index, a55Ring[s].tag)
            /\ data[a55Ring[s].index] = [tag |-> a55Ring[s].tag, resp |-> TRUE]
        BY <1>w, <4>1 DEF WaitA55
      <4>3. a55Ring[s].tag # r.tag
        BY <4>1 DEF OnePlace
      <4>4. a55Ring[s].index # r.index
        BY <2>6, <4>2, <4>3, OneWaiter
      <4> QED
        BY <2>4, <2>5, <4>1, <4>2, <4>4
    <3> QED
      BY <3>1, <3>2
  <2>9. WaitDone'
    <3> SUFFICES ASSUME NEW i \in Slots, completion'[i] > 0
                 PROVE  completion'[i] = 1 /\ Waits(i, data[i].tag)' /\ ~Sent(data[i].tag)'
      BY DEF WaitDone
    <3>0. PICK t : t = data[i].tag
      OBVIOUS
    <3>1. completion[i] = 1 /\ Waits(i, t) /\ ~Sent(t)
      BY <1>w, <2>1, <3>0 DEF WaitDone
    <3>2. i # r.index
      BY <2>6, <3>1, OneWaiter
    <3>3. data'[i].tag = t
      BY <2>4, <3>0, <3>2
    <3>4. Waits(i, t)' /\ ~Sent(t)'
      BY <2>2, <2>5, <3>1
    <3> QED
      BY <2>1, <3>1, <3>3, <3>4
  <2>10. WaitCopy'
    <3>1. \A p \in Procs : pc[p] \in {"copyMsg", "copyOut"} => idx[p] # r.index
      BY <2>6 DEF OwnInv, Waits
    <3> QED
      BY <1>0, <1>w, <2>1, <2>4, <3>1 DEF WaitCopy
  <2> QED
    BY <2>7, <2>8, <2>9, <2>10, WaitPartsPrime
<1>8. CASE WorkCheck /\ a55Pi # a55Ci /\ a55Ring[a55Ci].crc
  <2>1. Wakes
    BY <1>8 DEF WorkCheck, Wakes, m3Vars, a55Vars, bufVars, procVars, locals
  <2>2. completion' = [completion EXCEPT ![a55Ring[a55Ci].index] = completion[a55Ring[a55Ci].index] + 1]
    BY <1>8 DEF WorkCheck, Complete
  <2>3. UNCHANGED <<data, pc, idx, tag, m3Ring, m3Busy, a55Ring>>
    BY <2>1 DEF Wakes
  <2>4. /\ a55Ci \in Slots /\ InA55(a55Ci)
        /\ \A s \in Slots : InA55(s)' <=> InA55(s) /\ s # a55Ci
        /\ \A s \in Slots : InM3(s)' <=> InM3(s)
        /\ \A t : Sent(t)' <=> Sent(t) /\ t # a55Ring[a55Ci].tag
    BY <2>1, WakeMoves
  <2>5. PICK j, u : j = a55Ring[a55Ci].index /\ u = a55Ring[a55Ci].tag
    OBVIOUS
  <2>6. j \in Slots /\ Waits(j, u) /\ Sent(u) /\ data[j].tag = u
    <3>1. j \in Slots
      BY <2>4, <2>5 DEF TypeOK, Entries
    <3>2. Waits(j, u) /\ data[j] = [tag |-> u, resp |-> TRUE]
      BY <1>w, <2>4, <2>5 DEF WaitA55
    <3>3. Sent(u)
      BY <2>4, <2>5 DEF Sent
    <3> QED
      BY <3>1, <3>2, <3>3
  <2>7. completion[j] = 0
    BY <1>0, <1>w, <2>6 DEF WaitDone
  <2>8. completion'[j] = 1 /\ \A i \in Slots : i # j => completion'[i] = completion[i]
    BY <1>0, <2>2, <2>5, <2>6, <2>7
  <2>9. \A i, t : Waits(i, t) <=> Waits(i, t)'
    BY <2>3 DEF Waits
  <2>10. WaitM3' /\ WaitBusy' /\ WaitA55' /\ WaitCopy'
    BY <1>w, <2>3, <2>4, <2>9 DEF WaitM3, WaitBusy, WaitA55, WaitCopy
  <2>11. WaitDone'
    <3> SUFFICES ASSUME NEW i \in Slots, completion'[i] > 0
                 PROVE  completion'[i] = 1 /\ Waits(i, data[i].tag)' /\ ~Sent(data[i].tag)'
      BY DEF WaitDone
    <3>0. PICK t : t = data[i].tag
      OBVIOUS
    <3>1. CASE i = j
      <4>1. t = u /\ Waits(i, t)' /\ ~Sent(t)'
        BY <2>4, <2>5, <2>6, <2>9, <3>0, <3>1
      <4> QED
        BY <2>3, <2>8, <3>0, <3>1, <4>1
    <3>2. CASE i # j
      <4>1. completion'[i] = completion[i]
        BY <2>8, <3>2
      <4>2. completion[i] = 1 /\ Waits(i, t) /\ ~Sent(t)
        BY <1>w, <3>0, <4>1 DEF WaitDone
      <4>3. Waits(i, t)' /\ ~Sent(t)'
        BY <2>4, <2>9, <4>2
      <4> QED
        BY <2>3, <3>0, <4>1, <4>2, <4>3
    <3> QED
      BY <3>1, <3>2
  <2> QED
    BY <2>10, <2>11, WaitPartsPrime
<1>9. CASE \/ WorkCheck /\ ~(a55Pi # a55Ci /\ a55Ring[a55Ci].crc)
           \/ M3Boot \/ IrqQueue \/ IrqClear \/ WorkStart \/ WorkAdvance \/ UNCHANGED vars
  <2>1. UNCHANGED <<data, completion, pc, idx, tag>>
    BY <1>9 DEF WorkCheck, M3Boot, IrqQueue, IrqClear, WorkStart, WorkAdvance, vars,
                bufVars, wakeVars, procVars, locals
  <2>2. KeepWaiting /\ KeepCopying /\ KeepData
    BY <2>1 DEF KeepWaiting, KeepCopying, KeepData
  <2>3. TokensSame
    <3>1. CASE WorkAdvance
      <4>1. ~Wakes /\ (\A p \in Procs : ~Send(p)) /\ ~M3Take /\ ~M3Reply
        BY <3>1 DEF WorkAdvance, Wakes, Send, M3Take, M3Reply, intVars
      <4> QED
        BY <4>1, TokenShape
    <3>2. CASE ~WorkAdvance
      BY <1>9, <3>2 DEF WorkCheck, M3Boot, IrqQueue, IrqClear, WorkStart, vars,
                        TokensSame, InM3, InA55, m3Vars, a55Vars, intVars
    <3> QED
      BY <3>1, <3>2
  <2> QED
    BY <1>w, <2>1, <2>2, <2>3, WaitFrame
<1> QED
  BY <1>1, <1>2, <1>3, <1>4, <1>5, <1>6, <1>7, <1>8, <1>9 DEF Next, ProcStep

-----------------------------------------------------------------------------
(* The inductive invariant holds in every reachable state. *)
THEOREM Invariance == Spec => []IInv
<1>1. Init => IInv
  BY InitIInv
<1>2. IInv /\ [Next]_vars => IInv'
  BY TypeStep, RingStep, OwnStep, TagStep, PlaceStep, CountStep, WaitStep DEF IInv
<1> QED
  BY <1>1, <1>2, PTL DEF Spec

(* Every variable of the driver keeps its type; in particular a completion  *)
(* never counts more replies than there were calls, and every ring index    *)
(* stays inside its ring.                                                   *)
THEOREM TypeCorrect == Spec => []TypeOK
<1>1. IInv => TypeOK
  BY DEF IInv
<1> QED
  BY Invariance, <1>1, PTL

(* A data buffer is marked taken exactly while one process works with it,   *)
(* for any number of processes and buffers: no path through the ioctl leaks *)
(* a buffer or frees one twice.                                             *)
THEOREM BuffersOwned == Spec => []BufferOwned
<1>1. IInv => BufferOwned
  BY OwnOwned DEF IInv
<1> QED
  BY Invariance, <1>1, PTL

(* Both rings are FIFO queues, for any depth: no entry is overwritten,      *)
(* skipped or seen twice when an index wraps.                               *)
THEOREM RingsAreFifo == Spec => []RingsFifo
<1>1. IInv => RingsFifo
  BY DEF IInv
<1> QED
  BY Invariance, <1>1, PTL

(* As long as no wait has expired, the response a process hands to its      *)
(* caller is the response to its own request, for any number of processes   *)
(* that reuse the buffers, and with replies in any order.                   *)
THEOREM ResponsesMine == Spec => []DataIsMine
<1>1. IInv => DataIsMine
  BY DEF IInv, WaitInv, DataIsMine
<1> QED
  BY Invariance, <1>1, PTL
=============================================================================
