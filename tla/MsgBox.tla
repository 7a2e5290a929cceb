------------------------------- MODULE MsgBox -------------------------------
(***************************************************************************)
(* What the shared-memory message interface of the real-time cores         *)
(* (bm_message.h) promises its callers: every message id is an atomic      *)
(* register.  A send replaces a prefix of the register in one step, a      *)
(* receive returns a prefix of what the register holds at one instant      *)
(* between its call and its return, and any call may fail.  How the        *)
(* promise is kept (a try-lock and word-by-word copies) is BmMessage.      *)
(***************************************************************************)
EXTENDS Naturals

CONSTANTS Callers,   \* who may call: execution contexts of the cores
          MsgIds,    \* message ids
          BodyLen,   \* capacity of a message body, in words
          Words,     \* values of a word
          Requests   \* calls: records with fields op, id, word and len

VARIABLES box,       \* box[m]: the words of message m
          stage,     \* stage[x]: "idle", "called" or "stored"
          req,       \* req[x]: the call x makes or made last
          result     \* result[x]: the code and the data x's last call returned

vars == <<box, stage, req, result>>

Bodies == [1..BodyLen -> Words]
NoData == [i \in 1..BodyLen |-> 0]
Ret(c, d) == [code |-> c, data |-> d]

(* What is left of body b once the first n words are replaced by w. *)
Overlay(b, w, n) == [i \in 1..BodyLen |-> IF i <= n THEN w ELSE b[i]]

(* A caller's buffer: the first n words of b, and zero beyond. *)
Prefix(b, n) == [i \in 1..BodyLen |-> IF i <= n THEN b[i] ELSE 0]

Init == /\ box \in [MsgIds -> Bodies]
        /\ stage = [x \in Callers |-> "idle"]
        /\ req \in [Callers -> Requests]
        /\ result = [x \in Callers |-> Ret("BM_OK", NoData)]

Call(x) == /\ stage[x] = "idle"
           /\ stage' = [stage EXCEPT ![x] = "called"]
           /\ \E r \in Requests : req' = [req EXCEPT ![x] = r]
           /\ result' = [result EXCEPT ![x] = Ret("busy", NoData)]
           /\ UNCHANGED box

End(x, c, d) == /\ stage' = [stage EXCEPT ![x] = "idle"]
                /\ result' = [result EXCEPT ![x] = Ret(c, d)]

(* A send that fits takes effect; a notified one still has to notify. *)
Store(x) == LET r == req[x] IN
            /\ stage[x] = "called"
            /\ r.id \in MsgIds
            /\ r.len <= BodyLen
            /\ box' = [box EXCEPT ![r.id] = Overlay(box[r.id], r.word, r.len)]
            /\ \/ r.op = "send" /\ End(x, "BM_OK", NoData)
               \/ /\ r.op = "sendIpi"
                  /\ stage' = [stage EXCEPT ![x] = "stored"]
                  /\ UNCHANGED result
            /\ UNCHANGED req

(* A notified send returns; BM_FAIL only says that the core is unknown. *)
Return(x) == /\ stage[x] = "stored"
             /\ \E c \in {"BM_OK", "BM_FAIL"} : End(x, c, NoData)
             /\ UNCHANGED <<box, req>>

(* A receive returns what the register holds now. *)
Fetch(x) == /\ stage[x] = "called"
            /\ req[x].op = "recv"
            /\ req[x].id \in MsgIds
            /\ End(x, "BM_OK", Prefix(box[req[x].id], req[x].len))
            /\ UNCHANGED <<box, req>>

(* A call fails and changes nothing. *)
Fail(x) == /\ stage[x] = "called"
           /\ End(x, "BM_FAIL", NoData)
           /\ UNCHANGED <<box, req>>

Next == \E x \in Callers : Call(x) \/ Store(x) \/ Return(x) \/ Fetch(x) \/ Fail(x)

Spec == Init /\ [][Next]_vars
=============================================================================
