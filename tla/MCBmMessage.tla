---------------------------- MODULE MCBmMessage ----------------------------
EXTENDS BmMessage

CONSTANTS w1, w2   \* two payloads

(* Whole sends and short sends over longer ones, sends that are refused for *)
(* their id, their length or their core, clamped receives, notified sends   *)
(* that core 1 makes to itself or gets from the other core, one of them of  *)
(* no words.                                                                *)
MCCalls == { Request("send", 0, w1, 1, 0), Request("send", 0, w1, BodyLen + 1, 0),
             Request("send", NumMsgs, w1, 1, 0), Request("recv", 0, 0, BodyLen + 1, 0),
             Request("sendIpi", 1, w2, 2, 1), Request("sendIpi", 0, w2, 2, NumCores),
             Request("sendIpi", 0, w2, 0, 1) }
=============================================================================
