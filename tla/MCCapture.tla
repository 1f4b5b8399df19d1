------------------------------ MODULE MCCapture ------------------------------
(***************************************************************************)
(* What the server keeps of the traffic and of itself: an instance of the  *)
(* captured files (CaptureStore), of the live stream (CaptureStream) and of*)
(* the server's log (LogFiles).  The three share nothing, so a behaviour   *)
(* is of one of them, and the others rest.                                 *)
(***************************************************************************)
EXTENDS CaptureStore, CaptureStream, LogFiles, TLC

CONSTANTS w1, w2, c1, t1, t2

OneFile == (w1 :> c1) @@ (w2 :> c1)    \* both directions of one connection
TwoAndOne == (t1 :> 2) @@ (t2 :> 1)    \* one tap adds twice, one once
AllEvents == {<<t1, 1>>, <<t1, 2>>, <<t2, 1>>}
TwoSeconds == 1..2

VARIABLE part

parts == <<part, storeVars, streamVars, logVars>>

CaptureInit ==
  /\ part \in {"store", "stream", "log"}
  /\ StoreInit /\ StreamInit /\ LogInit
  /\ part # "log" => second = 1

CaptureNext ==
  /\ UNCHANGED part
  /\ \/ part = "store" /\ StoreNext /\ UNCHANGED <<streamVars, logVars>>
     \/ part = "stream" /\ StreamNext /\ UNCHANGED <<storeVars, logVars>>
     \/ part = "log" /\ LogNext /\ UNCHANGED <<storeVars, streamVars>>

CaptureSpec == CaptureInit /\ [][CaptureNext]_parts

(* Each part's variables have their types.                                 *)
CaptureTypeOK == StoreTypeOK /\ StreamTypeOK /\ LogTypeOK
=============================================================================
