-------------------------- MODULE MCCaptureStream ---------------------------
(***************************************************************************)
(* CaptureStream with one tap that adds twice and one that adds once.      *)
(***************************************************************************)
EXTENDS CaptureStream, TLC

CONSTANTS t1, t2

TwoAndOne == (t1 :> 2) @@ (t2 :> 1)
AllEvents == {<<t1, 1>>, <<t1, 2>>, <<t2, 1>>}
=============================================================================
