-------------------------------- MODULE Ring --------------------------------
(***************************************************************************)
(* The capture buffer of server/capture/capture.go: a slice used as a      *)
(* ring.  Add and Snapshot hold the mutex, so each is one step; the tap    *)
(* goroutines of every connection of a tunnel add concurrently.            *)
(***************************************************************************)
EXTENDS Integers, Sequences

CONSTANTS
  Events,    \* the events the taps may add
  Cap,       \* NewRing's argument; 0 makes a ring that keeps nothing
  NoEvent    \* the zero Event of a fresh slice

ASSUME RingAssumption == Cap \in Nat

VARIABLES buf, start, len   \* the fields of Ring

vars == <<buf, start, len>>

Slots == 0..(Cap - 1)

TypeOK ==
  /\ buf \in [Slots -> Events \cup {NoEvent}]
  /\ start \in Nat /\ (Cap > 0 => start < Cap)
  /\ len \in 0..Cap

Init == buf = [i \in Slots |-> NoEvent] /\ start = 0 /\ len = 0

(* Variant: a full ring does not move its start. *)
AddKeepsStart(e) ==
  /\ Cap > 0
  /\ buf' = [buf EXCEPT ![(start + len) % Cap] = e]
  /\ len' = IF len < Cap THEN len + 1 ELSE len
  /\ start' = start

(* Add; on a ring of capacity 0 it returns at once.                        *)
Add(e) ==
  /\ Cap > 0
  /\ buf' = [buf EXCEPT ![(start + len) % Cap] = e]
  /\ IF len < Cap
     THEN len' = len + 1 /\ start' = start
     ELSE len' = len /\ start' = (start + 1) % Cap

Snapshot == [i \in 1..len |-> buf[(start + i - 1) % Cap]]

Next == \E e \in Events : Add(e)

Spec == Init /\ [][Next]_vars

-----------------------------------------------------------------------------
(* Properties.                                                             *)

Log == INSTANCE EventLog WITH log <- Snapshot

(* The ring implements the bounded log: however often start wraps, a       *)
(* snapshot is exactly the last Cap events added, oldest first.            *)
ImplementsLog == Log!Spec
=============================================================================
