---------------------------- MODULE CaptureStream ---------------------------
(***************************************************************************)
(* AddEvent of one tunnel's capture: it fans an event out to the           *)
(* subscribed channels without taking the service's mutex, then adds it to *)
(* the ring.  Subscribe and Unsubscribe change the map under it, and a     *)
(* handler of the events page reads its channel until the browser leaves.  *)
(* (What AddEvent appends to disk is the subject of CaptureStore.)         *)
(*                                                                         *)
(* The fan-out and the map's writers race.  The outcomes the Go runtime    *)
(* produces are modelled: the iteration goes on, meeting entries that came *)
(* meanwhile or not; or the runtime notices and stops the process; or a    *)
(* channel closed after the iteration met it is sent to, which panics.     *)
(***************************************************************************)
EXTENDS Ring

CONSTANTS
  Taps,       \* goroutines calling AddEvent: two for every connection
  Readers,    \* requests to handleSSEStream
  QueueCap,   \* the capacity of a subscriber's channel, 64 in the code
  Count       \* bound: how many events each tap adds

ASSUME StreamAssumption ==
  /\ QueueCap \in Nat \ {0} /\ Count \in [Taps -> Nat]
  /\ Events = UNION {{t} \X (1..Count[t]) : t \in Taps}

VARIABLES
  subs,       \* the entries of s.subs[tunnelID]
  map,        \* which map object that is: Subscribe makes a new one after
              \* Unsubscribe has dropped the empty one
  queue,      \* reader -> its channel
  closed,     \* the readers whose channel is closed
  tap,        \* tap -> where its AddEvent is: pc "idle", "range", "send" or
              \* "ring", the number n of its event, the map object it
              \* iterates, the entries it has met, the one it will send to
  reader,     \* reader -> "new", "reading" or "gone"
  left,       \* the readers whose request is cancelled
  process,    \* "running", or how it died
  got,        \* history: reader -> events it has read
  dropped,    \* history: reader -> events dropped at its full channel
  missed      \* history: reader -> events begun before it subscribed

chans == <<queue, closed>>
history == <<got, dropped, missed>>
ring == vars
streamVars == <<ring, subs, map, chans, tap, reader, left, process, history>>

Nobody == "nobody"
Tap(pc, n, over, met, to) == [pc |-> pc, n |-> n, over |-> over, met |-> met, to |-> to]
AtRing(n) == Tap("ring", n, 0, {}, Nobody)
Idle(n) == Tap("idle", n, 0, {}, Nobody)
Begun == {e \in Events : e[2] <= tap[e[1]].n}

StreamInit ==
  /\ Init
  /\ subs = {} /\ map = 0
  /\ queue = [r \in Readers |-> <<>>] /\ closed = {}
  /\ tap = [t \in Taps |-> Idle(0)]
  /\ reader = [r \in Readers |-> "new"] /\ left = {}
  /\ process = "running"
  /\ got = [r \in Readers |-> <<>>]
  /\ dropped = [r \in Readers |-> {}] /\ missed = [r \in Readers |-> {}]

Running == process = "running"

(* AddEvent reads s.subs[tunnelID]; without subscribers there is nothing   *)
(* to iterate.                                                             *)
Begin(t) ==
  /\ Running
  /\ tap[t].pc = "idle" /\ tap[t].n < Count[t]
  /\ tap' = [tap EXCEPT ![t] =
               IF subs = {} THEN AtRing(@.n + 1) ELSE Tap("range", @.n + 1, map, {}, Nobody)]
  /\ UNCHANGED <<ring, subs, map, chans, reader, left, process, history>>

(* Variant: an entry may be met again.                                     *)
ToMeetAgain(t) == IF tap[t].over = map THEN subs ELSE {}

(* What the iteration can still meet: nothing of a map made since.         *)
ToMeet(t) == IF tap[t].over = map THEN subs \ tap[t].met ELSE {}

Meet(t, r) ==
  /\ Running
  /\ tap[t].pc = "range" /\ r \in ToMeet(t)
  /\ tap' = [tap EXCEPT ![t] = Tap("send", @.n, @.over, @.met \cup {r}, r)]
  /\ UNCHANGED <<ring, subs, map, chans, reader, left, process, history>>

(* Variant: the fan-out stops at the first subscriber.                     *)
EndAfterFirst(t) ==
  /\ Running
  /\ tap[t].pc = "range"
  /\ tap[t].met # {} \/ ToMeet(t) = {}
  /\ tap' = [tap EXCEPT ![t] = AtRing(@.n)]
  /\ UNCHANGED <<ring, subs, map, chans, reader, left, process, history>>

(* The iteration is over when every entry that was there from its start is *)
(* met; it may skip those that came after.                                 *)
End(t) ==
  /\ Running
  /\ tap[t].pc = "range"
  /\ \A r \in ToMeet(t) : <<t, tap[t].n>> \in missed[r]
  /\ tap' = [tap EXCEPT ![t] = AtRing(@.n)]
  /\ UNCHANGED <<ring, subs, map, chans, reader, left, process, history>>

AddToRing(t) ==
  /\ Running
  /\ tap[t].pc = "ring"
  /\ Add(<<t, tap[t].n>>)
  /\ tap' = [tap EXCEPT ![t] = Idle(@.n)]
  /\ UNCHANGED <<subs, map, chans, reader, left, process, history>>

Sent(t) == tap' = [tap EXCEPT ![t] = Tap("range", @.n, @.over, @.met, Nobody)]

(* select with a default: a full channel drops the event.                  *)
Send(t) ==
  /\ Running
  /\ tap[t].pc = "send" /\ tap[t].to \notin closed
  /\ LET r == tap[t].to  e == <<t, tap[t].n>> IN
     IF Len(queue[r]) < QueueCap
     THEN queue' = [queue EXCEPT ![r] = Append(@, e)] /\ UNCHANGED dropped
     ELSE dropped' = [dropped EXCEPT ![r] = @ \cup {e}] /\ UNCHANGED queue
  /\ Sent(t)
  /\ UNCHANGED <<ring, subs, map, closed, reader, left, process, got, missed>>

(* The default does not help: a send to a closed channel panics, and the   *)
(* goroutine of a pipe recovers nothing.                                   *)
SendOnClosed(t) ==
  /\ Running
  /\ tap[t].pc = "send" /\ tap[t].to \in closed
  /\ process' = "send on closed channel"
  /\ UNCHANGED <<ring, subs, map, chans, tap, reader, left, history>>

Iterated == \E t \in Taps : tap[t].pc \in {"range", "send"} /\ tap[t].over = map

(* A write to a map under iteration, noticed by the runtime.               *)
MapWriteNoticed ==
  /\ process' = "concurrent map iteration and map write"
  /\ UNCHANGED <<ring, subs, map, chans, tap, reader, left, history>>

Subscribe(r) ==
  /\ Running
  /\ reader[r] = "new"
  /\ \/ Iterated /\ subs # {} /\ MapWriteNoticed
     \/ /\ map' = IF subs = {} THEN map + 1 ELSE map
        /\ subs' = subs \cup {r}
        /\ reader' = [reader EXCEPT ![r] = "reading"]
        /\ missed' = [missed EXCEPT ![r] = Begun]
        /\ UNCHANGED <<ring, chans, tap, left, process, got, dropped>>

(* The browser goes away, or the request's context ends.                   *)
Leave(r) ==
  /\ Running
  /\ reader[r] = "reading" /\ r \notin left
  /\ left' = left \cup {r}
  /\ UNCHANGED <<ring, subs, map, chans, tap, reader, process, history>>

(* select takes an event; the 15 s ping changes nothing.                   *)
Read(r) ==
  /\ Running
  /\ reader[r] = "reading" /\ queue[r] # <<>>
  /\ got' = [got EXCEPT ![r] = Append(@, Head(queue[r]))]
  /\ queue' = [queue EXCEPT ![r] = Tail(@)]
  /\ UNCHANGED <<ring, subs, map, closed, tap, reader, left, process, dropped, missed>>

(* select takes ctx.Done, and the deferred Unsubscribe deletes and closes. *)
Unsubscribe(r) ==
  /\ Running
  /\ reader[r] = "reading" /\ r \in left
  /\ \/ Iterated /\ MapWriteNoticed
     \/ /\ subs' = subs \ {r}
        /\ closed' = closed \cup {r}
        /\ reader' = [reader EXCEPT ![r] = "gone"]
        /\ UNCHANGED <<ring, map, queue, tap, left, process, history>>

TapStep(t) ==
  Begin(t) \/ (\E r \in Readers : Meet(t, r)) \/ End(t) \/ Send(t) \/ SendOnClosed(t)
  \/ AddToRing(t)
ReaderStep(r) == Subscribe(r) \/ Leave(r) \/ Read(r) \/ Unsubscribe(r)
StreamNext == (\E t \in Taps : TapStep(t)) \/ (\E r \in Readers : ReaderStep(r))

StreamSpec == StreamInit /\ [][StreamNext]_streamVars

-----------------------------------------------------------------------------
(* Properties.                                                             *)

StreamTypeOK ==
  /\ TypeOK
  /\ subs \subseteq Readers /\ closed \subseteq Readers /\ left \subseteq Readers
  /\ \A r \in Readers : Len(queue[r]) <= QueueCap
  /\ \A t \in Taps : tap[t].pc \in {"idle", "range", "send", "ring"} /\ tap[t].n \in 0..Count[t]

(* A reader sees the events of a connection's direction in order and never *)
(* twice, whatever is dropped, and in its channel after what it has read.  *)
StreamInOrder ==
  \A r \in Readers : LET s == got[r] \o queue[r] IN
    \A i, j \in DOMAIN s : i < j /\ s[i][1] = s[j][1] => s[i][2] < s[j][2]

(* A slow reader loses events, and only at its full channel: an event      *)
(* whose fan-out began after the reader subscribed and is over was read,   *)
(* waits in the channel, or was dropped there.                             *)
FannedOut == {e \in Begun : tap[e[1]].n > e[2] \/ tap[e[1]].pc \in {"idle", "ring"}}
LostOnlyWhenFull ==
  \A r \in subs :
    FannedOut \ missed[r] \subseteq
      {got[r][i] : i \in DOMAIN got[r]} \cup {queue[r][i] : i \in DOMAIN queue[r]}
        \cup dropped[r]

(* "if tap Write blocks or fails, the copy continues regardless"           *)
(* (pipe_tap.go): capturing never stops the process.                       *)
CaptureNeverKills == Running
=============================================================================
