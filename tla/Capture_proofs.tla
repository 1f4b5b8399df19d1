---------------------------- MODULE Capture_proofs ---------------------------
(***************************************************************************)
(* The ring buffer, the live stream, the captured files and the server's   *)
(* log, for any capacities, writers, readers and numbers of events.        *)
(***************************************************************************)
EXTENDS MCCapture, SequenceTheorems, FiniteSetTheorems, WellFoundedInduction, TLAPS

-----------------------------------------------------------------------------
(* Natural numbers: a set of them has a least element, and a greatest when *)
(* it is bounded.  Where a proof needs induction, it is in this form.      *)

LEMMA Least ==
  ASSUME NEW S, S \subseteq Nat, S # {}
  PROVE  \E x \in S : \A y \in S : x <= y
<1>1. PICK R : R = OpToRel(<, Nat)
  OBVIOUS
<1>2. \A x \in Nat, y \in Nat : y < x => <<y, x>> \in R
  BY <1>1 DEF OpToRel
<1>3. PICK x \in S : \A y \in S : <<y, x>> \notin R
  <2>1. IsWellFoundedOn(R, Nat)
    BY <1>1, NatLessThanWellFounded
  <2> QED BY <2>1, WFMin
<1>4. \A y \in S : x <= y
  <2> SUFFICES ASSUME NEW y \in S PROVE x <= y
    OBVIOUS
  <2>1. x \in Nat /\ y \in Nat
    OBVIOUS
  <2>2. ~(y < x)
    BY <1>2, <1>3, <2>1
  <2> QED BY <2>1, <2>2
<1> QED BY <1>4

LEMMA Greatest ==
  ASSUME NEW n \in Nat, NEW S, S \subseteq 0..n, S # {}
  PROVE  \E x \in S : \A y \in S : y <= x
<1> DEFINE T == {m \in 0..n : n - m \in S}
<1>1. T \subseteq Nat
  OBVIOUS
<1>2. T # {}
  <2>1. PICK x \in S : TRUE
    OBVIOUS
  <2>2. n - x \in 0..n /\ n - (n - x) = x
    BY <2>1
  <2> QED BY <2>1, <2>2
<1>3. PICK t \in T : \A u \in T : t <= u
  BY <1>1, <1>2, Least
<1>4. ASSUME NEW y \in S PROVE y <= n - t
  <2>1. n - y \in 0..n /\ n - (n - y) = y
    OBVIOUS
  <2>2. t <= n - y
    BY <1>3, <2>1
  <2> QED BY <2>1, <2>2
<1> QED BY <1>3, <1>4

-----------------------------------------------------------------------------
(* Ring.                                                                   *)

(* The code of Add and Snapshot (capture.go) only takes remainders of      *)
(* numbers below twice the capacity: at most one subtraction.              *)
LEMMA Wrap ==
  ASSUME Cap > 0, NEW a \in 0..(2 * Cap - 1)
  PROVE  a % Cap = IF a < Cap THEN a ELSE a - Cap
  BY RingAssumption, Z3

LEMMA AddTyped ==
  ASSUME TypeOK, NEW e \in Events, Add(e)
  PROVE  TypeOK'
<1>1. Cap \in Nat /\ Cap > 0 /\ start \in 0..(Cap - 1) /\ len \in 0..Cap
  BY RingAssumption DEF Add, TypeOK
<1>2. buf' \in [Slots -> Events \cup {NoEvent}]
  BY DEF Add, TypeOK
<1>3. (start + 1) % Cap \in 0..(Cap - 1)
  BY <1>1, Wrap, start + 1 \in 0..(2 * Cap - 1)
<1> QED
  BY <1>1, <1>2, <1>3 DEF Add, TypeOK

(* The fields of Ring (capture.go) stay in range: start indexes the slice  *)
(* and len never exceeds its length.                                       *)
THEOREM TypeCorrect == Spec => []TypeOK
<1>1. Init => TypeOK
  BY RingAssumption DEF Init, TypeOK, Slots
<1>2. TypeOK /\ [Next]_vars => TypeOK'
  BY AddTyped DEF Next, vars, TypeOK
<1> QED
  BY <1>1, <1>2, PTL DEF Spec

(* Adding to the ring (Ring.Add) is adding to the log (what Snapshot       *)
(* returns): the slot written is not one of those the snapshot keeps.      *)
LEMMA AddStep ==
  ASSUME TypeOK, NEW e \in Events, Add(e)
  PROVE  Snapshot' = Log!LastOf(Append(Snapshot, e), Cap)
<1> DEFINE All == Events \cup {NoEvent}
<1> DEFINE pos == (start + len) % Cap
<1>1. Cap \in Nat /\ Cap > 0 /\ start \in 0..(Cap - 1) /\ len \in 0..Cap
  BY RingAssumption DEF Add, TypeOK
<1>2. pos = IF start + len < Cap THEN start + len ELSE start + len - Cap
  BY <1>1, Wrap, start + len \in 0..(2 * Cap - 1)
<1>3. ASSUME NEW i \in 1..len
      PROVE  /\ (start + i - 1) % Cap
                  = IF start + i - 1 < Cap THEN start + i - 1 ELSE start + i - 1 - Cap
             /\ (start + i - 1) % Cap \in Slots
  <2>1. start + i - 1 \in 0..(2 * Cap - 1)
    BY <1>1
  <2> QED
    BY <1>1, <2>1, Wrap DEF Slots
<1>4. pos \in Slots
  BY <1>1, <1>2 DEF Slots
<1>5. /\ Snapshot \in Seq(All) /\ Len(Snapshot) = len
      /\ \A i \in 1..len : Snapshot[i] = buf[(start + i - 1) % Cap]
  <2>1. Snapshot \in [1..len -> All]
    BY <1>3 DEF Snapshot, TypeOK
  <2>2. Snapshot \in Seq(All)
    BY <1>1, <2>1, SeqDef
  <2>3. DOMAIN Snapshot = 1..len
    BY <2>1
  <2>4. Len(Snapshot) = len
    BY <1>1, <2>2, <2>3, LenProperties
  <2> QED
    BY <2>2, <2>4 DEF Snapshot
<1>6. /\ buf'[pos] = e
      /\ \A j \in Slots : j # pos => buf'[j] = buf[j]
  BY <1>4 DEF Add, TypeOK
<1> DEFINE More == Append(Snapshot, e)
<1>7. /\ More \in Seq(All) /\ Len(More) = len + 1
      /\ More[len + 1] = e
      /\ \A i \in 1..len : More[i] = Snapshot[i]
  BY <1>1, <1>5
<1>8. Snapshot' = [i \in 1..len' |-> buf'[(start' + i - 1) % Cap]]
  BY DEF Snapshot
<1> HIDE DEF pos, More
<1>9. CASE len < Cap
  <2>1. len' = len + 1 /\ start' = start
    BY <1>9 DEF Add
  <2>2. Log!LastOf(More, Cap) = More
    BY <1>1, <1>7, <1>9 DEF Log!LastOf
  <2>3. ASSUME NEW i \in 1..(len + 1)
        PROVE  buf'[(start + i - 1) % Cap] = More[i]
    <3>1. CASE i = len + 1
      BY <1>1, <1>6, <1>7, <3>1 DEF pos
    <3>2. CASE i \in 1..len
      <4>1. (start + i - 1) % Cap # pos
        BY <1>1, <1>2, <1>3, <1>9, <3>2
      <4> QED
        BY <1>3, <1>5, <1>6, <1>7, <3>2, <4>1
    <3> QED
      BY <1>1, <3>1, <3>2
  <2>4. More = [i \in 1..(len + 1) |-> More[i]]
    BY <1>1, <1>7
  <2> QED
    BY <1>8, <2>1, <2>2, <2>3, <2>4 DEF More
<1>10. CASE ~(len < Cap)
  <2>1. len = Cap /\ len' = len /\ start' = (start + 1) % Cap
    BY <1>1, <1>10 DEF Add
  <2>2. pos = start
    BY <1>1, <1>2, <2>1
  <2>3. start' = IF start + 1 < Cap THEN start + 1 ELSE 0
    BY <1>1, <2>1, Wrap, start + 1 \in 0..(2 * Cap - 1)
  <2>4. Log!LastOf(More, Cap) = [i \in 1..len |-> More[i + 1]]
    <3>1. Log!LastOf(More, Cap) = SubSeq(More, 2, len + 1)
      BY <1>1, <1>7, <2>1 DEF Log!LastOf
    <3> DEFINE Tail2 == SubSeq(More, 2, len + 1)
    <3>2. /\ Tail2 \in Seq(All) /\ Len(Tail2) = len
          /\ \A i \in 1..len : Tail2[i] = More[2 + i - 1]
      BY <1>1, <1>7, SubSeqProperties
    <3> HIDE DEF Tail2
    <3>3. Tail2 = [i \in 1..len |-> Tail2[i]]
      BY <1>1, <3>2
    <3>4. \A i \in 1..len : 2 + i - 1 = i + 1
      BY <1>1
    <3> QED
      BY <3>1, <3>2, <3>3, <3>4 DEF Tail2
  <2>5. ASSUME NEW i \in 1..len
        PROVE  buf'[(start' + i - 1) % Cap] = More[i + 1]
    <3>1. (start' + i - 1) % Cap
            = IF start' + i - 1 < Cap THEN start' + i - 1 ELSE start' + i - 1 - Cap
      BY <1>1, <2>1, <2>3, Wrap, start' + i - 1 \in 0..(2 * Cap - 1)
    <3>2. CASE i = len
      <4>1. (start' + i - 1) % Cap = pos
        BY <1>1, <2>1, <2>2, <2>3, <3>1, <3>2
      <4> QED
        BY <1>6, <1>7, <3>2, <4>1
    <3>3. CASE i # len
      <4>1. i + 1 \in 1..len
        BY <1>1, <3>3
      <4>2. (start' + i - 1) % Cap = (start + (i + 1) - 1) % Cap
        BY <1>1, <1>3, <2>1, <2>3, <3>1, <4>1
      <4>3. (start' + i - 1) % Cap # pos
        BY <1>1, <2>1, <2>2, <2>3, <3>1, <3>3
      <4> QED
        BY <1>3, <1>5, <1>6, <1>7, <4>1, <4>2, <4>3
    <3> QED
      BY <3>2, <3>3
  <2> QED
    BY <1>8, <2>1, <2>4, <2>5 DEF More
<1> QED
  BY <1>9, <1>10

(* The ring of capture.go implements the bounded log: at every capacity, a *)
(* snapshot is the last Cap events added, oldest first, whatever the       *)
(* number of times start has wrapped.                                      *)
THEOREM RingIsLog == Spec => ImplementsLog
<1>1. Init => Log!Init
  BY DEF Init, Log!Init, Snapshot
<1>2. TypeOK /\ [Next]_vars => [Log!Next]_Snapshot
  <2>1. CASE UNCHANGED vars
    BY <2>1 DEF vars, Snapshot
  <2>2. ASSUME TypeOK, NEW e \in Events, Add(e) PROVE Log!Next
    BY <2>2, AddStep DEF Log!Next, Log!Add
  <2> QED
    BY <2>1, <2>2 DEF Next
<1> QED
  BY <1>1, <1>2, TypeCorrect, PTL DEF Spec, ImplementsLog, Log!Spec

-----------------------------------------------------------------------------
(* CaptureStream.                                                          *)

TapType == [pc : {"idle", "range", "send", "ring"}, n : Nat, over : Nat,
            met : SUBSET Readers, to : Readers \cup {Nobody}]

StreamShape ==
  /\ TypeOK
  /\ subs \subseteq Readers /\ closed \subseteq Readers /\ left \subseteq Readers /\ map \in Nat
  /\ queue \in [Readers -> Seq(Events)] /\ got \in [Readers -> Seq(Events)]
  /\ \A r \in Readers : Len(queue[r]) <= QueueCap
  /\ tap \in [Taps -> TapType]
  /\ \A t \in Taps :
       /\ tap[t].n <= Count[t] /\ (tap[t].pc # "idle" => tap[t].n > 0)
       /\ tap[t].pc = "send" => tap[t].to \in Readers /\ tap[t].to \in tap[t].met
  /\ dropped \in [Readers -> SUBSET Events] /\ missed \in [Readers -> SUBSET Events]

(* Tap t's event is yet to come to reader r, if the iteration meets it.    *)
ToSend(t, r) ==
  /\ tap[t].pc \in {"range", "send"}
  /\ r \notin tap[t].met \/ (tap[t].pc = "send" /\ tap[t].to = r)

Flow(r) == got[r] \o queue[r]

(* What a reader gets is in order, and older than what is to be sent.      *)
InOrder ==
  /\ StreamInOrder
  /\ \A r \in Readers : \A i \in DOMAIN Flow(r) :
       /\ Flow(r)[i][2] <= tap[Flow(r)[i][1]].n
       /\ ToSend(Flow(r)[i][1], r) => Flow(r)[i][2] < tap[Flow(r)[i][1]].n

(* A subscriber has the events of its time, or the tap is about to meet it *)
(* in the map it is in.                                                    *)
Has(r, e) ==
  \/ \E i \in DOMAIN got[r] : got[r][i] = e
  \/ \E i \in DOMAIN queue[r] : queue[r][i] = e
  \/ e \in dropped[r]
Accounted ==
  \A r \in subs, t \in Taps : \A k \in 1..tap[t].n :
    \/ <<t, k>> \in missed[r] \/ Has(r, <<t, k>>)
    \/ k = tap[t].n /\ ToSend(t, r) /\ tap[t].over = map

StreamInv == StreamShape /\ InOrder /\ Accounted

LEMMA EventIs ==
  /\ \A e \in Events : e[1] \in Taps /\ e[2] \in 1..Count[e[1]] /\ e = <<e[1], e[2]>>
  /\ \A t \in Taps : Count[t] \in Nat /\ \A k \in 1..Count[t] : <<t, k>> \in Events
  BY StreamAssumption DEF StreamAssumption

LEMMA OwnEvent ==
  ASSUME StreamShape, NEW t \in Taps, tap[t].n > 0
  PROVE  tap[t].n \in Nat /\ <<t, tap[t].n>> \in Events
<1>1. tap[t].n \in Nat /\ tap[t].n <= Count[t] /\ Count[t] \in Nat
  BY EventIs DEF StreamShape, TapType
<1>2. tap[t].n \in 1..Count[t]
  BY <1>1
<1> QED BY <1>1, <1>2, EventIs

LEMMA ConcatAppend ==
  ASSUME NEW S, NEW s \in Seq(S), NEW q \in Seq(S), NEW e \in S
  PROVE  s \o Append(q, e) = Append(s \o q, e)
<1>1. /\ Append(q, e) = q \o <<e>> /\ Append(s \o q, e) = (s \o q) \o <<e>>
      /\ <<e>> \in Seq(S) /\ s \o q \in Seq(S)
  BY AppendIsConcat, ConcatProperties
<1> QED BY <1>1, ConcatAssociative

LEMMA HeadMoves ==
  ASSUME NEW S, NEW s \in Seq(S), NEW q \in Seq(S), q # <<>>
  PROVE  Append(s, Head(q)) \o Tail(q) = s \o q
<1>1. PICK a : a = Append(s, Head(q)) \o Tail(q)
  OBVIOUS
<1>2. /\ Head(q) \in S /\ Tail(q) \in Seq(S) /\ Len(Tail(q)) = Len(q) - 1
      /\ \A i \in 1..Len(Tail(q)) : Tail(q)[i] = q[i + 1]
      /\ Len(q) \in Nat \ {0} /\ Head(q) = q[1] /\ Len(s) \in Nat
  BY HeadTailProperties, EmptySeq, LenProperties
<1>3. /\ Append(s, Head(q)) \in Seq(S) /\ Len(Append(s, Head(q))) = Len(s) + 1
      /\ \A i \in 1..Len(s) : Append(s, Head(q))[i] = s[i]
      /\ Append(s, Head(q))[Len(s) + 1] = q[1]
  BY <1>2, AppendProperties
<1>4. /\ a \in Seq(S) /\ Len(a) = Len(s) + Len(q)
      /\ \A i \in 1..(Len(s) + Len(q)) : a[i] =
           IF i <= Len(s) + 1 THEN Append(s, Head(q))[i] ELSE Tail(q)[i - (Len(s) + 1)]
  BY <1>1, <1>2, <1>3, ConcatProperties
<1>5. /\ s \o q \in Seq(S) /\ Len(s \o q) = Len(s) + Len(q)
      /\ \A i \in 1..(Len(s) + Len(q)) : (s \o q)[i] = IF i <= Len(s) THEN s[i] ELSE q[i - Len(s)]
  BY ConcatProperties
<1>6. \A i \in 1..(Len(s) + Len(q)) : a[i] = (s \o q)[i]
  <2> SUFFICES ASSUME NEW i \in 1..(Len(s) + Len(q)) PROVE a[i] = (s \o q)[i]
    OBVIOUS
  <2>1. CASE i <= Len(s)
    BY <1>2, <1>3, <1>4, <1>5, <2>1
  <2>2. CASE i = Len(s) + 1
    BY <1>2, <1>3, <1>4, <1>5, <2>2
  <2>3. CASE i > Len(s) + 1
    <3>1. i - (Len(s) + 1) \in 1..Len(Tail(q)) /\ i - (Len(s) + 1) + 1 = i - Len(s)
      BY <1>2, <2>3
    <3> QED BY <1>2, <1>4, <1>5, <2>3, <3>1
  <2> QED BY <1>2, <2>1, <2>2, <2>3
<1> QED BY <1>1, <1>4, <1>5, <1>6, SeqEqual

LEMMA FlowTyped ==
  ASSUME StreamShape, NEW r \in Readers
  PROVE  /\ Flow(r) \in Seq(Events) /\ Len(Flow(r)) \in Nat /\ DOMAIN Flow(r) = 1..Len(Flow(r))
         /\ \A i \in DOMAIN Flow(r) : Flow(r)[i] \in Events
<1>1. Flow(r) \in Seq(Events)
  BY ConcatProperties DEF StreamShape, Flow
<1> QED BY <1>1, LenProperties, ElementOfSeq

(* Steps that deliver nothing, and begin events only of a number not used. *)
LEMMA NothingDelivered ==
  ASSUME StreamShape, InOrder, StreamShape',
         \A r \in Readers : Flow(r)' = Flow(r),
         \A t \in Taps : tap'[t].n >= tap[t].n,
         \A t \in Taps, r \in Readers : ToSend(t, r)' => ToSend(t, r) \/ tap'[t].n > tap[t].n
  PROVE  InOrder'
<1>1. StreamInOrder'
  BY DEF InOrder, StreamInOrder, Flow
<1>2. ASSUME NEW r \in Readers, NEW i \in DOMAIN Flow(r)
      PROVE  /\ Flow(r)[i][2] <= tap'[Flow(r)[i][1]].n
             /\ ToSend(Flow(r)[i][1], r)' => Flow(r)[i][2] < tap'[Flow(r)[i][1]].n
  <2>1. PICK t, k : t = Flow(r)[i][1] /\ k = Flow(r)[i][2]
    OBVIOUS
  <2>2. t \in Taps /\ k \in Nat
    BY <1>2, <2>1, FlowTyped, EventIs
  <2>3. k <= tap[t].n /\ (ToSend(t, r) => k < tap[t].n)
    BY <2>1 DEF InOrder
  <2>4. tap[t].n \in Nat /\ tap'[t].n \in Nat
    BY <2>2 DEF StreamShape, TapType
  <2> QED BY <2>1, <2>2, <2>3, <2>4
<1> QED BY <1>1, <1>2 DEF InOrder

(* Nothing about the ring.                                                 *)
LEMMA RingRests == StreamShape /\ UNCHANGED ring => TypeOK'
  BY DEF StreamShape, ring, vars, TypeOK

LEMMA BeginKeeps ==
  ASSUME StreamInv, NEW t \in Taps, Begin(t)
  PROVE  StreamInv'
<1> DEFINE n == tap[t].n + 1
<1>1. PICK x : x = IF subs = {} THEN AtRing(n) ELSE Tap("range", n, map, {}, Nobody)
  OBVIOUS
<1>2. /\ tap[t].pc = "idle" /\ tap[t].n < Count[t] /\ tap[t] \in TapType
      /\ tap' = [tap EXCEPT ![t] = x]
      /\ UNCHANGED <<ring, subs, map, queue, closed, left, got, dropped, missed>>
  BY <1>1 DEF Begin, StreamInv, StreamShape, chans, history
<1>3. /\ x \in TapType /\ x.n = n /\ x.pc # "send" /\ n \in Nat /\ n <= Count[t]
      /\ (subs # {} => x.pc = "range" /\ x.met = {} /\ x.over = map)
  BY <1>1, <1>2, EventIs DEF Tap, AtRing, TapType, StreamInv, StreamShape
<1>4. /\ tap' \in [Taps -> TapType] /\ tap'[t] = x /\ \A o \in Taps \ {t} : tap'[o] = tap[o]
  BY <1>2, <1>3 DEF StreamInv, StreamShape
<1>5. StreamShape'
  BY <1>2, <1>3, <1>4, RingRests DEF StreamInv, StreamShape, TapType
<1>6. InOrder'
  <2>1. \A r \in Readers : Flow(r)' = Flow(r)
    BY <1>2 DEF Flow
  <2>2. \A o \in Taps : tap'[o].n >= tap[o].n /\ tap[o].n \in Nat
    BY <1>2, <1>3, <1>4 DEF StreamInv, StreamShape, TapType
  <2>3. \A o \in Taps, r \in Readers : ToSend(o, r)' => ToSend(o, r) \/ tap'[o].n > tap[o].n
    BY <1>2, <1>3, <1>4 DEF ToSend, TapType
  <2> QED BY <1>5, <2>1, <2>2, <2>3, NothingDelivered DEF StreamInv
<1>7. Accounted'
  <2> SUFFICES ASSUME NEW r \in subs', NEW o \in Taps, NEW k \in 1..tap'[o].n
               PROVE  \/ <<o, k>> \in missed'[r] \/ Has(r, <<o, k>>)'
                      \/ k = tap'[o].n /\ ToSend(o, r)' /\ tap'[o].over = map'
    BY DEF Accounted
  <2>1. r \in subs /\ (Has(r, <<o, k>>) <=> Has(r, <<o, k>>)')
    BY <1>2 DEF Has
  <2>2. CASE o = t /\ k = n
    BY <1>2, <1>3, <1>4, <2>1, <2>2 DEF ToSend
  <2>3. CASE o = t /\ k # n
    <3>1. k \in 1..tap[t].n /\ tap[t].n \in Nat
      BY <1>2, <1>3, <1>4, <2>3 DEF TapType
    <3>2. ~ToSend(t, r)
      BY <1>2 DEF ToSend
    <3> QED BY <1>2, <2>1, <2>3, <3>1, <3>2 DEF StreamInv, Accounted
  <2>4. CASE o # t
    <3>1. tap'[o] = tap[o]
      BY <1>4, <2>4
    <3>2. ToSend(o, r) => ToSend(o, r)'
      BY <3>1 DEF ToSend
    <3> QED BY <1>2, <2>1, <3>1, <3>2 DEF StreamInv, Accounted
  <2> QED BY <2>2, <2>3, <2>4
<1> QED BY <1>5, <1>6, <1>7 DEF StreamInv

(* A step of a tap that begins, sends and loses nothing.                   *)
LEMMA TapMoves ==
  ASSUME StreamInv, NEW t \in Taps, NEW x \in TapType,
         tap' = [tap EXCEPT ![t] = x], x.n = tap[t].n, tap[t].n > 0,
         x.pc = "send" => x.to \in Readers /\ x.to \in x.met,
         \A r \in Readers : x.pc \in {"range", "send"} /\ (r \notin x.met \/ (x.pc = "send" /\ x.to = r))
           => ToSend(t, r),
         \A r \in subs : ToSend(t, r) /\ tap[t].over = map =>
           \/ <<t, tap[t].n>> \in missed[r]
           \/ /\ x.pc \in {"range", "send"} /\ x.over = map
              /\ r \notin x.met \/ (x.pc = "send" /\ x.to = r),
         UNCHANGED <<subs, map, queue, closed, left, got, dropped, missed>>, TypeOK'
  PROVE  StreamInv'
<1>1. /\ tap' \in [Taps -> TapType] /\ tap'[t] = x /\ \A o \in Taps \ {t} : tap'[o] = tap[o]
  BY DEF StreamInv, StreamShape
<1>2. StreamShape'
  BY <1>1 DEF StreamInv, StreamShape
<1>3. \A r \in Readers : ToSend(t, r)' => ToSend(t, r)
  BY <1>1 DEF ToSend
<1>4. \A o \in Taps \ {t} : \A r \in Readers : ToSend(o, r)' <=> ToSend(o, r)
  BY <1>1 DEF ToSend
<1>5. InOrder'
  <2>1. \A r \in Readers : Flow(r)' = Flow(r)
    BY DEF Flow
  <2>2. \A o \in Taps : tap'[o].n >= tap[o].n
    BY <1>1 DEF StreamInv, StreamShape, TapType
  <2> QED BY <1>2, <1>3, <1>4, <2>1, <2>2, NothingDelivered DEF StreamInv
<1>6. Accounted'
  <2> SUFFICES ASSUME NEW r \in subs', NEW o \in Taps, NEW k \in 1..tap'[o].n
               PROVE  \/ <<o, k>> \in missed'[r] \/ Has(r, <<o, k>>)'
                      \/ k = tap'[o].n /\ ToSend(o, r)' /\ tap'[o].over = map'
    BY DEF Accounted
  <2>1. r \in subs /\ r \in Readers /\ (Has(r, <<o, k>>) <=> Has(r, <<o, k>>)')
    BY DEF Has, StreamInv, StreamShape
  <2>2. tap'[o].n = tap[o].n
    BY <1>1
  <2>3. \/ <<o, k>> \in missed[r] \/ Has(r, <<o, k>>)
        \/ k = tap[o].n /\ ToSend(o, r) /\ tap[o].over = map
    BY <2>1, <2>2 DEF StreamInv, Accounted
  <2>4. CASE o = t
    BY <1>1, <2>1, <2>2, <2>3, <2>4 DEF ToSend
  <2>5. CASE o # t
    BY <1>1, <1>4, <2>1, <2>2, <2>3, <2>5
  <2> QED BY <2>4, <2>5
<1> QED BY <1>2, <1>5, <1>6 DEF StreamInv

LEMMA MeetKeeps ==
  ASSUME StreamInv, NEW t \in Taps, NEW r \in Readers, Meet(t, r)
  PROVE  StreamInv'
<1>1. PICK x : x = Tap("send", tap[t].n, tap[t].over, tap[t].met \cup {r}, r)
  OBVIOUS
<1>2. /\ tap[t].pc = "range" /\ r \notin tap[t].met /\ tap[t] \in TapType
      /\ tap' = [tap EXCEPT ![t] = x] /\ tap[t].n > 0
      /\ UNCHANGED <<ring, subs, map, queue, closed, left, got, dropped, missed>>
  BY <1>1 DEF Meet, ToMeet, StreamInv, StreamShape, chans, history
<1>3. /\ x \in TapType /\ x.n = tap[t].n /\ x.pc = "send" /\ x.to = r /\ x.over = tap[t].over
      /\ x.met = tap[t].met \cup {r}
  BY <1>1, <1>2 DEF Tap, TapType
<1>4. \A q \in Readers : (q \notin x.met \/ x.to = q) <=> ToSend(t, q)
  BY <1>2, <1>3 DEF ToSend
<1>5. \A q \in subs : q \in Readers
  BY DEF StreamInv, StreamShape
<1>6. TypeOK'
  BY <1>2, RingRests DEF StreamInv
<1> QED BY <1>2, <1>3, <1>4, <1>5, <1>6, TapMoves

LEMMA EndKeeps ==
  ASSUME StreamInv, NEW t \in Taps, End(t)
  PROVE  StreamInv'
<1>1. PICK x : x = AtRing(tap[t].n)
  OBVIOUS
<1>2. /\ tap[t].pc = "range" /\ tap[t] \in TapType
      /\ tap' = [tap EXCEPT ![t] = x] /\ tap[t].n > 0
      /\ \A r \in ToMeet(t) : <<t, tap[t].n>> \in missed[r]
      /\ UNCHANGED <<ring, subs, map, queue, closed, left, got, dropped, missed>>
  BY <1>1 DEF End, StreamInv, StreamShape, chans, history
<1>3. x \in TapType /\ x.n = tap[t].n /\ x.pc = "ring"
  BY <1>1, <1>2 DEF AtRing, Tap, TapType
<1>4. \A r \in subs : ToSend(t, r) /\ tap[t].over = map => <<t, tap[t].n>> \in missed[r]
  BY <1>2 DEF ToSend, ToMeet
<1>5. TypeOK'
  BY <1>2, RingRests DEF StreamInv
<1> QED BY <1>2, <1>3, <1>4, <1>5, TapMoves

LEMMA AddToRingKeeps ==
  ASSUME StreamInv, NEW t \in Taps, AddToRing(t)
  PROVE  StreamInv'
<1>1. PICK x : x = Idle(tap[t].n)
  OBVIOUS
<1>2. /\ tap[t].pc = "ring" /\ tap[t] \in TapType
      /\ tap' = [tap EXCEPT ![t] = x] /\ tap[t].n > 0
      /\ UNCHANGED <<subs, map, queue, closed, left, got, dropped, missed>>
  BY <1>1 DEF AddToRing, StreamInv, StreamShape, chans, history
<1>3. x \in TapType /\ x.n = tap[t].n /\ x.pc = "idle"
  BY <1>1, <1>2 DEF Idle, Tap, TapType
<1>4. \A r : ~ToSend(t, r)
  BY <1>2 DEF ToSend
<1>5. TypeOK'
  <2>1. <<t, tap[t].n>> \in Events
    BY <1>2, OwnEvent DEF StreamInv
  <2> QED BY <2>1, AddTyped DEF AddToRing, StreamInv, StreamShape
<1> QED BY <1>2, <1>3, <1>4, <1>5, TapMoves

(* What is sent follows everything the reader has of that tap.             *)
LEMMA SendKeeps ==
  ASSUME StreamInv, NEW t \in Taps, Send(t)
  PROVE  StreamInv'
<1>1. PICK r, e, x : /\ r = tap[t].to /\ e = <<t, tap[t].n>>
                     /\ x = Tap("range", tap[t].n, tap[t].over, tap[t].met, Nobody)
  OBVIOUS
<1>2. /\ tap[t].pc = "send" /\ tap[t] \in TapType /\ tap[t].n > 0 /\ tap[t].n \in Nat
      /\ r \in Readers /\ r \in tap[t].met
      /\ tap' = [tap EXCEPT ![t] = x]
      /\ \/ Len(queue[r]) < QueueCap /\ queue' = [queue EXCEPT ![r] = Append(@, e)] /\ dropped' = dropped
         \/ dropped' = [dropped EXCEPT ![r] = @ \cup {e}] /\ queue' = queue
      /\ UNCHANGED <<ring, subs, map, closed, left, got, missed>>
  BY <1>1 DEF Send, Sent, StreamInv, StreamShape, TapType
<1>3. /\ x \in TapType /\ x.n = tap[t].n /\ x.pc = "range" /\ x.met = tap[t].met
      /\ x.over = tap[t].over
  BY <1>1, <1>2 DEF Tap, TapType
<1>4. e \in Events /\ e[1] = t /\ e[2] = tap[t].n
  BY <1>1, <1>2, OwnEvent DEF StreamInv
<1>5. /\ tap' \in [Taps -> TapType] /\ tap'[t] = x /\ \A o \in Taps \ {t} : tap'[o] = tap[o]
  BY <1>2, <1>3 DEF StreamInv, StreamShape
<1>6. /\ queue' \in [Readers -> Seq(Events)] /\ dropped' \in [Readers -> SUBSET Events]
      /\ \A q \in Readers \ {r} : queue'[q] = queue[q] /\ dropped'[q] = dropped[q]
      /\ \/ queue'[r] = queue[r] /\ dropped'[r] = dropped[r] \cup {e}
         \/ queue'[r] = Append(queue[r], e) /\ dropped'[r] = dropped[r] /\ Len(queue[r]) < QueueCap
  <2>1. queue[r] \in Seq(Events) /\ dropped[r] \subseteq Events
    BY <1>2 DEF StreamInv, StreamShape
  <2>2. Append(queue[r], e) \in Seq(Events) /\ dropped[r] \cup {e} \subseteq Events
    BY <1>4, <2>1, AppendProperties
  <2>3. CASE Len(queue[r]) < QueueCap /\ queue' = [queue EXCEPT ![r] = Append(queue[r], e)] /\ dropped' = dropped
    BY <1>2, <2>2, <2>3 DEF StreamInv, StreamShape
  <2>4. CASE dropped' = [dropped EXCEPT ![r] = dropped[r] \cup {e}] /\ queue' = queue
    BY <1>2, <2>2, <2>4 DEF StreamInv, StreamShape
  <2> QED BY <1>2, <2>3, <2>4
<1>7. StreamShape'
  <2>0. /\ map' \in Nat /\ subs' \subseteq Readers /\ closed' \subseteq Readers /\ left' \subseteq Readers
        /\ got' \in [Readers -> Seq(Events)] /\ missed' \in [Readers -> SUBSET Events] /\ TypeOK'
    BY <1>2, RingRests DEF StreamInv, StreamShape
  <2>2. \A o \in Taps :
          /\ tap'[o].n <= Count[o] /\ (tap'[o].pc # "idle" => tap'[o].n > 0)
          /\ tap'[o].pc = "send" => tap'[o].to \in Readers /\ tap'[o].to \in tap'[o].met
    BY <1>2, <1>3, <1>5 DEF StreamInv, StreamShape
  <2>1. \A q \in Readers : Len(queue'[q]) <= QueueCap
    <3>1. queue[r] \in Seq(Events) /\ QueueCap \in Nat
      BY <1>2, StreamAssumption DEF StreamInv, StreamShape, StreamAssumption
    <3>2. Len(Append(queue[r], e)) = Len(queue[r]) + 1 /\ Len(queue[r]) \in Nat
      BY <1>4, <3>1, AppendProperties, LenProperties
    <3>3. Len(queue'[r]) <= QueueCap
      BY <1>2, <1>6, <3>1, <3>2 DEF StreamInv, StreamShape
    <3> QED BY <1>6, <3>3 DEF StreamInv, StreamShape
  <2> QED BY <1>5, <1>6, <2>0, <2>1, <2>2 DEF StreamShape
<1>8. /\ ToSend(t, r) /\ ~ToSend(t, r)'
      /\ \A q \in Readers \ {r} : ToSend(t, q)' <=> ToSend(t, q)
      /\ \A o \in Taps \ {t} : \A q \in Readers : ToSend(o, q)' <=> ToSend(o, q)
  BY <1>1, <1>2, <1>3, <1>5 DEF ToSend
<1>9. \A o \in Taps : tap'[o].n = tap[o].n /\ tap'[o].over = tap[o].over
  BY <1>3, <1>5
<1>10. \A q \in Readers : Flow(q) \in Seq(Events) /\ Len(Flow(q)) \in Nat
         /\ DOMAIN Flow(q) = 1..Len(Flow(q)) /\ \A i \in DOMAIN Flow(q) : Flow(q)[i] \in Events
  BY FlowTyped DEF StreamInv
<1>11. \/ Flow(r)' = Flow(r)
       \/ Flow(r)' = Append(Flow(r), e)
  <2>1. queue[r] \in Seq(Events) /\ got[r] \in Seq(Events) /\ got' = got
    BY <1>2 DEF StreamInv, StreamShape
  <2>2. got[r] \o Append(queue[r], e) = Append(got[r] \o queue[r], e)
    <3>1. PICK s, q : s = got[r] /\ q = queue[r]
      OBVIOUS
    <3>2. s \in Seq(Events) /\ q \in Seq(Events)
      BY <2>1, <3>1
    <3>3. s \o Append(q, e) = Append(s \o q, e)
      BY <1>4, <3>2, ConcatAppend
    <3> QED BY <3>1, <3>3
  <2> QED BY <1>6, <2>1, <2>2 DEF Flow
<1>12. InOrder'
  <2>0. \A q \in Readers : \A i \in DOMAIN Flow(q) :
          /\ Flow(q)[i][1] \in Taps
          /\ Flow(q)[i][2] <= tap[Flow(q)[i][1]].n
          /\ ToSend(Flow(q)[i][1], q) => Flow(q)[i][2] < tap[Flow(q)[i][1]].n
    BY <1>10, EventIs DEF StreamInv, InOrder
  <2>0a. \A q \in Readers : \A i, j \in DOMAIN Flow(q) :
           i < j /\ Flow(q)[i][1] = Flow(q)[j][1] => Flow(q)[i][2] < Flow(q)[j][2]
    BY DEF StreamInv, InOrder, StreamInOrder, Flow
  <2>1. \A q \in Readers \ {r} : Flow(q)' = Flow(q)
    BY <1>2, <1>6 DEF Flow
  <2>2. ASSUME NEW q \in Readers, Flow(q)' = Flow(q), NEW i \in DOMAIN Flow(q)
        PROVE  /\ Flow(q)[i][2] <= tap'[Flow(q)[i][1]].n
               /\ ToSend(Flow(q)[i][1], q)' => Flow(q)[i][2] < tap'[Flow(q)[i][1]].n
    BY <1>8, <1>9, <2>0, <2>2
  <2>3. ASSUME NEW q \in Readers, Flow(q)' = Flow(q), NEW i \in DOMAIN Flow(q), NEW j \in DOMAIN Flow(q),
               i < j, Flow(q)[i][1] = Flow(q)[j][1]
        PROVE  Flow(q)[i][2] < Flow(q)[j][2]
    BY <2>0a, <2>3
  <2>4. CASE Flow(r)' = Flow(r)
    BY <2>1, <2>2, <2>3, <2>4 DEF InOrder, StreamInOrder, Flow
  <2>5. CASE Flow(r)' = Append(Flow(r), e)
    <3>0. PICK f, l, g : f = Flow(r) /\ l = Len(f) + 1 /\ g = Append(f, e)
      OBVIOUS
    <3>1. /\ DOMAIN g = DOMAIN f \cup {l} /\ l \notin DOMAIN f /\ g[l] = e
          /\ \A i \in DOMAIN f : g[i] = f[i] /\ i < l
          /\ \A i, j \in DOMAIN g : i < j => i \in DOMAIN f
      BY <1>2, <1>4, <1>10, <3>0, AppendProperties, LenProperties
    <3>2. ASSUME NEW i \in DOMAIN f, f[i][1] = t PROVE f[i][2] < tap[t].n
      BY <1>2, <1>8, <2>0, <3>0, <3>2
    <3>3. ASSUME NEW i \in DOMAIN f
          PROVE  /\ f[i][2] <= tap'[f[i][1]].n
                 /\ ToSend(f[i][1], r)' => f[i][2] < tap'[f[i][1]].n
      BY <1>2, <1>8, <1>9, <2>0, <3>0
    <3>4. ASSUME NEW i \in DOMAIN f, NEW j \in DOMAIN f, i < j, f[i][1] = f[j][1]
          PROVE  f[i][2] < f[j][2]
      BY <1>2, <2>0a, <3>0, <3>4
    <3>5. ASSUME NEW i \in DOMAIN g, NEW j \in DOMAIN g, i < j, g[i][1] = g[j][1]
          PROVE  g[i][2] < g[j][2]
      <4>1. i \in DOMAIN f /\ g[i] = f[i]
        BY <3>1, <3>5
      <4>2. CASE j \in DOMAIN f
        BY <3>1, <3>4, <3>5, <4>1, <4>2
      <4>3. CASE j = l
        BY <1>4, <3>1, <3>2, <3>5, <4>1, <4>3
      <4> QED BY <3>1, <4>2, <4>3
    <3>6. ASSUME NEW i \in DOMAIN g
          PROVE  /\ g[i][2] <= tap'[g[i][1]].n
                 /\ ToSend(g[i][1], r)' => g[i][2] < tap'[g[i][1]].n
      <4>1. CASE i \in DOMAIN f
        BY <3>1, <3>3, <4>1
      <4>2. CASE i = l
        BY <1>2, <1>4, <1>8, <1>9, <3>1, <4>2
      <4> QED BY <3>1, <4>1, <4>2
    <3>7. got'[r] \o queue'[r] = g
      BY <2>5, <3>0 DEF Flow
    <3>8. StreamInOrder'
      <4> SUFFICES ASSUME NEW q \in Readers, NEW s, s = got'[q] \o queue'[q],
                          NEW i \in DOMAIN s, NEW j \in DOMAIN s, i < j, s[i][1] = s[j][1]
                   PROVE  s[i][2] < s[j][2]
        BY DEF StreamInOrder
      <4>1. CASE q = r
        BY <3>5, <3>7, <4>1
      <4>2. CASE q # r
        BY <2>1, <2>3, <4>2 DEF Flow
      <4> QED BY <4>1, <4>2
    <3>9. ASSUME NEW q \in Readers, NEW s, s = Flow(q)', NEW i \in DOMAIN s
          PROVE  /\ s[i][2] <= tap'[s[i][1]].n
                 /\ ToSend(s[i][1], q)' => s[i][2] < tap'[s[i][1]].n
      <4>1. CASE q = r
        BY <2>5, <3>0, <3>6, <3>9, <4>1
      <4>2. CASE q # r
        BY <2>1, <2>2, <3>9, <4>2
      <4> QED BY <4>1, <4>2
    <3> QED BY <3>8, <3>9 DEF InOrder
  <2> QED BY <1>11, <2>4, <2>5
<1>13. Accounted'
  <2>1. \A q, d : Has(q, d) /\ q \in Readers => Has(q, d)'
    <3> SUFFICES ASSUME NEW q \in Readers, NEW d, Has(q, d) PROVE Has(q, d)'
      OBVIOUS
    <3>1. CASE q = r /\ queue'[r] = Append(queue[r], e)
      <4>1. /\ queue[r] \in Seq(Events) /\ DOMAIN queue'[r] = DOMAIN queue[r] \cup {Len(queue[r]) + 1}
            /\ \A i \in DOMAIN queue[r] : queue'[r][i] = queue[r][i]
        BY <1>2, <1>4, <3>1, AppendProperties, LenProperties DEF StreamInv, StreamShape
      <4> QED BY <1>2, <1>6, <3>1, <4>1 DEF Has
    <3>2. CASE queue'[q] = queue[q]
      BY <1>2, <1>6, <3>2 DEF Has
    <3> QED BY <1>6, <3>1, <3>2
  <2>2. Has(r, e)'
    <3>1. CASE queue'[r] = Append(queue[r], e)
      <4>1. /\ queue[r] \in Seq(Events) /\ Len(queue[r]) + 1 \in DOMAIN queue'[r]
            /\ queue'[r][Len(queue[r]) + 1] = e
        BY <1>2, <1>4, <3>1, AppendProperties, LenProperties DEF StreamInv, StreamShape
      <4> QED BY <4>1 DEF Has
    <3> QED BY <1>6, <3>1 DEF Has
  <2> SUFFICES ASSUME NEW q \in subs', NEW o \in Taps, NEW k \in 1..tap'[o].n
               PROVE  \/ <<o, k>> \in missed'[q] \/ Has(q, <<o, k>>)'
                      \/ k = tap'[o].n /\ ToSend(o, q)' /\ tap'[o].over = map'
    BY DEF Accounted
  <2>3. q \in subs /\ q \in Readers /\ k \in 1..tap[o].n /\ tap'[o].n = tap[o].n /\ tap'[o].over = tap[o].over
    BY <1>2, <1>9 DEF StreamInv, StreamShape
  <2>4. \/ <<o, k>> \in missed[q] \/ Has(q, <<o, k>>)
        \/ k = tap[o].n /\ ToSend(o, q) /\ tap[o].over = map
    BY <2>3 DEF StreamInv, Accounted
  <2>5. CASE o = t /\ q = r /\ k = tap[t].n
    BY <1>1, <2>2, <2>5
  <2>6. CASE ~(o = t /\ q = r /\ k = tap[t].n)
    BY <1>2, <1>8, <2>1, <2>3, <2>4, <2>6
  <2> QED BY <2>5, <2>6
<1> QED BY <1>7, <1>12, <1>13 DEF StreamInv

(* Steps that move nothing and add no subscriber.                          *)
LEMMA StreamRests ==
  ASSUME StreamInv, UNCHANGED <<ring, map, tap, queue, got, dropped, missed>>,
         subs' \subseteq subs, closed' \subseteq Readers, left' \subseteq Readers
  PROVE  StreamInv'
<1>1. StreamShape'
  BY RingRests DEF StreamInv, StreamShape
<1>2. \A r \in Readers : Flow(r)' = Flow(r)
  BY DEF Flow
<1>3. \A t \in Taps : tap'[t].n >= tap[t].n
  BY DEF StreamInv, StreamShape, TapType
<1>4. \A t, r : ToSend(t, r)' <=> ToSend(t, r)
  BY DEF ToSend
<1>5. InOrder'
  BY <1>1, <1>2, <1>3, <1>4, NothingDelivered DEF StreamInv
<1>6. Accounted'
  <2>1. \A r, e : Has(r, e)' <=> Has(r, e)
    BY DEF Has
  <2> QED BY <1>4, <2>1 DEF StreamInv, Accounted
<1> QED BY <1>1, <1>5, <1>6 DEF StreamInv

LEMMA ReadKeeps ==
  ASSUME StreamInv, NEW r \in Readers, Read(r)
  PROVE  StreamInv'
<1>1. PICK s, q : s = got[r] /\ q = queue[r]
  OBVIOUS
<1>2. /\ q # <<>> /\ got' = [got EXCEPT ![r] = Append(s, Head(q))]
      /\ queue' = [queue EXCEPT ![r] = Tail(q)]
      /\ UNCHANGED <<ring, subs, map, closed, tap, left, dropped, missed>>
      /\ s \in Seq(Events) /\ q \in Seq(Events)
  BY <1>1 DEF Read, StreamInv, StreamShape
<1>3. /\ Head(q) \in Events /\ Tail(q) \in Seq(Events) /\ Len(Tail(q)) = Len(q) - 1
      /\ Append(s, Head(q)) \in Seq(Events)
      /\ Len(q) \in Nat \ {0} /\ Head(q) = q[1]
      /\ \A i \in 1..Len(Tail(q)) : Tail(q)[i] = q[i + 1]
  BY <1>2, HeadTailProperties, AppendProperties, EmptySeq, LenProperties
<1>4. /\ got' \in [Readers -> Seq(Events)] /\ queue' \in [Readers -> Seq(Events)]
      /\ got'[r] = Append(s, Head(q)) /\ queue'[r] = Tail(q)
      /\ \A o \in Readers \ {r} : got'[o] = got[o] /\ queue'[o] = queue[o]
  BY <1>2, <1>3 DEF StreamInv, StreamShape
<1>5. StreamShape'
  <2>1. QueueCap \in Nat
    BY StreamAssumption DEF StreamAssumption
  <2>2. \A o \in Readers : Len(queue'[o]) <= QueueCap
    <3> SUFFICES ASSUME NEW o \in Readers PROVE Len(queue'[o]) <= QueueCap
      OBVIOUS
    <3>1. Len(queue[o]) <= QueueCap /\ Len(queue[r]) <= QueueCap
      BY DEF StreamInv, StreamShape
    <3>2. CASE o = r
      BY <1>1, <1>3, <1>4, <2>1, <3>1, <3>2
    <3>3. CASE o # r
      BY <1>4, <3>1, <3>3
    <3> QED BY <3>2, <3>3
  <2> QED BY <1>2, <1>4, <2>2, RingRests DEF StreamInv, StreamShape
<1>6. \A o \in Readers : Flow(o)' = Flow(o)
  <2> SUFFICES ASSUME NEW o \in Readers PROVE Flow(o)' = Flow(o)
    OBVIOUS
  <2>1. Append(s, Head(q)) \o Tail(q) = s \o q
    BY <1>2, HeadMoves
  <2>2. CASE o = r
    BY <1>1, <1>4, <2>1, <2>2 DEF Flow
  <2>3. CASE o # r
    BY <1>4, <2>3 DEF Flow
  <2> QED BY <2>2, <2>3
<1>7. \A t, o : ToSend(t, o)' <=> ToSend(t, o)
  BY <1>2 DEF ToSend
<1>8. InOrder'
  <2>1. \A t \in Taps : tap'[t].n >= tap[t].n
    BY <1>2 DEF StreamInv, StreamShape, TapType
  <2> QED BY <1>5, <1>6, <1>7, <2>1, NothingDelivered DEF StreamInv
<1>9. Accounted'
  <2>1. ASSUME NEW o \in Readers, NEW e, Has(o, e) PROVE Has(o, e)'
    <3>1. CASE o = r
      <4>1. \A i \in DOMAIN s : i \in DOMAIN Append(s, Head(q)) /\ Append(s, Head(q))[i] = s[i]
        BY <1>2, <1>3, AppendProperties, LenProperties
      <4>2. Len(s) + 1 \in DOMAIN Append(s, Head(q)) /\ Append(s, Head(q))[Len(s) + 1] = q[1]
        BY <1>2, <1>3, AppendProperties, LenProperties
      <4>3. \A i \in DOMAIN q : i # 1 => i - 1 \in DOMAIN Tail(q) /\ Tail(q)[i - 1] = q[i]
        <5>1. DOMAIN q = 1..Len(q) /\ DOMAIN Tail(q) = 1..Len(Tail(q))
          BY <1>2, <1>3, LenProperties
        <5> QED BY <1>3, <5>1
      <4>4. CASE \E i \in DOMAIN s : s[i] = e
        BY <1>4, <3>1, <4>1, <4>4 DEF Has
      <4>5. CASE \E i \in DOMAIN q : q[i] = e
        <5>1. PICK i \in DOMAIN q : q[i] = e
          BY <4>5
        <5>2. CASE i = 1
          BY <1>4, <3>1, <4>2, <5>1, <5>2 DEF Has
        <5>3. CASE i # 1
          <6>1. i - 1 \in DOMAIN queue'[r] /\ queue'[r][i - 1] = e
            BY <1>4, <4>3, <5>1, <5>3
          <6> QED BY <3>1, <6>1 DEF Has
        <5> QED BY <5>2, <5>3
      <4> QED BY <1>1, <1>2, <2>1, <3>1, <4>4, <4>5 DEF Has
    <3>2. CASE o # r
      BY <1>2, <1>4, <2>1, <3>2 DEF Has
    <3> QED BY <3>1, <3>2
  <2>2. subs \subseteq Readers
    BY DEF StreamInv, StreamShape
  <2> QED BY <1>2, <1>7, <2>1, <2>2 DEF StreamInv, Accounted
<1> QED BY <1>5, <1>8, <1>9 DEF StreamInv

(* A new subscriber has missed what was begun; a new map is one without    *)
(* subscribers before.                                                     *)
LEMMA SubscribeKeeps ==
  ASSUME StreamInv, NEW r \in Readers, Subscribe(r)
  PROVE  StreamInv'
<1>1. CASE MapWriteNoticed
  <2>1. UNCHANGED <<ring, map, tap, queue, got, dropped, missed, subs, closed, left>>
    BY <1>1 DEF MapWriteNoticed, chans, history
  <2> QED BY <2>1, StreamRests DEF StreamInv, StreamShape
<1>2. CASE /\ map' = IF subs = {} THEN map + 1 ELSE map
           /\ subs' = subs \cup {r} /\ missed' = [missed EXCEPT ![r] = Begun]
           /\ UNCHANGED <<ring, queue, closed, tap, left, got, dropped>>
  <2>1. /\ missed' \in [Readers -> SUBSET Events] /\ missed'[r] = Begun
        /\ \A o \in Readers \ {r} : missed'[o] = missed[o]
    BY <1>2 DEF StreamInv, StreamShape, Begun
  <2>2. StreamShape'
    BY <1>2, <2>1, RingRests DEF StreamInv, StreamShape
  <2>3. InOrder'
    <3>1. \A o \in Readers : Flow(o)' = Flow(o)
      BY <1>2 DEF Flow
    <3>2. \A t \in Taps : tap'[t].n >= tap[t].n
      BY <1>2 DEF StreamInv, StreamShape, TapType
    <3>3. \A t, o : ToSend(t, o)' <=> ToSend(t, o)
      BY <1>2 DEF ToSend
    <3> QED BY <2>2, <3>1, <3>2, <3>3, NothingDelivered DEF StreamInv
  <2>4. Accounted'
    <3> SUFFICES ASSUME NEW o \in subs', NEW t \in Taps, NEW k \in 1..tap'[t].n
                 PROVE  \/ <<t, k>> \in missed'[o] \/ Has(o, <<t, k>>)'
                        \/ k = tap'[t].n /\ ToSend(t, o)' /\ tap'[t].over = map'
      BY DEF Accounted
    <3>1. k \in 1..tap[t].n /\ tap[t].n \in Nat /\ tap[t].n <= Count[t] /\ Count[t] \in Nat
      BY <1>2, EventIs DEF StreamInv, StreamShape, TapType
    <3>2. CASE o = r
      <4>1. k \in 1..Count[t]
        BY <3>1
      <4>2. <<t, k>> \in Events /\ <<t, k>>[1] = t /\ <<t, k>>[2] = k
        BY <4>1, EventIs
      <4>3. <<t, k>> \in Begun
        BY <3>1, <4>2 DEF Begun
      <4> QED BY <2>1, <3>2, <4>3
    <3>3. CASE o # r
      <4>1. o \in subs /\ o \in Readers /\ map' = map
        BY <1>2, <3>3 DEF StreamInv, StreamShape
      <4>2. /\ Has(o, <<t, k>>)' <=> Has(o, <<t, k>>)
            /\ ToSend(t, o)' <=> ToSend(t, o)
        BY <1>2 DEF Has, ToSend
      <4> QED BY <1>2, <2>1, <3>1, <3>3, <4>1, <4>2 DEF StreamInv, Accounted
    <3> QED BY <3>2, <3>3
  <2> QED BY <2>2, <2>3, <2>4 DEF StreamInv
<1> QED BY <1>1, <1>2 DEF Subscribe, chans

LEMMA StreamKeeps ==
  ASSUME StreamInv, [StreamNext]_streamVars
  PROVE  StreamInv'
<1>1. closed \subseteq Readers /\ left \subseteq Readers
  BY DEF StreamInv, StreamShape
<1>2. CASE UNCHANGED streamVars
  <2>1. UNCHANGED <<ring, map, tap, queue, got, dropped, missed, subs, closed, left>>
    BY <1>2 DEF streamVars, chans, history
  <2> QED BY <1>1, <2>1, StreamRests
<1>3. ASSUME NEW t \in Taps, SendOnClosed(t) PROVE StreamInv'
  <2>1. UNCHANGED <<ring, map, tap, queue, got, dropped, missed, subs, closed, left>>
    BY <1>3 DEF SendOnClosed, chans, history
  <2> QED BY <1>1, <2>1, StreamRests
<1>4. ASSUME NEW t \in Taps, TapStep(t) PROVE StreamInv'
  BY <1>3, <1>4, BeginKeeps, MeetKeeps, EndKeeps, SendKeeps, AddToRingKeeps DEF TapStep
<1>5. ASSUME NEW r \in Readers, Leave(r) PROVE StreamInv'
  <2>1. /\ UNCHANGED <<ring, map, tap, queue, got, dropped, missed, subs, closed>>
        /\ left' = left \cup {r}
    BY <1>5 DEF Leave, chans, history
  <2> QED BY <1>1, <1>5, <2>1, StreamRests
<1>6. ASSUME NEW r \in Readers, Unsubscribe(r) PROVE StreamInv'
  <2>1. /\ UNCHANGED <<ring, map, tap, queue, got, dropped, missed, left>>
        /\ subs' \subseteq subs /\ closed' \subseteq closed \cup {r}
    BY <1>6 DEF Unsubscribe, MapWriteNoticed, chans, history
  <2> QED BY <1>1, <1>6, <2>1, StreamRests
<1> QED BY <1>2, <1>4, <1>5, <1>6, ReadKeeps, SubscribeKeeps DEF StreamNext, ReaderStep

LEMMA StreamStarts == StreamInit => StreamInv
<1> SUFFICES ASSUME StreamInit PROVE StreamInv
  OBVIOUS
<1>1. TypeOK
  BY RingAssumption DEF StreamInit, Init, TypeOK, Slots
<1>2. \A t \in Taps : Idle(0) \in TapType /\ Idle(0).n = 0 /\ Idle(0).pc = "idle" /\ 0 <= Count[t]
  BY EventIs DEF Idle, Tap, TapType
<1>3. QueueCap \in Nat /\ <<>> \in Seq(Events) /\ Len(<<>>) = 0 /\ DOMAIN (<<>> \o <<>>) = {}
  BY StreamAssumption DEF StreamAssumption
<1>4. StreamShape
  BY <1>1, <1>2, <1>3 DEF StreamInit, StreamShape
<1>5. \A r \in Readers : DOMAIN Flow(r) = {}
  BY <1>3 DEF StreamInit, Flow
<1>6. InOrder
  BY <1>5 DEF InOrder, StreamInOrder, Flow
<1>7. Accounted
  BY DEF StreamInit, Accounted
<1> QED BY <1>4, <1>6, <1>7 DEF StreamInv

(* Every reader of a tunnel's stream gets the events of each direction of  *)
(* a connection in order and never twice, for any number of taps, readers  *)
(* and events, whatever a full channel drops (AddEvent in capture.go).     *)
THEOREM StreamStaysInOrder == StreamSpec => []StreamInOrder
<1>1. StreamInv => StreamInOrder
  BY DEF StreamInv, InOrder
<1> QED BY <1>1, StreamStarts, StreamKeeps, PTL DEF StreamSpec

(* And it loses none of the events begun after it subscribed, but those    *)
(* that found its channel full.                                            *)
THEOREM OnlyFullChannelsLose == StreamSpec => []LostOnlyWhenFull
<1>1. ASSUME StreamInv PROVE LostOnlyWhenFull
  <2> SUFFICES ASSUME NEW r \in subs, NEW e \in FannedOut \ missed[r] PROVE Has(r, e)
    BY DEF LostOnlyWhenFull, Has
  <2>1. /\ e[1] \in Taps /\ e[2] \in 1..Count[e[1]] /\ e = <<e[1], e[2]>> /\ e[2] <= tap[e[1]].n
        /\ tap[e[1]].n > e[2] \/ tap[e[1]].pc \in {"idle", "ring"}
    BY EventIs DEF FannedOut, Begun
  <2>2. PICK t, k : t = e[1] /\ k = e[2]
    OBVIOUS
  <2>3. t \in Taps /\ e = <<t, k>> /\ k \in 1..tap[t].n /\ tap[t].n \in Nat
    BY <1>1, <2>1, <2>2 DEF StreamInv, StreamShape, TapType
  <2>4. ~(k = tap[t].n /\ ToSend(t, r))
    BY <2>1, <2>2, <2>3 DEF ToSend
  <2> QED BY <1>1, <2>3, <2>4 DEF StreamInv, Accounted
<1> QED BY <1>1, StreamStarts, StreamKeeps, PTL DEF StreamSpec

(* The ring inside the stream is a ring: what the taps add, in whatever    *)
(* order their goroutines come to it, is the bounded log of it.            *)
THEOREM StreamUsesRing == StreamSpec => Spec
<1>1. StreamInit => Init
  BY DEF StreamInit
<1>2. StreamInv /\ [StreamNext]_streamVars => [Next]_vars
  <2> SUFFICES ASSUME StreamInv, [StreamNext]_streamVars PROVE [Next]_vars
    OBVIOUS
  <2>1. ASSUME NEW t \in Taps, AddToRing(t) PROVE Next
    <3>1. <<t, tap[t].n>> \in Events
      BY <2>1, OwnEvent DEF AddToRing, StreamInv, StreamShape
    <3> QED BY <2>1, <3>1 DEF AddToRing, Next
  <2>2. ASSUME NEW t \in Taps, TapStep(t) PROVE [Next]_vars
    BY <2>1, <2>2 DEF TapStep, Begin, Meet, End, Send, SendOnClosed, ring
  <2>3. ASSUME NEW r \in Readers, ReaderStep(r) PROVE UNCHANGED vars
    BY <2>3 DEF ReaderStep, Subscribe, Leave, Read, Unsubscribe, MapWriteNoticed, ring
  <2> QED BY <2>2, <2>3 DEF StreamNext, streamVars, ring
<1> QED BY <1>1, <1>2, StreamStarts, StreamKeeps, PTL DEF StreamSpec, Spec

-----------------------------------------------------------------------------
(* CaptureStore.                                                           *)

HasOpen(w) == pc[w] \notin {"idle", "add", "open"}
Rotated(w) == <<ConnOf[w], sfx[w]>>
Inodes == DOMAIN data
FileAt(c, i) == <<c, i>> \in DOMAIN dir
Places == {"idle", "add", "open", "stat", "suffix", "rename", "reopen", "write"}

StoreShape ==
  /\ now \in 0..MaxEvents
  /\ IsFiniteSet(DOMAIN dir) /\ DOMAIN dir \subseteq Names /\ dir \in [DOMAIN dir -> Inodes]
  /\ data \in Seq(Seq(Nat)) /\ \A i \in Inodes : ToSet(data[i]) \subseteq 1..now
  /\ mtime \in Seq(Nat) /\ Len(mtime) = Len(data) /\ \A i \in Inodes : mtime[i] <= now
  /\ pc \in [Writers -> Places]
  /\ ev \in [Writers -> 0..now] /\ \A w \in Writers : pc[w] # "idle" => ev[w] > 0
  /\ fd \in [Writers -> 0..Len(data)] /\ \A w \in Writers : HasOpen(w) => fd[w] > 0
  /\ atEnd \in [Writers -> BOOLEAN] /\ \A w \in Writers : pc[w] = "stat" => atEnd[w]
  /\ sfx \in [Writers -> Nat] /\ \A w \in Writers : pc[w] = "rename" => sfx[w] > 0

(* A file has one name, and a writer has a file of its connection.         *)
Owned ==
  /\ \A m, n \in DOMAIN dir : dir[m] = dir[n] => m = n
  /\ \A w \in Writers : HasOpen(w) => \A n \in DOMAIN dir : dir[n] = fd[w] => n[1] = ConnOf[w]
  /\ \A v, w \in Writers :
       HasOpen(v) /\ HasOpen(w) /\ fd[v] = fd[w] => ConnOf[v] = ConnOf[w]

(* As long as a rotation met no other writer: what it is about to do will  *)
(* overwrite nothing, and no file has lost its name but to the sweep.      *)
RotatesAlone ==
  /\ ~Overlap
  /\ \A w \in Writers : pc[w] = "rename" => Rotated(w) \notin DOMAIN dir
  /\ \A w \in Writers : pc[w] = "reopen" => Base(w) \notin DOMAIN dir
  /\ \A w \in Writers : pc[w] = "write" /\ ~atEnd[w] => data[fd[w]] = <<>>
NothingLost ==
  /\ \A i \in Inodes : i \in swept \/ \E n \in DOMAIN dir : dir[n] = i
  /\ \A e \in stored : \E i \in Inodes : e \in ToSet(data[i])

(* As long as also nothing was swept: the writers have the file without a  *)
(* suffix, the suffixes have no gaps, and follow the times of the files.   *)
WritersAtBase == \A w \in Writers : HasOpen(w) /\ pc[w] # "reopen" =>
                   Base(w) \in DOMAIN dir /\ dir[Base(w)] = fd[w]
NoGaps ==
  /\ \A w \in Writers : pc[w] = "rename" => \A j \in 1..(sfx[w] - 1) : FileAt(ConnOf[w], j)
  /\ \A n \in DOMAIN dir : \A j \in 1..n[2] : FileAt(n[1], j)
InTime ==
  \A m, n \in DOMAIN dir : m[1] = n[1] /\ (n[2] = 0 \/ (m[2] > 0 /\ m[2] < n[2])) =>
    mtime[dir[m]] <= mtime[dir[n]]

StoreInv ==
  /\ StoreShape /\ Owned /\ overlapped \in BOOLEAN
  /\ ~overlapped => RotatesAlone /\ NothingLost
  /\ ~overlapped /\ swept = {} => WritersAtBase /\ NoGaps /\ InTime

LEMMA NameIs ==
  /\ \A n \in Names : n[1] \in Conns /\ n[2] \in Nat /\ n = <<n[1], n[2]>>
  /\ \A c \in Conns, i \in Nat : <<c, i>> \in Names /\ <<c, i>>[1] = c /\ <<c, i>>[2] = i
  /\ \A w \in Writers : ConnOf[w] \in Conns /\ Base(w) \in Names /\ Base(w)[1] = ConnOf[w] /\ Base(w)[2] = 0
BY StoreAssumption DEF StoreAssumption, Names, Base

LEMMA Moved ==
  ASSUME StoreShape, NEW w \in Writers, NEW from, NEW to \in Places, Goto(w, from, to)
  PROVE  /\ pc[w] = from /\ pc' \in [Writers -> Places] /\ pc'[w] = to
         /\ \A v \in Writers : v # w => pc'[v] = pc[v]
BY DEF StoreShape, Goto

LEMMA EventAdded ==
  ASSUME NEW s \in Seq(Nat), NEW e \in Nat
  PROVE  /\ ToSet(<<>>) = {} /\ Append(s, e) \in Seq(Nat) /\ ToSet(Append(s, e)) = ToSet(s) \cup {e}
<1>1. ToSet(<<>>) = {}
  <2>1. DOMAIN <<>> = {}
    OBVIOUS
  <2> QED BY <2>1 DEF ToSet
<1>2. /\ Append(s, e) \in Seq(Nat) /\ DOMAIN Append(s, e) = DOMAIN s \cup {Len(s) + 1}
      /\ \A i \in DOMAIN s : Append(s, e)[i] = s[i]
      /\ Append(s, e)[Len(s) + 1] = e
  BY AppendProperties, LenProperties
<1>3. ToSet(Append(s, e)) = ToSet(s) \cup {e}
  BY <1>2 DEF ToSet
<1> QED BY <1>1, <1>2, <1>3

(* A step of a writer that touches no file.                                *)
LEMMA StepsAside ==
  ASSUME StoreInv, NEW w \in Writers, NEW to \in {"idle", "add", "open", "suffix", "write"},
         NEW from, Goto(w, from, to), UNCHANGED <<files, fd, atEnd, sfx, stored, swept>>,
         to \in {"suffix", "write"} => from = "stat", from = "idle" => to = "add",
         to = "idle" => from = "idle",
         now' \in now..MaxEvents, ev' \in [Writers -> 0..now'],
         \A v \in Writers : pc'[v] # "idle" => ev'[v] > 0,
         overlapped' = (overlapped \/ Overlap')
  PROVE  StoreInv'
<1>1. /\ pc[w] = from /\ pc' \in [Writers -> Places] /\ pc'[w] = to
      /\ \A v \in Writers : v # w => pc'[v] = pc[v]
  BY Moved DEF StoreInv, Places
<1>2. UNCHANGED <<dir, data, mtime, fd, atEnd, sfx, stored, swept>>
  BY DEF files
<1>3. \A v \in Writers : HasOpen(v)' => HasOpen(v)
  BY <1>1 DEF HasOpen
<1>4. now \in Nat /\ now <= now'
  BY StoreAssumption DEF StoreInv, StoreShape, StoreAssumption
<1>5. StoreShape'
  <2>1. \A i \in Inodes : ToSet(data[i]) \subseteq 1..now' /\ mtime[i] <= now'
    BY <1>4, LenProperties DEF StoreInv, StoreShape, Inodes
  <2>2. \A v \in Writers : pc'[v] = "stat" => atEnd[v]
    BY <1>1 DEF StoreInv, StoreShape
  <2>3. \A v \in Writers : pc'[v] = "rename" => sfx[v] > 0
    BY <1>1 DEF StoreInv, StoreShape
  <2> QED BY <1>1, <1>2, <1>3, <1>4, <2>1, <2>2, <2>3 DEF StoreInv, StoreShape, Inodes
<1>6. Owned'
  BY <1>2, <1>3 DEF StoreInv, Owned
<1>7. ASSUME ~overlapped' PROVE ~overlapped /\ ~Overlap' /\ RotatesAlone /\ NothingLost
  BY <1>7 DEF StoreInv
<1>8. ASSUME ~overlapped' PROVE RotatesAlone' /\ NothingLost'
  <2>1. \A v \in Writers : pc'[v] = "write" /\ ~atEnd[v] => pc[v] = "write"
    BY <1>1 DEF StoreInv, StoreShape
  <2>2. RotatesAlone'
    BY <1>1, <1>2, <1>7, <1>8, <2>1 DEF RotatesAlone, Rotated, Base
  <2> QED BY <1>2, <1>7, <1>8, <2>2 DEF NothingLost, Inodes
<1>9. ASSUME ~overlapped', swept' = {} PROVE WritersAtBase' /\ NoGaps' /\ InTime'
  <2>1. WritersAtBase /\ NoGaps /\ InTime
    BY <1>2, <1>7, <1>9 DEF StoreInv
  <2>2. WritersAtBase'
    <3>1. \A v \in Writers : HasOpen(v)' /\ pc'[v] # "reopen" => HasOpen(v) /\ pc[v] # "reopen"
      BY <1>1 DEF HasOpen
    <3> QED BY <1>2, <2>1, <3>1 DEF WritersAtBase, Base
  <2>3. NoGaps'
    BY <1>1, <1>2, <2>1 DEF NoGaps, FileAt
  <2>4. InTime'
    BY <1>2, <2>1 DEF InTime
  <2> QED BY <2>2, <2>3, <2>4
<1> QED BY <1>5, <1>6, <1>8, <1>9 DEF StoreInv

(* A file that is created has an inode and a name of its own.              *)
LEMMA Created ==
  ASSUME StoreShape, NEW w \in Writers, Create(w)
  PROVE  /\ now \in Nat /\ Len(data) \in Nat
         /\ Base(w) \notin DOMAIN dir /\ DOMAIN dir' = DOMAIN dir \cup {Base(w)}
         /\ dir'[Base(w)] = Len(data) + 1 /\ \A n \in DOMAIN dir : dir'[n] = dir[n]
         /\ IsFiniteSet(DOMAIN dir') /\ DOMAIN dir' \subseteq Names /\ dir' \in [DOMAIN dir' -> Inodes']
         /\ data' \in Seq(Seq(Nat)) /\ mtime' \in Seq(Nat)
         /\ Len(data') = Len(data) + 1 /\ Len(mtime') = Len(data')
         /\ Inodes = 1..Len(data) /\ Inodes' = 1..(Len(data) + 1)
         /\ \A i \in Inodes : data'[i] = data[i] /\ mtime'[i] = mtime[i]
         /\ data'[Len(data) + 1] = <<>> /\ mtime'[Len(data) + 1] = now
         /\ fd' \in [Writers -> 0..Len(data')] /\ fd'[w] = Len(data) + 1
         /\ \A v \in Writers : v # w => fd'[v] = fd[v]
<1>1. now \in Nat /\ Len(data) \in Nat /\ Inodes = 1..Len(data)
  BY StoreAssumption, LenProperties DEF StoreShape, StoreAssumption, Inodes
<1>2. /\ data' \in Seq(Seq(Nat)) /\ Len(data') = Len(data) + 1
      /\ \A i \in 1..Len(data) : data'[i] = data[i]
      /\ data'[Len(data) + 1] = <<>>
  BY AppendProperties, LenProperties DEF StoreShape, Create
<1>3. /\ mtime' \in Seq(Nat) /\ Len(mtime') = Len(data) + 1
      /\ \A i \in 1..Len(data) : mtime'[i] = mtime[i]
      /\ mtime'[Len(data) + 1] = now
  BY <1>1, AppendProperties, LenProperties DEF StoreShape, Create
<1>4. Inodes' = 1..(Len(data) + 1)
  BY <1>2, LenProperties DEF Inodes
<1>5. /\ Base(w) \notin DOMAIN dir /\ DOMAIN dir' = DOMAIN dir \cup {Base(w)}
      /\ dir'[Base(w)] = Len(data) + 1 /\ \A n \in DOMAIN dir : dir'[n] = dir[n]
      /\ dir' = [n \in DOMAIN dir' |-> dir'[n]]
  BY DEF Create
<1>6. IsFiniteSet(DOMAIN dir') /\ DOMAIN dir' \subseteq Names
  BY <1>5, NameIs, FS_AddElement DEF StoreShape
<1>7. dir' \in [DOMAIN dir' -> Inodes']
  <2>1. \A n \in DOMAIN dir' : dir'[n] \in 1..(Len(data) + 1)
    BY <1>1, <1>5 DEF StoreShape
  <2> QED BY <1>4, <1>5, <2>1
<1>8. /\ fd' \in [Writers -> 0..Len(data')] /\ fd'[w] = Len(data) + 1
      /\ \A v \in Writers : v # w => fd'[v] = fd[v]
  BY <1>1, <1>2 DEF StoreShape, Create
<1> QED BY <1>1, <1>2, <1>3, <1>4, <1>5, <1>6, <1>7, <1>8

(* A writer that comes to have a new file, not yet written.                *)
LEMMA CreateKeeps ==
  ASSUME StoreInv, NEW w \in Writers, NEW from, NEW to \in {"stat", "write"},
         Goto(w, from, to), Create(w), UNCHANGED <<now, ev, sfx, stored, swept>>,
         from = "open" \/ from = "reopen",
         atEnd' = [atEnd EXCEPT ![w] = (to = "stat")],
         overlapped' = (overlapped \/ Overlap')
  PROVE  StoreInv'
<1>1. /\ pc[w] = from /\ pc' \in [Writers -> Places] /\ pc'[w] = to
      /\ \A v \in Writers : v # w => pc'[v] = pc[v]
  BY Moved DEF StoreInv, Places
<1>2. /\ now \in Nat /\ Len(data) \in Nat
      /\ Base(w) \notin DOMAIN dir /\ DOMAIN dir' = DOMAIN dir \cup {Base(w)}
      /\ dir'[Base(w)] = Len(data) + 1 /\ \A n \in DOMAIN dir : dir'[n] = dir[n]
  BY Created DEF StoreInv
<1>3. /\ IsFiniteSet(DOMAIN dir') /\ DOMAIN dir' \subseteq Names /\ dir' \in [DOMAIN dir' -> Inodes']
      /\ data' \in Seq(Seq(Nat)) /\ mtime' \in Seq(Nat)
      /\ Len(data') = Len(data) + 1 /\ Len(mtime') = Len(data')
  BY Created DEF StoreInv
<1>4. /\ Inodes = 1..Len(data) /\ Inodes' = 1..(Len(data) + 1)
      /\ \A i \in Inodes : data'[i] = data[i] /\ mtime'[i] = mtime[i]
      /\ data'[Len(data) + 1] = <<>> /\ mtime'[Len(data) + 1] = now
  BY Created DEF StoreInv
<1>5. /\ fd' \in [Writers -> 0..Len(data')] /\ fd'[w] = Len(data) + 1
      /\ \A v \in Writers : v # w => fd'[v] = fd[v]
  BY Created DEF StoreInv
<1>6. /\ atEnd' \in [Writers -> BOOLEAN] /\ (atEnd'[w] <=> to = "stat")
      /\ \A v \in Writers : v # w => atEnd'[v] = atEnd[v]
  BY DEF StoreInv, StoreShape
<1>7. UNCHANGED <<now, ev, sfx, stored, swept>>
  OBVIOUS
<1>8. \A v \in Writers : v # w => (HasOpen(v)' <=> HasOpen(v))
  BY <1>1 DEF HasOpen
<1>9. /\ \A n \in DOMAIN dir : dir[n] \in 1..Len(data) /\ n \in Names
      /\ \A v \in Writers : fd[v] \in 0..Len(data)
      /\ \A v \in Writers : HasOpen(v) => fd[v] > 0
      /\ \A i \in 1..Len(data) : mtime[i] <= now
      /\ \A v \in Writers : sfx[v] \in Nat
      /\ \A v \in Writers : pc[v] = "rename" => sfx[v] > 0
  BY <1>4 DEF StoreInv, StoreShape
<1>10. StoreShape'
  <2>1. \A i \in Inodes' : ToSet(data'[i]) \subseteq 1..now' /\ mtime'[i] <= now'
    <3> SUFFICES ASSUME NEW i \in Inodes' PROVE ToSet(data'[i]) \subseteq 1..now' /\ mtime'[i] <= now'
      OBVIOUS
    <3>1. CASE i = Len(data) + 1
      <4>1. ToSet(data'[i]) = {}
        BY <1>4, <3>1, EventAdded, EmptySeq
      <4> QED BY <1>2, <1>4, <1>7, <3>1, <4>1
    <3>2. CASE i # Len(data) + 1
      <4>1. i \in Inodes /\ data'[i] = data[i] /\ mtime'[i] = mtime[i]
        BY <1>2, <1>4, <3>2
      <4> QED BY <1>7, <4>1 DEF StoreInv, StoreShape
    <3> QED BY <3>1, <3>2
  <2>2. \A v \in Writers : HasOpen(v)' => fd'[v] > 0
    BY <1>2, <1>5, <1>8, <1>9
  <2>3. \A v \in Writers : pc'[v] = "stat" => atEnd'[v]
    BY <1>1, <1>6 DEF StoreInv, StoreShape
  <2>4. \A v \in Writers : pc'[v] = "rename" => sfx'[v] > 0
    BY <1>1, <1>7, <1>9
  <2>5. \A v \in Writers : pc'[v] # "idle" => ev'[v] > 0
    BY <1>1, <1>7 DEF StoreInv, StoreShape
  <2> QED BY <1>1, <1>3, <1>5, <1>6, <1>7, <2>1, <2>2, <2>3, <2>4, <2>5 DEF StoreInv, StoreShape
<1>11. Owned'
  <2>1. \A m, n \in DOMAIN dir' : dir'[m] = dir'[n] => m = n
    BY <1>2, <1>9 DEF StoreInv, Owned
  <2>2. ASSUME NEW v \in Writers, HasOpen(v)', NEW n \in DOMAIN dir', dir'[n] = fd'[v]
        PROVE  n[1] = ConnOf[v]
    <3>1. CASE v = w
      BY <1>2, <1>5, <1>9, <2>2, <3>1, NameIs
    <3>2. CASE v # w
      BY <1>2, <1>5, <1>8, <1>9, <2>2, <3>2 DEF StoreInv, Owned
    <3> QED BY <3>1, <3>2
  <2>3. \A u, v \in Writers : HasOpen(u)' /\ HasOpen(v)' /\ fd'[u] = fd'[v] => ConnOf[u] = ConnOf[v]
    BY <1>2, <1>5, <1>8, <1>9 DEF StoreInv, Owned
  <2> QED BY <2>1, <2>2, <2>3 DEF Owned
<1>12. ASSUME ~overlapped' PROVE ~overlapped /\ ~Overlap' /\ RotatesAlone /\ NothingLost
  BY <1>12 DEF StoreInv
<1>13. HasOpen(w)'
  BY <1>1 DEF HasOpen
<1>14. ASSUME ~overlapped', NEW v \in Writers, v # w, ConnOf[v] = ConnOf[w]
       PROVE  ~Rotating(v)'
  BY <1>12, <1>13, <1>14 DEF Overlap, HasOpen
<1>15. ASSUME ~overlapped' PROVE RotatesAlone'
  <2>1. \A v \in Writers : pc'[v] = "rename" => Rotated(v)' \notin DOMAIN dir'
    <3> SUFFICES ASSUME NEW v \in Writers, pc'[v] = "rename" PROVE Rotated(v) \notin DOMAIN dir'
      BY <1>7 DEF Rotated
    <3>1. v # w /\ pc[v] = "rename" /\ sfx[v] > 0
      BY <1>1, <1>9
    <3>2. Rotated(v) \notin DOMAIN dir
      BY <1>12, <1>15, <3>1 DEF RotatesAlone
    <3>3. Rotated(v)[2] = sfx[v]
      BY <3>1, NameIs, <1>9 DEF Rotated
    <3>4. Rotated(v) # Base(w)
      BY <3>1, <3>3, NameIs
    <3> QED BY <1>2, <3>2, <3>4
  <2>2. \A v \in Writers : pc'[v] = "reopen" => Base(v) \notin DOMAIN dir'
    <3> SUFFICES ASSUME NEW v \in Writers, pc'[v] = "reopen" PROVE Base(v) \notin DOMAIN dir'
      OBVIOUS
    <3>1. v # w /\ pc[v] = "reopen"
      BY <1>1
    <3>2. ConnOf[v] # ConnOf[w]
      BY <1>14, <1>15, <3>1 DEF Rotating
    <3> QED BY <1>2, <1>12, <1>15, <3>1, <3>2, NameIs DEF RotatesAlone
  <2>3. \A v \in Writers : pc'[v] = "write" /\ ~atEnd'[v] => data'[fd'[v]] = <<>>
    <3> SUFFICES ASSUME NEW v \in Writers, pc'[v] = "write", ~atEnd'[v] PROVE data'[fd'[v]] = <<>>
      OBVIOUS
    <3>1. CASE v = w
      BY <1>4, <1>5, <3>1
    <3>2. CASE v # w
      <4>1. fd[v] \in Inodes
        BY <1>1, <1>4, <1>9, <3>2 DEF HasOpen
      <4> QED BY <1>1, <1>4, <1>5, <1>6, <1>12, <1>15, <3>2, <4>1 DEF RotatesAlone
    <3> QED BY <3>1, <3>2
  <2> QED BY <1>12, <1>15, <2>1, <2>2, <2>3 DEF RotatesAlone, Base
<1>16. ASSUME ~overlapped' PROVE NothingLost'
  <2>1. \A i \in Inodes' : i \in swept \/ \E n \in DOMAIN dir' : dir'[n] = i
    BY <1>2, <1>4, <1>12, <1>16 DEF NothingLost
  <2>2. \A e \in stored : \E i \in Inodes' : e \in ToSet(data'[i])
    BY <1>2, <1>4, <1>12, <1>16 DEF NothingLost
  <2> QED BY <1>7, <2>1, <2>2 DEF NothingLost
<1>17. ASSUME ~overlapped', swept' = {} PROVE WritersAtBase' /\ NoGaps' /\ InTime'
  <2>1. WritersAtBase /\ NoGaps /\ InTime
    BY <1>7, <1>12, <1>17 DEF StoreInv
  <2>2. WritersAtBase'
    <3>1. \A v \in Writers : HasOpen(v)' /\ pc'[v] # "reopen" =>
            Base(v) \in DOMAIN dir' /\ dir'[Base(v)] = fd'[v]
      BY <1>1, <1>2, <1>5, <1>8, <2>1 DEF WritersAtBase
    <3> QED BY <3>1 DEF WritersAtBase, Base
  <2>3. NoGaps'
    <3>1. \A v \in Writers : pc'[v] = "rename" => \A j \in 1..(sfx[v] - 1) : FileAt(ConnOf[v], j)
      BY <1>1, <2>1 DEF NoGaps
    <3>2. \A n \in DOMAIN dir' : \A j \in 1..n[2] : FileAt(n[1], j)
      BY <1>2, <2>1, NameIs DEF NoGaps
    <3>3. \A c, j : FileAt(c, j) => FileAt(c, j)'
      BY <1>2 DEF FileAt
    <3> QED BY <1>7, <3>1, <3>2, <3>3 DEF NoGaps
  <2>4. InTime'
    <3> SUFFICES ASSUME NEW m \in DOMAIN dir', NEW n \in DOMAIN dir', m[1] = n[1],
                        n[2] = 0 \/ (m[2] > 0 /\ m[2] < n[2])
                 PROVE  mtime'[dir'[m]] <= mtime'[dir'[n]]
      BY DEF InTime
    <3>1. CASE n = Base(w)
      BY <1>2, <1>4, <1>9, <3>1
    <3>2. CASE n # Base(w) /\ m = Base(w)
      BY <1>2, <1>9, <3>2, NameIs
    <3>3. CASE n # Base(w) /\ m # Base(w)
      BY <1>2, <1>4, <1>9, <2>1, <3>3 DEF InTime
    <3> QED BY <3>1, <3>2, <3>3
  <2> QED BY <2>2, <2>3, <2>4
<1> QED BY <1>7, <1>10, <1>11, <1>15, <1>16, <1>17 DEF StoreInv

LEMMA OpenKeeps ==
  ASSUME StoreInv, NEW w \in Writers, Open(w), overlapped' = (overlapped \/ Overlap')
  PROVE  StoreInv'
<1>1. CASE Create(w)
  <2>1. Goto(w, "open", "stat") /\ atEnd' = [atEnd EXCEPT ![w] = ("stat" = "stat")]
    BY DEF Open
  <2> QED BY <1>1, <2>1, CreateKeeps DEF Open
<1>2. CASE OpenExisting(w)
  <2>1. /\ pc[w] = "open" /\ pc' \in [Writers -> Places] /\ pc'[w] = "stat"
        /\ \A v \in Writers : v # w => pc'[v] = pc[v]
    BY Moved DEF StoreInv, Places, Open
  <2>2. UNCHANGED <<now, dir, data, mtime, ev, sfx, stored, swept>>
    BY <1>2 DEF Open, OpenExisting, files
  <2>3. /\ Base(w) \in DOMAIN dir /\ dir[Base(w)] \in 1..Len(data) /\ Len(data) \in Nat
        /\ fd' \in [Writers -> 0..Len(data)] /\ fd'[w] = dir[Base(w)]
        /\ \A v \in Writers : v # w => fd'[v] = fd[v]
    BY <1>2, LenProperties DEF OpenExisting, StoreInv, StoreShape, Inodes
  <2>4. /\ atEnd' \in [Writers -> BOOLEAN] /\ atEnd'[w]
        /\ \A v \in Writers : v # w => atEnd'[v] = atEnd[v]
    BY DEF Open, StoreInv, StoreShape
  <2>5. \A v \in Writers : v # w => (HasOpen(v)' <=> HasOpen(v))
    BY <2>1 DEF HasOpen
  <2>6. StoreShape'
    <3>1. \A v \in Writers : HasOpen(v)' => fd'[v] > 0
      <4> SUFFICES ASSUME NEW v \in Writers, HasOpen(v)' PROVE fd'[v] > 0
        OBVIOUS
      <4>1. CASE v = w
        BY <2>3, <4>1
      <4>2. CASE v # w
        BY <2>3, <2>5, <4>2 DEF StoreInv, StoreShape
      <4> QED BY <4>1, <4>2
    <3>2. \A v \in Writers : pc'[v] = "stat" => atEnd'[v]
      BY <2>1, <2>4 DEF StoreInv, StoreShape
    <3>3. \A v \in Writers : pc'[v] = "rename" => sfx[v] > 0
      BY <2>1 DEF StoreInv, StoreShape
    <3>4. \A v \in Writers : pc'[v] # "idle" => ev[v] > 0
      BY <2>1 DEF StoreInv, StoreShape
    <3> QED BY <2>1, <2>2, <2>3, <2>4, <3>1, <3>2, <3>3, <3>4 DEF StoreInv, StoreShape, Inodes
  <2>7. Owned'
    <3>1. ASSUME NEW v \in Writers, HasOpen(v)', NEW n \in DOMAIN dir, dir[n] = fd'[v]
          PROVE  n[1] = ConnOf[v]
      <4>1. CASE v = w
        BY <2>3, <3>1, <4>1, NameIs DEF StoreInv, Owned
      <4>2. CASE v # w
        BY <2>3, <2>5, <3>1, <4>2 DEF StoreInv, Owned
      <4> QED BY <4>1, <4>2
    <3>2. \A u, v \in Writers : HasOpen(u)' /\ HasOpen(v)' /\ fd'[u] = fd'[v] => ConnOf[u] = ConnOf[v]
      BY <2>3, <2>5, NameIs DEF StoreInv, Owned
    <3> QED BY <2>2, <3>1, <3>2 DEF StoreInv, Owned
  <2>8. ASSUME ~overlapped' PROVE ~overlapped /\ ~Overlap' /\ RotatesAlone /\ NothingLost
    BY <2>8 DEF StoreInv
  <2>9. ASSUME ~overlapped' PROVE RotatesAlone' /\ NothingLost'
    <3>1. \A v \in Writers : pc'[v] = "write" /\ ~atEnd'[v] => v # w
      BY <2>1
    <3>2. RotatesAlone'
      BY <2>1, <2>2, <2>3, <2>4, <2>8, <2>9, <3>1 DEF RotatesAlone, Rotated, Base
    <3> QED BY <2>2, <2>8, <2>9, <3>2 DEF NothingLost, Inodes
  <2>10. ASSUME ~overlapped', swept' = {} PROVE WritersAtBase' /\ NoGaps' /\ InTime'
    <3>1. WritersAtBase /\ NoGaps /\ InTime
      BY <2>2, <2>8, <2>10 DEF StoreInv
    <3>2. WritersAtBase'
      <4>1. \A v \in Writers : HasOpen(v)' /\ pc'[v] # "reopen" =>
              Base(v) \in DOMAIN dir /\ dir[Base(v)] = fd'[v]
        BY <2>1, <2>3, <2>5, <3>1 DEF WritersAtBase
      <4> QED BY <2>2, <4>1 DEF WritersAtBase, Base
    <3>3. NoGaps'
      BY <2>1, <2>2, <3>1 DEF NoGaps, FileAt
    <3>4. InTime'
      BY <2>2, <3>1 DEF InTime
    <3> QED BY <3>2, <3>3, <3>4
  <2>11. overlapped' \in BOOLEAN
    OBVIOUS
  <2> QED BY <2>6, <2>7, <2>9, <2>10, <2>11 DEF StoreInv
<1> QED BY <1>1, <1>2 DEF Open

(* There is a suffix that no file of the connection has, and a least one.  *)
LEMMA SuffixFound ==
  ASSUME StoreShape, NEW c
  PROVE  LET taken == SuffixesOf(c)
             i == CHOOSE k \in 1..(Cardinality(taken) + 1) : k \notin taken /\ \A j \in 1..(k - 1) : j \in taken
         IN  /\ IsFiniteSet(taken) /\ taken \subseteq Nat
             /\ i \in Nat /\ i > 0 /\ i \notin taken /\ \A j \in 1..(i - 1) : j \in taken
<1> DEFINE taken == SuffixesOf(c)
<1> DEFINE own == {m \in DOMAIN dir : m[1] = c}
<1>1. IsFiniteSet(own)
  BY FS_Subset DEF StoreShape
<1>2. IsFiniteSet(taken)
  <2> DEFINE f == [n \in own |-> n[2]]
  <2>1. f \in Surjection(own, taken)
    BY DEF Surjection, SuffixesOf
  <2> HIDE DEF f, own, taken
  <2> QED BY <1>1, <2>1, FS_Surjection
<1>3. taken \subseteq Nat
  BY NameIs DEF SuffixesOf, StoreShape
<1> HIDE DEF taken
<1>4. PICK m : m = Cardinality(taken) /\ m \in Nat
  BY <1>2, FS_CardinalityType
<1>5. PICK free : free = (1..(m + 1)) \ taken
  OBVIOUS
<1>6. free # {}
  <2> SUFFICES ASSUME free = {} PROVE FALSE
    OBVIOUS
  <2>1. 1..(m + 1) \in SUBSET taken
    BY <1>5
  <2>2. Cardinality(1..(m + 1)) = m + 1
    BY <1>4, FS_Interval
  <2> QED BY <1>2, <1>4, <2>1, <2>2, FS_Subset
<1>7. PICK k \in free : \A y \in free : k <= y
  BY <1>4, <1>5, <1>6, Least
<1>8. k \in 1..(Cardinality(taken) + 1) /\ k \notin taken /\ \A j \in 1..(k - 1) : j \in taken
  BY <1>4, <1>5, <1>7
<1>9. PICK i : i = CHOOSE x \in 1..(Cardinality(taken) + 1) : x \notin taken /\ \A j \in 1..(x - 1) : j \in taken
  OBVIOUS
<1>10. i \in 1..(Cardinality(taken) + 1) /\ i \notin taken /\ \A j \in 1..(i - 1) : j \in taken
  BY <1>8, <1>9
<1> QED BY <1>2, <1>3, <1>4, <1>9, <1>10 DEF taken

LEMMA FindSuffixKeeps ==
  ASSUME StoreInv, NEW w \in Writers, FindSuffix(w), overlapped' = (overlapped \/ Overlap')
  PROVE  StoreInv'
<1>1. /\ pc[w] = "suffix" /\ pc' \in [Writers -> Places] /\ pc'[w] = "rename"
      /\ \A v \in Writers : v # w => pc'[v] = pc[v]
  BY Moved DEF StoreInv, Places, FindSuffix
<1>2. UNCHANGED <<now, dir, data, mtime, ev, fd, atEnd, stored, swept>>
  BY DEF FindSuffix, files
<1>3. PICK i : /\ i = CHOOSE k \in 1..(Cardinality(SuffixesOf(ConnOf[w])) + 1) :
                        k \notin SuffixesOf(ConnOf[w]) /\ \A j \in 1..(k - 1) : j \in SuffixesOf(ConnOf[w])
               /\ sfx' = [sfx EXCEPT ![w] = i]
  BY DEF FindSuffix
<1>4. /\ i \in Nat /\ i > 0 /\ i \notin SuffixesOf(ConnOf[w])
      /\ \A j \in 1..(i - 1) : j \in SuffixesOf(ConnOf[w])
  BY <1>3, SuffixFound DEF StoreInv
<1>5. <<ConnOf[w], i>> \notin DOMAIN dir
  <2>1. <<ConnOf[w], i>>[1] = ConnOf[w] /\ <<ConnOf[w], i>>[2] = i
    BY <1>4, NameIs
  <2> QED BY <1>4, <2>1 DEF SuffixesOf
<1>6. \A j \in 1..(i - 1) : FileAt(ConnOf[w], j)
  <2> SUFFICES ASSUME NEW j \in 1..(i - 1) PROVE <<ConnOf[w], j>> \in DOMAIN dir
    BY DEF FileAt
  <2>1. PICK m \in DOMAIN dir : m[1] = ConnOf[w] /\ m[2] = j
    BY <1>4 DEF SuffixesOf
  <2>2. m = <<m[1], m[2]>>
    BY NameIs DEF StoreInv, StoreShape
  <2> QED BY <2>1, <2>2
<1>7. /\ sfx' \in [Writers -> Nat] /\ sfx'[w] = i
      /\ \A v \in Writers : v # w => sfx'[v] = sfx[v]
  BY <1>3, <1>4 DEF StoreInv, StoreShape
<1>8. \A v \in Writers : HasOpen(v)' <=> HasOpen(v)
  BY <1>1 DEF HasOpen
<1>9. StoreShape'
  <2>1. \A v \in Writers : pc'[v] = "rename" => sfx'[v] > 0
    BY <1>1, <1>4, <1>7 DEF StoreInv, StoreShape
  <2>2. \A v \in Writers : pc'[v] # "idle" => ev[v] > 0
    BY <1>1 DEF StoreInv, StoreShape
  <2>3. \A v \in Writers : pc'[v] = "stat" => atEnd[v]
    BY <1>1 DEF StoreInv, StoreShape
  <2> QED BY <1>1, <1>2, <1>7, <1>8, <2>1, <2>2, <2>3 DEF StoreInv, StoreShape, Inodes
<1>10. Owned'
  BY <1>2, <1>8 DEF StoreInv, Owned
<1>11. ASSUME ~overlapped' PROVE ~overlapped /\ ~Overlap' /\ RotatesAlone /\ NothingLost
  BY <1>11 DEF StoreInv
<1>12. ASSUME ~overlapped' PROVE RotatesAlone' /\ NothingLost'
  <2>1. RotatesAlone'
    <3>1. \A v \in Writers : pc'[v] = "rename" => <<ConnOf[v], sfx'[v]>> \notin DOMAIN dir
      BY <1>1, <1>5, <1>7, <1>11, <1>12 DEF RotatesAlone, Rotated
    <3> QED BY <1>1, <1>2, <1>11, <1>12, <3>1 DEF RotatesAlone, Rotated, Base
  <2> QED BY <1>2, <1>11, <1>12, <2>1 DEF NothingLost, Inodes
<1>13. ASSUME ~overlapped', swept' = {} PROVE WritersAtBase' /\ NoGaps' /\ InTime'
  <2>1. WritersAtBase /\ NoGaps /\ InTime
    BY <1>2, <1>11, <1>13 DEF StoreInv
  <2>2. WritersAtBase'
    <3>1. \A v \in Writers : HasOpen(v)' /\ pc'[v] # "reopen" => HasOpen(v) /\ pc[v] # "reopen"
      BY <1>1 DEF HasOpen
    <3> QED BY <1>2, <2>1, <3>1 DEF WritersAtBase, Base
  <2>3. NoGaps'
    <3>1. \A v \in Writers : pc'[v] = "rename" => \A j \in 1..(sfx'[v] - 1) : FileAt(ConnOf[v], j)
      BY <1>1, <1>6, <1>7, <2>1 DEF NoGaps
    <3> QED BY <1>2, <2>1, <3>1 DEF NoGaps, FileAt
  <2>4. InTime'
    BY <1>2, <2>1 DEF InTime
  <2> QED BY <2>2, <2>3, <2>4
<1>14. overlapped' \in BOOLEAN
  OBVIOUS
<1> QED BY <1>9, <1>10, <1>12, <1>13, <1>14 DEF StoreInv

LEMMA RenameKeeps ==
  ASSUME StoreInv, NEW w \in Writers, Rename(w), overlapped' = (overlapped \/ Overlap')
  PROVE  StoreInv'
<1>1. /\ pc[w] = "rename" /\ pc' \in [Writers -> Places] /\ pc'[w] = "reopen"
      /\ \A v \in Writers : v # w => pc'[v] = pc[v]
  BY Moved DEF StoreInv, Places, Rename
<1>2. UNCHANGED <<now, data, mtime, ev, fd, atEnd, sfx, stored, swept>>
  BY DEF Rename
<1>3. PICK rot, base : rot = <<ConnOf[w], sfx[w]>> /\ base = Base(w)
  OBVIOUS
<1>4. /\ rot \in Names /\ rot[1] = ConnOf[w] /\ rot[2] = sfx[w] /\ sfx[w] \in Nat /\ sfx[w] > 0
      /\ base \in Names /\ base[1] = ConnOf[w] /\ base[2] = 0 /\ base # rot
  BY <1>1, <1>3, NameIs DEF StoreInv, StoreShape
<1>5. dir' = IF base \in DOMAIN dir
             THEN [n \in (DOMAIN dir \ {base}) \cup {rot} |-> IF n = rot THEN dir[base] ELSE dir[n]]
             ELSE dir
  BY <1>3 DEF Rename
<1>6. /\ base \notin DOMAIN dir' /\ DOMAIN dir' \subseteq (DOMAIN dir \ {base}) \cup {rot}
      /\ DOMAIN dir \ {base} \subseteq DOMAIN dir'
      /\ \A n \in DOMAIN dir' : n # rot => dir'[n] = dir[n]
      /\ base \in DOMAIN dir => rot \in DOMAIN dir' /\ dir'[rot] = dir[base]
      /\ base \notin DOMAIN dir => dir' = dir
      /\ dir' = [n \in DOMAIN dir' |-> dir'[n]]
  <2>1. CASE base \in DOMAIN dir
    BY <1>4, <1>5, <2>1
  <2>2. CASE base \notin DOMAIN dir
    BY <1>4, <1>5, <2>2 DEF StoreInv, StoreShape
  <2> QED BY <2>1, <2>2
<1> HIDE <1>5
<1>7. \A v \in Writers : HasOpen(v)' <=> HasOpen(v)
  BY <1>1 DEF HasOpen
<1>8. StoreShape'
  <2>1. \A v \in Writers : pc'[v] = "rename" => sfx[v] > 0
    BY <1>1 DEF StoreInv, StoreShape
  <2>2. \A v \in Writers : pc'[v] # "idle" => ev[v] > 0
    BY <1>1 DEF StoreInv, StoreShape
  <2>3. \A v \in Writers : pc'[v] = "stat" => atEnd[v]
    BY <1>1 DEF StoreInv, StoreShape
  <2>4. IsFiniteSet(DOMAIN dir')
    <3>1. IsFiniteSet(DOMAIN dir \cup {rot})
      BY FS_AddElement DEF StoreInv, StoreShape
    <3> QED BY <1>6, <3>1, FS_Subset
  <2>5. DOMAIN dir' \subseteq Names
    BY <1>4, <1>6 DEF StoreInv, StoreShape
  <2>6. dir' \in [DOMAIN dir' -> Inodes]
    <3>1. \A n \in DOMAIN dir' : dir'[n] \in Inodes
      BY <1>6 DEF StoreInv, StoreShape
    <3> QED BY <1>6, <3>1
  <2> QED BY <1>1, <1>2, <1>7, <2>1, <2>2, <2>3, <2>4, <2>5, <2>6 DEF StoreInv, StoreShape, Inodes
<1>9. Owned'
  <2>1. \A n \in DOMAIN dir' : n = rot \/ (n \in DOMAIN dir /\ n # base /\ dir'[n] = dir[n])
    BY <1>6
  <2>2. rot \in DOMAIN dir' /\ base \notin DOMAIN dir => dir'[rot] = dir[rot] /\ rot \in DOMAIN dir
    BY <1>6
  <2>3. \A m, n \in DOMAIN dir' : dir'[m] = dir'[n] => m = n
    BY <1>6, <2>1, <2>2 DEF StoreInv, Owned
  <2>4. ASSUME NEW v \in Writers, HasOpen(v), NEW n \in DOMAIN dir', dir'[n] = fd[v]
        PROVE  n[1] = ConnOf[v]
    BY <1>4, <1>6, <2>1, <2>2, <2>4 DEF StoreInv, Owned
  <2> QED BY <1>2, <1>7, <2>3, <2>4 DEF StoreInv, Owned
<1>10. ASSUME ~overlapped' PROVE /\ ~overlapped /\ ~Overlap' /\ RotatesAlone /\ NothingLost
                                 /\ rot \notin DOMAIN dir
  BY <1>1, <1>3, <1>10 DEF StoreInv, RotatesAlone, Rotated
<1>11. ASSUME ~overlapped', NEW v \in Writers, v # w, ConnOf[v] = ConnOf[w]
       PROVE  ~HasOpen(v)
  BY <1>1, <1>10, <1>11 DEF RotatesAlone, Overlap, Rotating, HasOpen
<1>12. ASSUME ~overlapped' PROVE RotatesAlone'
  <2>1. ASSUME NEW v \in Writers, pc'[v] = "rename" PROVE Rotated(v) \notin DOMAIN dir'
    <3>1. v # w /\ pc[v] = "rename" /\ HasOpen(v)
      BY <1>1, <2>1 DEF HasOpen
    <3>2. ConnOf[v] # ConnOf[w]
      BY <1>11, <1>12, <3>1
    <3>3. Rotated(v) # rot
      BY <1>4, <3>2, NameIs DEF Rotated, StoreInv, StoreShape
    <3> QED BY <1>6, <1>10, <1>12, <3>1, <3>3 DEF RotatesAlone
  <2>2. ASSUME NEW v \in Writers, pc'[v] = "reopen" PROVE Base(v) \notin DOMAIN dir'
    <3>1. CASE v = w
      BY <1>3, <1>6, <3>1
    <3>2. CASE v # w
      <4>1. Base(v) # rot
        BY <1>4, NameIs
      <4> QED BY <1>1, <1>6, <1>10, <1>12, <2>2, <3>2, <4>1 DEF RotatesAlone
    <3> QED BY <3>1, <3>2
  <2>3. \A v \in Writers : pc'[v] = "write" /\ ~atEnd[v] => data[fd[v]] = <<>>
    BY <1>1, <1>10, <1>12 DEF RotatesAlone
  <2> QED BY <1>2, <1>10, <1>12, <2>1, <2>2, <2>3 DEF RotatesAlone, Rotated, Base
<1>13. ASSUME ~overlapped' PROVE NothingLost'
  <2>1. ASSUME NEW i \in Inodes PROVE i \in swept \/ \E n \in DOMAIN dir' : dir'[n] = i
    <3>1. CASE i \in swept
      BY <3>1
    <3>2. CASE i \notin swept
      <4>1. PICK n \in DOMAIN dir : dir[n] = i
        BY <1>10, <1>13, <3>2 DEF NothingLost
      <4>2. CASE n = base
        BY <1>6, <4>1, <4>2
      <4>3. CASE n # base
        BY <1>6, <1>10, <1>13, <4>1, <4>3
      <4> QED BY <4>2, <4>3
    <3> QED BY <3>1, <3>2
  <2> QED BY <1>2, <1>10, <1>13, <2>1 DEF NothingLost, Inodes
<1>14. ASSUME ~overlapped', swept' = {} PROVE WritersAtBase' /\ NoGaps' /\ InTime'
  <2>1. WritersAtBase /\ NoGaps /\ InTime
    BY <1>2, <1>10, <1>14 DEF StoreInv
  <2>2. WritersAtBase'
    <3>1. ASSUME NEW v \in Writers, HasOpen(v), pc'[v] # "reopen"
          PROVE  Base(v) \in DOMAIN dir' /\ dir'[Base(v)] = fd[v]
      <4>1. v # w /\ pc[v] # "reopen"
        BY <1>1, <3>1
      <4>2. ConnOf[v] # ConnOf[w]
        BY <1>11, <1>14, <3>1, <4>1
      <4>3. Base(v) # base /\ Base(v) # rot
        BY <1>4, <4>2, NameIs
      <4> QED BY <1>6, <2>1, <3>1, <4>1, <4>3 DEF WritersAtBase
    <3> QED BY <1>2, <1>7, <3>1 DEF WritersAtBase, Base
  <2>3. base \in DOMAIN dir
    BY <1>1, <1>3, <2>1 DEF WritersAtBase, HasOpen
  <2>4. ASSUME NEW c, NEW j \in Nat, j > 0, FileAt(c, j) PROVE FileAt(c, j)'
    <3>1. <<c, j>>[2] = j
      OBVIOUS
    <3>2. <<c, j>> # base
      BY <1>4, <2>4, <3>1
    <3> QED BY <1>6, <2>4, <3>2 DEF FileAt
  <2>5. NoGaps'
    <3>1. ASSUME NEW v \in Writers, pc'[v] = "rename", NEW j \in 1..(sfx[v] - 1)
          PROVE  FileAt(ConnOf[v], j)'
      <4>1. pc[v] = "rename" /\ sfx[v] \in Nat
        BY <1>1, <3>1 DEF StoreInv, StoreShape
      <4>2. j \in Nat /\ j > 0 /\ FileAt(ConnOf[v], j)
        BY <2>1, <4>1 DEF NoGaps
      <4> QED BY <2>4, <4>2
    <3>2. ASSUME NEW n \in DOMAIN dir', NEW j \in 1..n[2] PROVE FileAt(n[1], j)'
      <4>1. CASE n = rot
        <5>1. CASE j = sfx[w]
          BY <1>3, <1>4, <1>6, <2>3, <4>1, <5>1 DEF FileAt
        <5>2. CASE j # sfx[w]
          <6>1. j \in Nat /\ j > 0 /\ j \in 1..(sfx[w] - 1)
            BY <1>4, <4>1, <5>2
          <6>2. FileAt(ConnOf[w], j)
            BY <1>1, <2>1, <6>1 DEF NoGaps
          <6> QED BY <1>4, <2>4, <4>1, <6>1, <6>2
        <5> QED BY <5>1, <5>2
      <4>2. CASE n # rot
        <5>1. n \in DOMAIN dir /\ n[2] \in Nat
          BY <1>6, <4>2, NameIs DEF StoreInv, StoreShape
        <5>2. j \in Nat /\ j > 0 /\ FileAt(n[1], j)
          BY <2>1, <5>1 DEF NoGaps
        <5> QED BY <2>4, <5>2
      <4> QED BY <4>1, <4>2
    <3> QED BY <1>2, <3>1, <3>2 DEF NoGaps
  <2>6. InTime'
    <3> SUFFICES ASSUME NEW m \in DOMAIN dir', NEW n \in DOMAIN dir', m[1] = n[1],
                        n[2] = 0 \/ (m[2] > 0 /\ m[2] < n[2])
                 PROVE  mtime[dir'[m]] <= mtime[dir'[n]]
      BY <1>2 DEF InTime
    <3>1. /\ m \in Names /\ n \in Names
          /\ m # rot => m \in DOMAIN dir /\ dir'[m] = dir[m]
          /\ n # rot => n \in DOMAIN dir /\ dir'[n] = dir[n]
      BY <1>6, <1>8 DEF StoreShape
    <3>2. dir'[rot] = dir[base] /\ \A x \in DOMAIN dir : mtime[dir[x]] \in Nat
      <4>1. DOMAIN mtime = Inodes
        BY LenProperties DEF StoreInv, StoreShape, Inodes
      <4> QED BY <1>6, <2>3, <4>1, ElementOfSeq, LenProperties DEF StoreInv, StoreShape, Inodes
    <3>3. CASE m = rot
      <4>1. n[2] # 0
        <5> SUFFICES ASSUME n[2] = 0 PROVE FALSE
          OBVIOUS
        <5>1. n = base
          BY <1>3, <1>4, <3>1, <3>3, NameIs
        <5> QED BY <1>6, <5>1
      <4>2. n # rot /\ sfx[w] \in 1..n[2]
        BY <1>4, <3>1, <3>3, <4>1, NameIs
      <4>3. FileAt(n[1], sfx[w])
        BY <2>1, <3>1, <4>2 DEF NoGaps
      <4> QED BY <1>3, <1>4, <1>10, <1>14, <3>3, <4>3 DEF FileAt
    <3>4. CASE m # rot /\ n = rot
      BY <1>4, <2>1, <2>3, <3>1, <3>2, <3>4 DEF InTime
    <3>5. CASE m # rot /\ n # rot
      BY <2>1, <3>1, <3>5 DEF InTime
    <3> QED BY <3>3, <3>4, <3>5
  <2> QED BY <2>2, <2>5, <2>6
<1>15. overlapped' \in BOOLEAN
  OBVIOUS
<1> QED BY <1>8, <1>9, <1>12, <1>13, <1>14, <1>15 DEF StoreInv

(* Changes to one file that is there.                                      *)
LEMMA Rewritten ==
  ASSUME StoreShape, NEW i \in Inodes, NEW s \in Seq(Nat), ToSet(s) \subseteq 1..now,
         data' = [data EXCEPT ![i] = s], mtime' = [mtime EXCEPT ![i] = now]
  PROVE  /\ data' \in Seq(Seq(Nat)) /\ Len(data') = Len(data) /\ Inodes' = Inodes
         /\ mtime' \in Seq(Nat) /\ Len(mtime') = Len(data)
         /\ data'[i] = s /\ mtime'[i] = now
         /\ \A k \in Inodes : k # i => data'[k] = data[k] /\ mtime'[k] = mtime[k]
         /\ \A k \in Inodes : ToSet(data'[k]) \subseteq 1..now /\ mtime'[k] <= now
<1>1. /\ now \in Nat /\ Len(data) \in Nat /\ Inodes = 1..Len(data)
      /\ DOMAIN mtime = Inodes /\ \A k \in Inodes : mtime[k] \in Nat
  BY StoreAssumption, LenProperties, ElementOfSeq DEF StoreShape, StoreAssumption, Inodes
<1>2. data' \in Seq(Seq(Nat)) /\ Len(data') = Len(data) /\ Inodes' = Inodes
  BY ExceptSeq DEF StoreShape, Inodes
<1>3. mtime' \in Seq(Nat) /\ Len(mtime') = Len(data)
  BY <1>1, ExceptSeq DEF StoreShape
<1>4. /\ data'[i] = s /\ mtime'[i] = now
      /\ \A k \in Inodes : k # i => data'[k] = data[k] /\ mtime'[k] = mtime[k]
  BY <1>1 DEF Inodes
<1>5. ASSUME NEW k \in Inodes PROVE ToSet(data'[k]) \subseteq 1..now /\ mtime'[k] <= now
  <2>1. CASE k = i
    BY <1>1, <1>4, <2>1
  <2>2. CASE k # i
    BY <1>4, <2>2 DEF StoreShape
  <2> QED BY <2>1, <2>2
<1> QED BY <1>2, <1>3, <1>4, <1>5

(* A file that is opened anew is created, unless rotations have met.       *)
LEMMA ReopenKeeps ==
  ASSUME StoreInv, NEW w \in Writers, Reopen(w), overlapped' = (overlapped \/ Overlap')
  PROVE  StoreInv'
<1>1. CASE Create(w)
  <2>1. Goto(w, "reopen", "write") /\ atEnd' = [atEnd EXCEPT ![w] = ("write" = "stat")]
    BY DEF Reopen
  <2> QED BY <1>1, <2>1, CreateKeeps DEF Reopen
<1>2. CASE ~Create(w)
  <2>1. PICK i : i = dir[Base(w)]
    OBVIOUS
  <2>2. /\ Base(w) \in DOMAIN dir /\ fd' = [fd EXCEPT ![w] = i] /\ dir' = dir
        /\ data' = [data EXCEPT ![i] = <<>>] /\ mtime' = [mtime EXCEPT ![i] = now]
        /\ UNCHANGED <<now, ev, sfx, stored, swept>>
    BY <1>2, <2>1 DEF Reopen
  <2>3. /\ pc[w] = "reopen" /\ pc' \in [Writers -> Places] /\ pc'[w] = "write"
        /\ \A v \in Writers : v # w => pc'[v] = pc[v]
    BY Moved DEF StoreInv, Places, Reopen
  <2>4. i \in Inodes /\ i \in 1..Len(data) /\ Len(data) \in Nat
    BY <2>1, <2>2, LenProperties DEF StoreInv, StoreShape, Inodes
  <2>5. <<>> \in Seq(Nat) /\ ToSet(<<>>) \subseteq 1..now
    BY EventAdded, EmptySeq
  <2>6. /\ data' \in Seq(Seq(Nat)) /\ Len(data') = Len(data) /\ Inodes' = Inodes
        /\ mtime' \in Seq(Nat) /\ Len(mtime') = Len(data)
        /\ \A k \in Inodes : ToSet(data'[k]) \subseteq 1..now /\ mtime'[k] <= now
    BY <2>2, <2>4, <2>5, Rewritten DEF StoreInv
  <2>7. /\ fd' \in [Writers -> 0..Len(data)] /\ fd'[w] = i
        /\ \A v \in Writers : v # w => fd'[v] = fd[v]
    BY <2>2, <2>4 DEF StoreInv, StoreShape
  <2>8. /\ atEnd' \in [Writers -> BOOLEAN]
        /\ \A v \in Writers : v # w => atEnd'[v] = atEnd[v]
    BY DEF StoreInv, StoreShape, Reopen
  <2>9. \A v \in Writers : HasOpen(v)' <=> HasOpen(v)
    BY <2>3 DEF HasOpen
  <2>10. StoreShape'
    <3>1. \A v \in Writers : HasOpen(v)' => fd'[v] > 0
      <4> SUFFICES ASSUME NEW v \in Writers, HasOpen(v)' PROVE fd'[v] > 0
        OBVIOUS
      <4>1. CASE v = w
        BY <2>4, <2>7, <4>1
      <4>2. CASE v # w
        BY <2>7, <2>9, <4>2 DEF StoreInv, StoreShape
      <4> QED BY <4>1, <4>2
    <3>2. \A v \in Writers : pc'[v] = "stat" => atEnd'[v]
      BY <2>3, <2>8 DEF StoreInv, StoreShape
    <3>3. \A v \in Writers : pc'[v] = "rename" => sfx[v] > 0
      BY <2>3 DEF StoreInv, StoreShape
    <3>4. \A v \in Writers : pc'[v] # "idle" => ev[v] > 0
      BY <2>3 DEF StoreInv, StoreShape
    <3> QED BY <2>2, <2>3, <2>6, <2>7, <2>8, <3>1, <3>2, <3>3, <3>4 DEF StoreInv, StoreShape
  <2>11. Owned'
    <3>1. ASSUME NEW v \in Writers, HasOpen(v)', NEW n \in DOMAIN dir, dir[n] = fd'[v]
          PROVE  n[1] = ConnOf[v]
      <4>1. CASE v = w
        BY <2>1, <2>2, <2>7, <3>1, <4>1, NameIs DEF StoreInv, Owned
      <4>2. CASE v # w
        BY <2>7, <2>9, <3>1, <4>2 DEF StoreInv, Owned
      <4> QED BY <4>1, <4>2
    <3>2. \A u, v \in Writers : HasOpen(u)' /\ HasOpen(v)' /\ fd'[u] = fd'[v] => ConnOf[u] = ConnOf[v]
      BY <2>1, <2>2, <2>7, <2>9, NameIs DEF StoreInv, Owned
    <3> QED BY <2>2, <3>1, <3>2 DEF StoreInv, Owned
  <2>12. overlapped' \in BOOLEAN
    OBVIOUS
  <2>13. overlapped'
    BY <2>2, <2>3 DEF StoreInv, RotatesAlone
  <2> QED BY <2>10, <2>11, <2>12, <2>13 DEF StoreInv
<1> QED BY <1>1, <1>2

LEMMA WriteKeeps ==
  ASSUME StoreInv, NEW w \in Writers, Write(w), overlapped' = (overlapped \/ Overlap')
  PROVE  StoreInv'
<1>1. /\ pc[w] = "write" /\ pc' \in [Writers -> Places] /\ pc'[w] = "idle"
      /\ \A v \in Writers : v # w => pc'[v] = pc[v]
  BY Moved DEF StoreInv, Places, Write
<1>2. UNCHANGED <<now, dir, ev, fd, atEnd, sfx, swept>>
  BY DEF Write
<1>3. PICK i, e, old : i = fd[w] /\ e = ev[w] /\ old = data[i]
  OBVIOUS
<1>4. /\ i \in Inodes /\ i \in 1..Len(data) /\ Len(data) \in Nat /\ e \in 1..now /\ e \in Nat
      /\ now \in Nat /\ old \in Seq(Nat) /\ ToSet(old) \subseteq 1..now
  <2>1. i \in 1..Len(data) /\ Len(data) \in Nat /\ e \in 1..now /\ e \in Nat /\ now \in Nat
    <3>1. now \in Nat /\ Len(data) \in Nat
      BY LenProperties, StoreAssumption DEF StoreInv, StoreShape, StoreAssumption
    <3>2. HasOpen(w) /\ fd[w] \in 0..Len(data) /\ fd[w] > 0
      BY <1>1 DEF StoreInv, StoreShape, HasOpen
    <3>3. ev[w] \in 0..now /\ ev[w] > 0
      BY <1>1 DEF StoreInv, StoreShape
    <3> QED BY <1>3, <3>1, <3>2, <3>3
  <2>2. i \in Inodes
    BY <2>1, LenProperties DEF StoreInv, StoreShape, Inodes
  <2> QED BY <1>3, <2>1, <2>2, ElementOfSeq DEF StoreInv, StoreShape
<1>5. PICK s : s = IF atEnd[w] \/ old = <<>> THEN Append(old, e) ELSE [old EXCEPT ![1] = e]
  OBVIOUS
<1>6. data' = [data EXCEPT ![i] = s] /\ mtime' = [mtime EXCEPT ![i] = now] /\ stored' = stored \cup {e}
  BY <1>3, <1>4, <1>5 DEF Write, Inodes
<1>7. s \in Seq(Nat) /\ ToSet(s) \subseteq ToSet(old) \cup {e}
  <2>1. CASE atEnd[w] \/ old = <<>>
    BY <1>4, <1>5, <2>1, EventAdded
  <2>2. CASE ~(atEnd[w] \/ old = <<>>)
    <3>1. s = [old EXCEPT ![1] = e] /\ 1 \in 1..Len(old) /\ DOMAIN old = 1..Len(old)
      BY <1>4, <1>5, <2>2, LenProperties, EmptySeq
    <3>2. s \in Seq(Nat)
      BY <1>4, <3>1, ExceptSeq
    <3>3. DOMAIN s = DOMAIN old /\ \A k \in DOMAIN s : s[k] = e \/ s[k] = old[k]
      BY <3>1
    <3> QED BY <3>2, <3>3 DEF ToSet
  <2> QED BY <2>1, <2>2
<1>8. ToSet(s) \subseteq 1..now
  BY <1>4, <1>7
<1>9. /\ data' \in Seq(Seq(Nat)) /\ Len(data') = Len(data) /\ Inodes' = Inodes
      /\ mtime' \in Seq(Nat) /\ Len(mtime') = Len(data)
      /\ data'[i] = s /\ mtime'[i] = now
      /\ \A k \in Inodes : k # i => data'[k] = data[k] /\ mtime'[k] = mtime[k]
      /\ \A k \in Inodes : ToSet(data'[k]) \subseteq 1..now /\ mtime'[k] <= now
  BY <1>4, <1>6, <1>7, <1>8, Rewritten DEF StoreInv
<1>10. \A v \in Writers : HasOpen(v)' => v # w /\ HasOpen(v)
  BY <1>1 DEF HasOpen
<1>11. StoreShape'
  <2>1. \A v \in Writers : HasOpen(v)' => fd[v] > 0
    BY <1>10 DEF StoreInv, StoreShape
  <2>2. \A v \in Writers : pc'[v] = "stat" => atEnd[v]
    BY <1>1 DEF StoreInv, StoreShape
  <2>3. \A v \in Writers : pc'[v] = "rename" => sfx[v] > 0
    BY <1>1 DEF StoreInv, StoreShape
  <2>4. \A v \in Writers : pc'[v] # "idle" => ev[v] > 0
    BY <1>1 DEF StoreInv, StoreShape
  <2> QED BY <1>1, <1>2, <1>9, <2>1, <2>2, <2>3, <2>4 DEF StoreInv, StoreShape
<1>12. Owned'
  BY <1>2, <1>10 DEF StoreInv, Owned
<1>13. ASSUME ~overlapped' PROVE /\ ~overlapped /\ ~Overlap' /\ RotatesAlone /\ NothingLost
                                 /\ ToSet(s) = ToSet(old) \cup {e}
  <2>1. ~overlapped /\ ~Overlap' /\ RotatesAlone /\ NothingLost
    BY <1>13 DEF StoreInv
  <2>2. atEnd[w] \/ old = <<>>
    BY <1>1, <1>3, <2>1 DEF RotatesAlone
  <2> QED BY <1>4, <1>5, <2>1, <2>2, EventAdded
<1>14. ASSUME ~overlapped' PROVE RotatesAlone'
  <2>1. ASSUME NEW v \in Writers, pc'[v] = "write", ~atEnd[v] PROVE data'[fd[v]] = <<>>
    <3>1. v # w /\ pc[v] = "write" /\ HasOpen(v) /\ HasOpen(w) /\ Rotating(v)
      BY <1>1, <2>1 DEF HasOpen, Rotating
    <3>2. ConnOf[v] # ConnOf[w]
      BY <1>13, <1>14, <3>1 DEF RotatesAlone, Overlap, HasOpen
    <3>3. fd[v] # i
      BY <1>3, <3>1, <3>2 DEF StoreInv, Owned
    <3>4. fd[v] \in Inodes
      BY <3>1, LenProperties DEF StoreInv, StoreShape, Inodes
    <3> QED BY <1>9, <1>13, <1>14, <2>1, <3>1, <3>3, <3>4 DEF RotatesAlone
  <2> QED BY <1>1, <1>2, <1>13, <1>14, <2>1 DEF RotatesAlone, Rotated, Base
<1>15. ASSUME ~overlapped' PROVE NothingLost'
  <2>1. ASSUME NEW d \in stored' PROVE \E k \in Inodes : d \in ToSet(data'[k])
    <3>1. CASE d = e
      BY <1>4, <1>9, <1>13, <1>15, <3>1
    <3>2. CASE d # e
      <4>1. PICK k \in Inodes : d \in ToSet(data[k])
        BY <1>6, <1>13, <1>15, <2>1, <3>2 DEF NothingLost
      <4>2. ToSet(data[k]) \subseteq ToSet(data'[k])
        BY <1>3, <1>9, <1>13, <1>15
      <4> QED BY <4>1, <4>2
    <3> QED BY <3>1, <3>2
  <2> QED BY <1>2, <1>9, <1>13, <1>15, <2>1 DEF NothingLost
<1>16. ASSUME ~overlapped', swept' = {} PROVE WritersAtBase' /\ NoGaps' /\ InTime'
  <2>1. WritersAtBase /\ NoGaps /\ InTime
    BY <1>2, <1>13, <1>16 DEF StoreInv
  <2>2. WritersAtBase'
    <3>1. \A v \in Writers : HasOpen(v)' /\ pc'[v] # "reopen" => HasOpen(v) /\ pc[v] # "reopen"
      BY <1>1, <1>10
    <3> QED BY <1>2, <2>1, <3>1 DEF WritersAtBase, Base
  <2>3. NoGaps'
    BY <1>1, <1>2, <2>1 DEF NoGaps, FileAt
  <2>4. InTime'
    <3> SUFFICES ASSUME NEW m \in DOMAIN dir, NEW n \in DOMAIN dir, m[1] = n[1],
                        n[2] = 0 \/ (m[2] > 0 /\ m[2] < n[2])
                 PROVE  mtime'[dir[m]] <= mtime'[dir[n]]
      BY <1>2 DEF InTime
    <3>1. /\ m \in Names /\ n \in Names /\ dir[m] \in Inodes /\ dir[n] \in Inodes
          /\ mtime[dir[m]] <= mtime[dir[n]]
      BY <2>1 DEF StoreInv, StoreShape, InTime
    <3>2. Base(w) \in DOMAIN dir /\ dir[Base(w)] = i
      BY <1>1, <1>3, <2>1 DEF WritersAtBase, HasOpen
    <3>3. CASE dir[n] = i
      BY <1>9, <3>1, <3>3
    <3>4. CASE dir[n] # i /\ dir[m] = i
      <4>1. m = Base(w)
        BY <3>2, <3>4 DEF StoreInv, Owned
      <4>2. n # Base(w)
        BY <3>2, <3>4
      <4> QED BY <3>1, <4>1, <4>2, NameIs
    <3>5. CASE dir[n] # i /\ dir[m] # i
      BY <1>9, <3>1, <3>5
    <3> QED BY <3>3, <3>4, <3>5
  <2> QED BY <2>2, <2>3, <2>4
<1>17. overlapped' \in BOOLEAN
  OBVIOUS
<1> QED BY <1>11, <1>12, <1>14, <1>15, <1>16, <1>17 DEF StoreInv

LEMMA SweepKeeps ==
  ASSUME StoreInv, RemoveOld, overlapped' = (overlapped \/ Overlap')
  PROVE  StoreInv'
<1>1. /\ DOMAIN dir' = DOMAIN dir \ {victim} /\ \A n \in DOMAIN dir' : dir'[n] = dir[n]
      /\ dir' = [n \in DOMAIN dir' |-> dir'[n]]
      /\ swept' = swept \cup {dir[n] : n \in {victim} \cap DOMAIN dir}
      /\ UNCHANGED <<now, data, mtime, pc, ev, fd, atEnd, sfx, stored>>
  BY DEF RemoveOld, writer
<1>2. StoreShape'
  <2>1. IsFiniteSet(DOMAIN dir')
    BY <1>1, FS_Subset DEF StoreInv, StoreShape
  <2>2. dir' \in [DOMAIN dir' -> Inodes]
    <3>1. \A n \in DOMAIN dir' : dir'[n] \in Inodes
      BY <1>1 DEF StoreInv, StoreShape
    <3> QED BY <1>1, <3>1
  <2> QED BY <1>1, <2>1, <2>2 DEF StoreInv, StoreShape, Inodes, HasOpen
<1>3. Owned'
  BY <1>1 DEF StoreInv, Owned, HasOpen
<1>4. ASSUME ~overlapped' PROVE ~overlapped /\ ~Overlap' /\ RotatesAlone /\ NothingLost
  BY <1>4 DEF StoreInv
<1>5. ASSUME ~overlapped' PROVE RotatesAlone' /\ NothingLost'
  <2>1. RotatesAlone'
    BY <1>1, <1>4, <1>5 DEF RotatesAlone, Rotated, Base
  <2>2. \A i \in Inodes : i \in swept' \/ \E n \in DOMAIN dir' : dir'[n] = i
    BY <1>1, <1>4, <1>5 DEF NothingLost
  <2> QED BY <1>1, <1>4, <1>5, <2>1, <2>2 DEF NothingLost, Inodes
<1>6. ASSUME ~overlapped', swept' = {} PROVE WritersAtBase' /\ NoGaps' /\ InTime'
  <2>1. swept = {} /\ victim \notin DOMAIN dir
    BY <1>1, <1>6
  <2>2. dir' = dir
    <3>1. DOMAIN dir' = DOMAIN dir
      BY <1>1, <2>1
    <3>2. dir = [n \in DOMAIN dir |-> dir[n]]
      BY DEF StoreInv, StoreShape
    <3>3. dir' = [n \in DOMAIN dir |-> dir[n]]
      BY <2>1 DEF RemoveOld
    <3> QED BY <3>2, <3>3
  <2> QED BY <1>1, <1>4, <1>6, <2>1, <2>2
          DEF StoreInv, WritersAtBase, NoGaps, InTime, Base, FileAt, HasOpen
<1>7. overlapped' \in BOOLEAN
  BY DEF StoreInv
<1> QED BY <1>2, <1>3, <1>5, <1>6, <1>7 DEF StoreInv

LEMMA RestartKeeps ==
  ASSUME StoreInv, Restart, overlapped' = (overlapped \/ Overlap')
  PROVE  StoreInv'
<1>1. /\ \A v \in Writers : pc'[v] = "idle" /\ ~HasOpen(v)'
      /\ UNCHANGED <<now, dir, data, mtime, stored, swept>>
  BY DEF Restart, files, HasOpen
<1>2. StoreShape'
  <2>1. now \in Nat /\ Len(data) \in Nat
    BY LenProperties, StoreAssumption DEF StoreInv, StoreShape, StoreAssumption
  <2>2. /\ pc' \in [Writers -> Places] /\ ev' \in [Writers -> 0..now] /\ fd' \in [Writers -> 0..Len(data)]
        /\ atEnd' \in [Writers -> BOOLEAN] /\ sfx' \in [Writers -> Nat]
    BY <2>1 DEF Restart, Places
  <2> QED BY <1>1, <2>2 DEF StoreInv, StoreShape, Inodes
<1>3. Owned'
  BY <1>1 DEF StoreInv, Owned
<1>4. ASSUME ~overlapped' PROVE ~overlapped /\ ~Overlap' /\ RotatesAlone /\ NothingLost
  BY <1>4 DEF StoreInv
<1>5. ASSUME ~overlapped' PROVE RotatesAlone' /\ NothingLost'
  <2>1. RotatesAlone'
    BY <1>1, <1>4, <1>5 DEF RotatesAlone
  <2> QED BY <1>1, <1>4, <1>5, <2>1 DEF NothingLost, Inodes
<1>6. ASSUME ~overlapped', swept' = {} PROVE WritersAtBase' /\ NoGaps' /\ InTime'
  <2>1. NoGaps /\ InTime
    BY <1>1, <1>4, <1>6 DEF StoreInv
  <2> QED BY <1>1, <2>1 DEF WritersAtBase, NoGaps, InTime, FileAt
<1>7. overlapped' \in BOOLEAN
  BY DEF StoreInv
<1> QED BY <1>2, <1>3, <1>5, <1>6, <1>7 DEF StoreInv

LEMMA StoreStutters ==
  ASSUME StoreInv, UNCHANGED <<now, dir, data, mtime, pc, ev, fd, atEnd, sfx, stored, swept>>,
         overlapped' = (overlapped \/ Overlap') \/ overlapped' = overlapped
  PROVE  StoreInv'
<1>1. StoreShape' /\ Owned'
  BY DEF StoreInv, StoreShape, Owned, Inodes, HasOpen
<1>2. Overlap' <=> Overlap
  BY DEF Overlap, Rotating
<1>3. overlapped' \in BOOLEAN /\ (~overlapped' => ~overlapped)
  BY DEF StoreInv
<1>4. (RotatesAlone => RotatesAlone') /\ (NothingLost => NothingLost')
  BY <1>2 DEF RotatesAlone, NothingLost, Rotated, Base, Inodes
<1>5. WritersAtBase /\ NoGaps /\ InTime => WritersAtBase' /\ NoGaps' /\ InTime'
  BY DEF WritersAtBase, NoGaps, InTime, Base, FileAt, HasOpen
<1> QED BY <1>1, <1>3, <1>4, <1>5 DEF StoreInv

LEMMA StoreKeeps == StoreInv /\ [StoreNext]_storeVars => StoreInv'
<1> SUFFICES ASSUME StoreInv, [StoreNext]_storeVars PROVE StoreInv'
  OBVIOUS
<1>1. CASE UNCHANGED storeVars
  BY <1>1, StoreStutters DEF storeVars
<1>2. CASE StoreNext
  <2>1. overlapped' = (overlapped \/ Overlap') /\ Step
    BY <1>2 DEF StoreNext
  <2>2. now \in Nat /\ now <= MaxEvents /\ MaxEvents \in Nat /\ now \in now..MaxEvents
    BY StoreAssumption DEF StoreInv, StoreShape, StoreAssumption
  <2>3. ASSUME NEW w \in Writers, Stamp(w) PROVE StoreInv'
    <3>1. /\ Goto(w, "idle", "add") /\ now' = now + 1 /\ now < MaxEvents /\ ev' = [ev EXCEPT ![w] = now']
          /\ UNCHANGED <<files, fd, atEnd, sfx, stored, swept>>
      BY <2>3 DEF Stamp
    <3>2. now' \in now..MaxEvents /\ now' > 0
      BY <2>2, <3>1
    <3>3. /\ ev' \in [Writers -> 0..now'] /\ ev'[w] = now'
          /\ \A v \in Writers : v # w => ev'[v] = ev[v]
      BY <2>2, <3>1, <3>2 DEF StoreInv, StoreShape
    <3>4. \A v \in Writers : pc'[v] # "idle" => ev'[v] > 0
      <4> SUFFICES ASSUME NEW v \in Writers, pc'[v] # "idle" PROVE ev'[v] > 0
        OBVIOUS
      <4>1. CASE v = w
        BY <3>2, <3>3, <4>1
      <4>2. CASE v # w
        BY <3>1, <3>3, <4>2 DEF Goto, StoreInv, StoreShape
      <4> QED BY <4>1, <4>2
    <3> QED BY <2>1, <3>1, <3>2, <3>3, <3>4, StepsAside
  <2>4. ASSUME NEW w \in Writers, AddEvent(w) PROVE StoreInv'
    <3>1. Goto(w, "add", "open") /\ UNCHANGED <<now, ev, files, fd, atEnd, sfx, stored, swept>>
      BY <2>4 DEF AddEvent
    <3>2. \A v \in Writers : pc'[v] # "idle" => ev'[v] > 0
      BY <3>1 DEF Goto, StoreInv, StoreShape
    <3>3. ev' \in [Writers -> 0..now']
      BY <3>1 DEF StoreInv, StoreShape
    <3> QED BY <2>1, <2>2, <3>1, <3>2, <3>3, StepsAside
  <2>5. ASSUME NEW w \in Writers, StatSize(w) PROVE StoreInv'
    <3>1. PICK to \in {"suffix", "write"} : Goto(w, "stat", to)
      BY <2>5 DEF StatSize
    <3>2. UNCHANGED <<now, ev, files, fd, atEnd, sfx, stored, swept>>
      BY <2>5 DEF StatSize
    <3>3. \A v \in Writers : pc'[v] # "idle" => ev'[v] > 0
      BY <3>1, <3>2 DEF Goto, StoreInv, StoreShape
    <3>4. ev' \in [Writers -> 0..now']
      BY <3>2 DEF StoreInv, StoreShape
    <3> QED BY <2>1, <2>2, <3>1, <3>2, <3>3, <3>4, StepsAside
  <2>6. ASSUME NEW n \in DOMAIN dir, FindOld(n) PROVE StoreInv'
    BY <2>1, <2>6, StoreStutters DEF FindOld, files, writer
  <2> QED BY <2>1, <2>3, <2>4, <2>5, <2>6, OpenKeeps, FindSuffixKeeps, RenameKeeps, ReopenKeeps,
             WriteKeeps, SweepKeeps, RestartKeeps DEF Step
<1> QED BY <1>1, <1>2

LEMMA StoreStarts == StoreInit => StoreInv
<1> SUFFICES ASSUME StoreInit PROVE StoreInv
  OBVIOUS
<1>1. /\ now = 0 /\ dir = <<>> /\ data = <<>> /\ mtime = <<>> /\ stored = {} /\ overlapped = FALSE
      /\ \A w \in Writers : pc[w] = "idle"
  BY DEF StoreInit
<1>2. DOMAIN dir = {} /\ Inodes = {} /\ Len(data) = 0 /\ Len(mtime) = 0
  BY <1>1 DEF Inodes
<1>3. StoreShape
  <2>1. data \in Seq(Seq(Nat)) /\ mtime \in Seq(Nat) /\ IsFiniteSet(DOMAIN dir)
    BY <1>1, <1>2, EmptySeq, FS_EmptySet
  <2>2. dir \in [DOMAIN dir -> Inodes]
    BY <1>1, <1>2
  <2>3. now \in 0..MaxEvents
    BY <1>1, StoreAssumption DEF StoreAssumption
  <2>4. /\ pc \in [Writers -> Places] /\ ev \in [Writers -> 0..now] /\ fd \in [Writers -> 0..Len(data)]
        /\ atEnd \in [Writers -> BOOLEAN] /\ sfx \in [Writers -> Nat]
    BY <1>1, <1>2 DEF StoreInit, Places
  <2> QED BY <1>1, <1>2, <2>1, <2>2, <2>3, <2>4 DEF StoreShape, HasOpen
<1>4. Owned /\ ~Overlap
  BY <1>1, <1>2 DEF Owned, Overlap, Rotating, HasOpen
<1>5. RotatesAlone /\ NothingLost /\ WritersAtBase /\ NoGaps /\ InTime
  BY <1>1, <1>2, <1>4 DEF RotatesAlone, NothingLost, WritersAtBase, NoGaps, InTime, HasOpen
<1> QED BY <1>1, <1>3, <1>4, <1>5 DEF StoreInv

LEMMA StoreInvariance == StoreSpec => []StoreInv
BY StoreStarts, StoreKeeps, PTL DEF StoreSpec

(* What a writer has written stays in a file of the tunnel, until the      *)
(* sweep: through every interleaving of the steps of appendJSONL in which  *)
(* no rotation meets another writer, and through restarts anywhere.        *)
THEOREM WrittenIsKept == StoreSpec => []Kept
<1>1. StoreInv => Kept
  <2> SUFFICES ASSUME StoreInv, ~overlapped, NEW e \in stored
               PROVE  e \in InFiles(DOMAIN dir) \cup UNION {ToSet(data[i]) : i \in swept}
    BY DEF Kept
  <2>1. PICK i \in Inodes : e \in ToSet(data[i])
    BY DEF StoreInv, NothingLost
  <2>2. i \in swept \/ \E n \in DOMAIN dir : dir[n] = i
    BY DEF StoreInv, NothingLost
  <2> QED BY <2>1, <2>2 DEF InFiles
<1> QED BY <1>1, StoreInvariance, PTL

(* A connection's suffixes have no gaps, so there is a last of them.       *)
LEMMA LastSuffix ==
  ASSUME StoreShape, NoGaps, NEW c, SuffixesOf(c) # {}
  PROVE  \E i \in SuffixesOf(c) : \A j \in SuffixesOf(c) : j <= i
<1>1. IsFiniteSet(SuffixesOf(c)) /\ SuffixesOf(c) \subseteq Nat
  BY SuffixFound
<1>2. PICK m : m = Cardinality(SuffixesOf(c)) /\ m \in Nat
  BY <1>1, FS_CardinalityType
<1>3. ASSUME NEW i \in SuffixesOf(c) PROVE i \in 0..m
  <2>1. PICK n \in DOMAIN dir : n[1] = c /\ n[2] = i
    BY DEF SuffixesOf
  <2>2. i \in Nat
    BY <1>1
  <2>3. \A j \in 1..i : <<c, j>> \in DOMAIN dir /\ <<c, j>>[1] = c /\ <<c, j>>[2] = j
    BY <2>1, <2>2, NameIs DEF NoGaps, FileAt, StoreShape
  <2>4. 1..i \in SUBSET SuffixesOf(c)
    BY <2>3 DEF SuffixesOf
  <2>5. Cardinality(1..i) = i
    BY <2>2, FS_Interval
  <2> QED BY <1>1, <1>2, <2>2, <2>4, <2>5, FS_Subset
<1> QED BY <1>2, <1>3, Greatest

(* LatestLogFile picks the file written last, as long as no rotation met   *)
(* another writer and nothing was swept.                                   *)
THEOREM LatestWasWrittenLast == StoreSpec => []LatestIsLatest
<1>1. StoreInv => LatestIsLatest
  <2> SUFFICES ASSUME StoreInv, swept = {}, ~overlapped, NEW c \in Conns, NEW i \in SuffixesOf(c)
               PROVE  mtime[dir[<<c, i>>]] <= mtime[dir[LatestLogFile(c)]]
    BY DEF LatestIsLatest
  <2>1. StoreShape /\ NoGaps /\ InTime
    BY DEF StoreInv
  <2>2. SuffixesOf(c) \subseteq Nat
    BY <2>1, SuffixFound
  <2>3. PICK l : l = LatestLogFile(c)[2]
    OBVIOUS
  <2>4. LatestLogFile(c) = <<c, l>> /\ l \in SuffixesOf(c) /\ (l = 0 \/ \A j \in SuffixesOf(c) : j <= l)
    <3>1. CASE 0 \in SuffixesOf(c)
      BY <2>3, <3>1 DEF LatestLogFile
    <3>2. CASE 0 \notin SuffixesOf(c)
      <4>1. \E k \in SuffixesOf(c) : \A j \in SuffixesOf(c) : j <= k
        BY <2>1, LastSuffix
      <4> QED BY <2>3, <3>2, <4>1 DEF LatestLogFile
    <3> QED BY <3>1, <3>2
  <2>5. \A j \in SuffixesOf(c) : <<c, j>> \in DOMAIN dir /\ <<c, j>>[1] = c /\ <<c, j>>[2] = j
    <3> SUFFICES ASSUME NEW j \in SuffixesOf(c)
                 PROVE  <<c, j>> \in DOMAIN dir /\ <<c, j>>[1] = c /\ <<c, j>>[2] = j
      OBVIOUS
    <3>1. PICK n \in DOMAIN dir : n[1] = c /\ n[2] = j
      BY DEF SuffixesOf
    <3>2. n = <<c, j>>
      BY <2>1, <3>1, NameIs DEF StoreShape
    <3> QED BY <3>1, <3>2
  <2>6. CASE i = l
    <3>1. dir[<<c, i>>] \in DOMAIN mtime
      BY <2>1, <2>5, LenProperties DEF StoreShape, Inodes
    <3>2. mtime[dir[<<c, i>>]] \in Nat
      BY <2>1, <3>1, ElementOfSeq, LenProperties DEF StoreShape
    <3> QED BY <2>4, <2>6, <3>2
  <2>7. CASE i # l
    <3>1. l = 0 \/ (i > 0 /\ i < l) \/ i = 0
      BY <2>2, <2>4, <2>7
    <3>2. CASE i = 0
      BY <2>3, <2>7, <3>2 DEF LatestLogFile
    <3>3. CASE l = 0 \/ (i > 0 /\ i < l)
      BY <2>1, <2>4, <2>5, <3>3 DEF InTime
    <3> QED BY <3>1, <3>2, <3>3
  <2> QED BY <2>6, <2>7
<1> QED BY <1>1, StoreInvariance, PTL

-----------------------------------------------------------------------------
(* LogFiles.                                                               *)

Rotations == DOMAIN rotated
Follows(s, e) == \A d \in rotated[s] : d > e      \* the file is after the entry
Precedes(s, t) == \A d \in rotated[s] : Follows(t, d)
Gone == filed \ (OnDisk \cup overwritten)

LogShape ==
  /\ logPc \in {"idle", "write", "stat", "rename", "clean", "open", "recent", "none"}
  /\ entries \in 0..MaxEntries /\ (logPc \notin {"idle", "none"} => entries > 0)
  /\ filed \subseteq 1..entries /\ currentLog \subseteq filed
  /\ IsFiniteSet(Rotations) /\ Rotations \subseteq Seconds /\ second \in Seconds
  /\ \A s \in Rotations : rotated[s] \subseteq filed \ currentLog /\ rotated[s] # {}
  /\ logPc = "rename" => currentLog # {}
  /\ logPc = "write" => entries \notin filed

(* The files are of times that do not overlap, the current one last.       *)
FilesInOrder ==
  /\ \A e \in filed \ currentLog, d \in currentLog : e < d
  /\ \A s, t \in Rotations : s # t => Precedes(s, t) \/ Precedes(t, s)

LogInv == LogShape /\ FilesInOrder /\ OnlyOldestGo

RecentShape == recentLogs \in Seq(1..entries) /\ Len(recentLogs) <= MaxRecent

LEMMA EntriesAre ==
  ASSUME LogShape
  PROVE  /\ entries \in Nat /\ MaxEntries \in Nat /\ MaxLogFiles \in Nat
         /\ \A e \in filed : e \in Nat /\ e <= entries
         /\ \A s \in Rotations : \A d \in rotated[s] : d \in Nat /\ d \in 0..entries
<1>1. entries \in Nat /\ MaxEntries \in Nat /\ MaxLogFiles \in Nat
  BY LogAssumption DEF LogAssumption, LogShape
<1>2. \A e \in filed : e \in Nat /\ e <= entries
  BY <1>1 DEF LogShape
<1>3. \A s \in Rotations : rotated[s] \subseteq filed
  BY DEF LogShape
<1> QED BY <1>1, <1>2, <1>3

(* The time of a file is its last entry.                                   *)
LEMMA LastEntry ==
  ASSUME LogShape, NEW s \in Rotations
  PROVE  ModTime(s) \in rotated[s] /\ ModTime(s) \in 0..entries /\ \A d \in rotated[s] : d <= ModTime(s)
<1>1. rotated[s] \subseteq 0..entries /\ rotated[s] # {} /\ entries \in Nat
  BY EntriesAre DEF LogShape
<1>2. \E x \in rotated[s] : \A y \in rotated[s] : y <= x
  BY <1>1, Greatest
<1>3. ModTime(s) \in rotated[s] /\ \A d \in rotated[s] : d <= ModTime(s)
  BY <1>2 DEF ModTime
<1> QED BY <1>1, <1>3

(* So the files are in the order of their times, and no two have the same. *)
LEMMA TimesAgree ==
  ASSUME LogShape, FilesInOrder, NEW s \in Rotations, NEW t \in Rotations, s # t
  PROVE  /\ Precedes(s, t) <=> ModTime(s) < ModTime(t)
         /\ Precedes(t, s) <=> ~(ModTime(s) < ModTime(t))
<1>1. /\ ModTime(s) \in rotated[s] /\ ModTime(s) \in Nat
      /\ ModTime(t) \in rotated[t] /\ ModTime(t) \in Nat
  BY LastEntry, EntriesAre
<1>2. Precedes(s, t) => ModTime(s) < ModTime(t)
  BY <1>1 DEF Precedes, Follows
<1>3. Precedes(t, s) => ModTime(t) < ModTime(s)
  BY <1>1 DEF Precedes, Follows
<1>4. Precedes(s, t) \/ Precedes(t, s)
  BY DEF FilesInOrder
<1> QED BY <1>1, <1>2, <1>3, <1>4

(* What was last written before an oldest file is of the oldest too.       *)
LEMMA OldestAreFirst ==
  ASSUME LogShape, NEW s \in Oldest, NEW t \in Rotations, ModTime(t) < ModTime(s)
  PROVE  t \in Oldest
<1>1. PICK U, V : /\ U = {u \in Rotations : ModTime(u) < ModTime(t)}
                  /\ V = {u \in Rotations : ModTime(u) < ModTime(s)}
  OBVIOUS
<1>2. s \in Rotations /\ Cardinality(V) < Excess
  BY <1>1 DEF Oldest, Rotations
<1>3. ModTime(s) \in Nat /\ ModTime(t) \in Nat /\ \A u \in Rotations : ModTime(u) \in Nat
  BY <1>2, LastEntry, EntriesAre
<1>4. U \subseteq V
  BY <1>1, <1>3
<1>5. IsFiniteSet(U) /\ IsFiniteSet(V) /\ IsFiniteSet(Rotations)
  BY <1>1, FS_Subset DEF LogShape
<1>6. /\ Cardinality(U) \in Nat /\ Cardinality(V) \in Nat /\ Cardinality(Rotations) \in Nat
      /\ Cardinality(U) <= Cardinality(V)
  BY <1>4, <1>5, FS_Subset, FS_CardinalityType
<1>7. Excess \in Int
  BY <1>6, EntriesAre DEF Excess, Rotations
<1> QED BY <1>1, <1>2, <1>6, <1>7 DEF Oldest, Rotations

(* No more are of the oldest than there are too many.                      *)
LEMMA OldestAreFew ==
  ASSUME LogShape, FilesInOrder
  PROVE  /\ IsFiniteSet(Oldest) /\ Oldest \subseteq Rotations
         /\ Oldest # {} => /\ Excess > 0
                           /\ Cardinality(Oldest) <= Excess
<1>1. IsFiniteSet(Oldest) /\ Oldest \subseteq Rotations /\ IsFiniteSet(Rotations)
  BY FS_Subset DEF Oldest, Rotations, LogShape
<1>2. Cardinality(Rotations) \in Nat /\ Excess \in Int
  BY <1>1, EntriesAre, FS_CardinalityType DEF Excess, Rotations
<1>3. ASSUME Oldest # {} PROVE Excess > 0 /\ Cardinality(Oldest) <= Excess
  <2>1. PICK T : T = {ModTime(s) : s \in Oldest}
    OBVIOUS
  <2>2. T \subseteq 0..entries /\ T # {} /\ entries \in Nat
    BY <1>1, <1>3, <2>1, LastEntry, EntriesAre
  <2>3. PICK x \in T : \A y \in T : y <= x
    BY <2>2, Greatest
  <2>4. PICK m \in Oldest : x = ModTime(m)
    BY <2>1
  <2>5. PICK V : V = {u \in Rotations : ModTime(u) < ModTime(m)}
    OBVIOUS
  <2>6. Cardinality(V) < Excess /\ IsFiniteSet(V) /\ Cardinality(V) \in Nat
    BY <1>1, <2>5, FS_Subset, FS_CardinalityType DEF Oldest, Rotations
  <2>7. m \notin V /\ m \in Rotations
    BY <1>1, <2>5, LastEntry
  <2>8. Oldest \subseteq V \cup {m}
    <3> SUFFICES ASSUME NEW s \in Oldest, s # m PROVE s \in V
      OBVIOUS
    <3>1. s \in Rotations /\ ModTime(s) <= ModTime(m) /\ ModTime(s) \in Nat /\ ModTime(m) \in Nat
      BY <1>1, <2>1, <2>3, <2>4, <2>7, LastEntry
    <3>2. ModTime(s) # ModTime(m)
      BY <2>7, <3>1, TimesAgree
    <3> QED BY <2>5, <3>1, <3>2
  <2>9. IsFiniteSet(V \cup {m}) /\ Cardinality(V \cup {m}) = Cardinality(V) + 1
    BY <2>6, <2>7, FS_AddElement
  <2>10. Cardinality(Oldest) <= Cardinality(V) + 1 /\ Cardinality(Oldest) \in Nat
    BY <1>1, <2>8, <2>9, FS_Subset, FS_CardinalityType
  <2> QED BY <1>2, <2>6, <2>10
<1> QED BY <1>1, <1>3

(* Steps that move no file: the position and the number of entries change. *)
LEMMA LogRests ==
  ASSUME LogInv, UNCHANGED diskVars, entries' \in entries..MaxEntries, second' \in Seconds,
         logPc' \in {"idle", "write", "stat", "rename", "clean", "open", "recent", "none"},
         logPc' \notin {"idle", "none"} => entries' > 0,
         logPc' = "rename" => currentLog # {},
         logPc' = "write" => entries' = entries + 1
  PROVE  LogInv'
<1>1. UNCHANGED <<currentLog, rotated, filed, overwritten>>
  BY DEF diskVars
<1>2. entries \in Nat /\ MaxEntries \in Nat /\ (\A e \in filed : e \in Nat /\ e <= entries)
  BY EntriesAre DEF LogInv
<1>3. filed \subseteq 1..entries' /\ entries' \in 0..MaxEntries
  BY <1>2 DEF LogInv, LogShape
<1>4. logPc' = "write" => entries' \notin filed
  BY <1>2
<1>5. LogShape'
  BY <1>1, <1>3, <1>4 DEF LogInv, LogShape, Rotations
<1>6. FilesInOrder' /\ OnlyOldestGo'
  BY <1>1 DEF LogInv, FilesInOrder, OnlyOldestGo, OnDisk, Rotations, Precedes, Follows
<1> QED BY <1>5, <1>6 DEF LogInv

LEMMA WriteStringKeeps ==
  ASSUME LogInv, WriteString
  PROVE  LogInv'
<1>1. logPc = "write" /\ logPc' = "stat" /\ UNCHANGED <<entries, second, rotated, overwritten>>
  BY DEF WriteString, LogGoes
<1>2. CASE UNCHANGED <<currentLog, filed>>
  <2>1. entries \in Nat /\ entries' \in entries..MaxEntries /\ entries' > 0 /\ second' \in Seconds
    BY <1>1, EntriesAre DEF LogInv, LogShape
  <2> QED BY <1>1, <1>2, <2>1, LogRests DEF diskVars
<1>3. CASE currentLog' = currentLog \cup {entries} /\ filed' = filed \cup {entries}
  <2>1. /\ entries \in Nat /\ entries > 0 /\ entries \notin filed
        /\ \A e \in filed : e \in Nat /\ e < entries
    BY <1>1, EntriesAre DEF LogInv, LogShape
  <2>2. filed' \ currentLog' = filed \ currentLog
    BY <1>3, <2>1 DEF LogInv, LogShape
  <2>3. LogShape'
    <3>1. filed' \subseteq 1..entries /\ currentLog' \subseteq filed'
      <4>1. entries \in 1..entries
        BY <2>1
      <4>2. filed \subseteq 1..entries /\ currentLog \subseteq filed
        BY DEF LogInv, LogShape
      <4> QED BY <1>3, <4>1, <4>2
    <3>2. \A s \in Rotations : rotated[s] \subseteq filed' \ currentLog' /\ rotated[s] # {}
      BY <2>2 DEF LogInv, LogShape
    <3>3. IsFiniteSet(Rotations) /\ Rotations \subseteq Seconds /\ second \in Seconds
      BY DEF LogInv, LogShape
    <3>4. entries \in 0..MaxEntries
      BY DEF LogInv, LogShape
    <3> QED BY <1>1, <2>1, <3>1, <3>2, <3>3, <3>4 DEF LogShape, Rotations
  <2>4. FilesInOrder'
    <3>1. \A e \in filed' \ currentLog', d \in currentLog' : e < d
      BY <1>3, <2>1, <2>2 DEF LogInv, FilesInOrder
    <3>2. \A s, t \in Rotations : s # t => Precedes(s, t) \/ Precedes(t, s)
      BY DEF LogInv, FilesInOrder
    <3> QED BY <1>1, <3>1, <3>2 DEF FilesInOrder, Precedes, Follows, Rotations
  <2>5. filed' \ (OnDisk' \cup overwritten') \subseteq filed \ (OnDisk \cup overwritten)
    BY <1>1, <1>3 DEF OnDisk
  <2>6. OnlyOldestGo'
    BY <1>1, <2>5 DEF LogInv, OnlyOldestGo
  <2> QED BY <2>3, <2>4, <2>6 DEF LogInv
<1> QED BY <1>2, <1>3 DEF WriteString

LEMMA RenameLogKeeps ==
  ASSUME LogInv, RenameLog
  PROVE  LogInv'
<1>1. logPc = "rename" /\ logPc' = "clean" /\ UNCHANGED <<entries, second, filed>>
  BY DEF RenameLog, LogGoes
<1>2. CASE UNCHANGED <<rotated, overwritten, currentLog>>
  <2>1. entries \in Nat /\ entries' \in entries..MaxEntries /\ entries' > 0 /\ second' \in Seconds
    BY <1>1, EntriesAre DEF LogInv, LogShape
  <2> QED BY <1>1, <1>2, <2>1, LogRests DEF diskVars
<1>3. CASE /\ rotated' = [s \in DOMAIN rotated \cup {second} |-> IF s = second THEN currentLog ELSE rotated[s]]
           /\ overwritten' = overwritten \cup UNION {rotated[s] : s \in DOMAIN rotated \cap {second}}
           /\ currentLog' = {}
  <2>1. /\ Rotations' = Rotations \cup {second} /\ rotated'[second] = currentLog
        /\ \A s \in Rotations : s # second => rotated'[s] = rotated[s]
        /\ currentLog' = {} /\ currentLog # {} /\ second \in Seconds
        /\ currentLog \subseteq filed
    BY <1>1, <1>3 DEF Rotations, LogInv, LogShape
  <2>2. LogShape'
    <3>1. IsFiniteSet(Rotations') /\ Rotations' \subseteq Seconds
      BY <2>1, FS_AddElement DEF LogInv, LogShape
    <3>2. \A s \in Rotations' : rotated'[s] \subseteq filed /\ rotated'[s] # {}
      BY <2>1 DEF LogInv, LogShape
    <3> QED BY <1>1, <2>1, <3>1, <3>2 DEF LogInv, LogShape
  <2>3. \A s \in Rotations : \A e \in rotated[s], d \in currentLog : e < d
    BY DEF LogInv, LogShape, FilesInOrder
  <2>4. FilesInOrder'
    <3>1. ASSUME NEW s \in Rotations', NEW t \in Rotations', s # t
          PROVE  \/ \A e \in rotated'[s] : \A d \in rotated'[t] : d > e
                 \/ \A e \in rotated'[t] : \A d \in rotated'[s] : d > e
      <4>1. CASE t = second
        <5>1. s \in Rotations /\ rotated'[s] = rotated[s] /\ rotated'[t] = currentLog
          BY <2>1, <3>1, <4>1
        <5>2. \A e \in rotated[s] : e \in Nat
          BY <5>1, EntriesAre DEF LogInv
        <5>3. \A e \in filed : e \in Nat
          BY EntriesAre DEF LogInv
        <5> QED BY <2>1, <2>3, <5>1, <5>2, <5>3
      <4>2. CASE s = second
        <5>1. t \in Rotations /\ rotated'[t] = rotated[t] /\ rotated'[s] = currentLog
          BY <2>1, <3>1, <4>2
        <5>2. \A e \in rotated[t] : e \in Nat
          BY <5>1, EntriesAre DEF LogInv
        <5>3. \A e \in filed : e \in Nat
          BY EntriesAre DEF LogInv
        <5> QED BY <2>1, <2>3, <5>1, <5>2, <5>3
      <4>3. CASE s # second /\ t # second
        <5>1. /\ s \in Rotations /\ rotated'[s] = rotated[s]
              /\ t \in Rotations /\ rotated'[t] = rotated[t]
          BY <2>1, <3>1, <4>3
        <5> QED BY <3>1, <5>1 DEF LogInv, FilesInOrder, Precedes, Follows
      <4> QED BY <4>1, <4>2, <4>3
    <3> QED BY <2>1, <3>1 DEF FilesInOrder, Precedes, Follows
  <2>5. OnlyOldestGo'
    <3> SUFFICES ASSUME NEW e \in filed, e \notin OnDisk' \cup overwritten'
                 PROVE  MaxLogFiles <= Cardinality({s \in Rotations' : \A d \in rotated'[s] : d > e})
      BY <1>1 DEF OnlyOldestGo, Rotations
    <3>1. PICK F, G : /\ F = {s \in Rotations : \A d \in rotated[s] : d > e}
                      /\ G = {s \in Rotations' : \A d \in rotated'[s] : d > e}
      OBVIOUS
    <3>2. e \notin currentLog /\ \A s \in Rotations' : e \notin rotated'[s]
      BY <2>1 DEF OnDisk, Rotations
    <3>3. e \notin OnDisk \cup overwritten
      <4>1. \A s \in Rotations : e \notin rotated[s]
        <5> SUFFICES ASSUME NEW s \in Rotations PROVE e \notin rotated[s]
          OBVIOUS
        <5>1. CASE s = second
          BY <1>3, <5>1 DEF Rotations
        <5>2. CASE s # second
          BY <2>1, <3>2, <5>2
        <5> QED BY <5>1, <5>2
      <4> QED BY <1>3, <3>2, <4>1 DEF OnDisk, Rotations
    <3>4. MaxLogFiles <= Cardinality(F)
      BY <3>1, <3>3 DEF LogInv, OnlyOldestGo, Rotations
    <3>5. F \subseteq G
      <4> SUFFICES ASSUME NEW s \in F PROVE \A d \in rotated'[s] : d > e
        BY <2>1, <3>1
      <4>1. CASE s = second
        <5>1. \A d \in currentLog : e < d /\ d \in Nat /\ e \in Nat
          BY <2>1, <3>2, EntriesAre DEF LogInv, FilesInOrder
        <5> QED BY <2>1, <4>1, <5>1
      <4>2. CASE s # second
        BY <2>1, <3>1, <4>2
      <4> QED BY <4>1, <4>2
    <3>6. IsFiniteSet(G)
      BY <2>2, <3>1, FS_Subset DEF LogShape
    <3>7. Cardinality(F) <= Cardinality(G) /\ Cardinality(F) \in Nat /\ Cardinality(G) \in Nat
      BY <3>5, <3>6, FS_Subset, FS_CardinalityType
    <3> QED BY <3>1, <3>4, <3>7, EntriesAre DEF LogInv
  <2> QED BY <2>2, <2>4, <2>5 DEF LogInv
<1> QED BY <1>2, <1>3 DEF RenameLog

(* Whatever of the oldest files is removed, and whatever is not: an entry  *)
(* that goes with them has the others after it.                            *)
LEMMA CleanupKeeps ==
  ASSUME LogInv, CleanupOldLogs
  PROVE  LogInv'
<1>1. PICK G : G \in SUBSET Oldest /\ rotated' = Restrict(rotated, DOMAIN rotated \ G)
  BY DEF CleanupOldLogs
<1>2. /\ logPc = "clean" /\ logPc' = "open"
      /\ UNCHANGED <<entries, second, currentLog, filed, overwritten>>
  BY DEF CleanupOldLogs, LogGoes
<1>3. Rotations' = Rotations \ G /\ \A s \in Rotations' : rotated'[s] = rotated[s]
  BY <1>1 DEF Restrict, Rotations
<1>4. LogShape /\ FilesInOrder /\ Oldest \subseteq Rotations /\ G \subseteq Oldest
  BY <1>1, OldestAreFew DEF LogInv
<1>5. LogShape'
  BY <1>2, <1>3, FS_Subset DEF LogInv, LogShape
<1>6. FilesInOrder'
  BY <1>2, <1>3 DEF LogInv, FilesInOrder, Precedes, Follows
<1>7. OnlyOldestGo'
  <2> SUFFICES ASSUME NEW e \in filed, e \notin OnDisk' \cup overwritten'
               PROVE  MaxLogFiles <= Cardinality({s \in Rotations' : \A d \in rotated'[s] : d > e})
    BY <1>2 DEF OnlyOldestGo, Rotations
  <2>1. PICK F, H : /\ F = {s \in Rotations : Follows(s, e)}
                    /\ H = {s \in Rotations' : \A d \in rotated'[s] : d > e}
    OBVIOUS
  <2>2. H = F \ G
    BY <1>3, <2>1 DEF Follows
  <2>3. IsFiniteSet(Rotations) /\ IsFiniteSet(F) /\ IsFiniteSet(H)
    BY <1>4, <2>1, <2>2, FS_Subset DEF LogShape
  <2>4. \/ e \in filed \ (OnDisk \cup overwritten)
        \/ \E g \in G : e \in rotated[g]
    BY <1>2, <1>3 DEF OnDisk, Rotations
  <2>5. e \in Nat /\ \A s \in Rotations : \A d \in rotated[s] : d \in Nat
    BY <1>4, EntriesAre
  <2>6. CASE \E t \in Rotations \ Oldest : ~Follows(t, e)
    <3>1. PICK t \in Rotations \ Oldest : ~Follows(t, e)
      BY <2>6
    <3>2. PICK d \in rotated[t] : d <= e /\ d \in Nat
      BY <2>5, <3>1 DEF Follows
    <3>3. ASSUME NEW s \in Oldest PROVE Precedes(s, t)
      <4>1. s \in Rotations /\ s # t
        BY <1>4, <3>1
      <4>2. ~(ModTime(t) < ModTime(s))
        BY <1>4, <3>1, OldestAreFirst
      <4>3. Precedes(s, t) \/ Precedes(t, s)
        BY <1>4, <3>1, <4>1 DEF FilesInOrder
      <4>4. Precedes(t, s) => ModTime(t) < ModTime(s)
        BY <1>4, <3>1, <4>1, TimesAgree
      <4> QED BY <4>2, <4>3, <4>4
    <3>4. \A g \in G : e \notin rotated[g]
      BY <1>4, <2>5, <3>2, <3>3 DEF Precedes, Follows
    <3>5. MaxLogFiles <= Cardinality(F)
      BY <2>1, <2>4, <3>4 DEF LogInv, OnlyOldestGo, Rotations, Follows
    <3>6. F \cap Oldest = {}
      <4> SUFFICES ASSUME NEW s \in Oldest, Follows(s, e) PROVE FALSE
        BY <2>1
      <4>1. PICK f \in rotated[s] : TRUE
        BY <1>4 DEF LogShape
      <4>2. f > e /\ f < d /\ f \in Nat
        BY <1>4, <2>5, <3>2, <3>3, <4>1 DEF Precedes, Follows
      <4> QED BY <2>5, <3>2, <4>2
    <3>7. H = F
      BY <1>4, <2>2, <3>6
    <3> QED BY <2>1, <3>5, <3>7
  <2>7. CASE \A t \in Rotations \ Oldest : Follows(t, e)
    <3>1. CASE Oldest = {}
      <4>1. H = F /\ e \in filed \ (OnDisk \cup overwritten)
        BY <1>4, <2>2, <2>4, <3>1
      <4> QED BY <2>1, <4>1 DEF LogInv, OnlyOldestGo, Rotations, Follows
    <3>2. CASE Oldest # {}
      <4>1. Excess > 0 /\ Cardinality(Oldest) <= Excess /\ IsFiniteSet(Oldest)
        BY <1>4, <3>2, OldestAreFew
      <4>2. Rotations \ Oldest \subseteq H
        BY <1>4, <2>1, <2>2, <2>7
      <4>3. PICK K : K = Rotations \ Oldest
        OBVIOUS
      <4>4. IsFiniteSet(K) /\ Cardinality(K) <= Cardinality(H)
        BY <2>3, <4>2, <4>3, FS_Subset
      <4>5. Rotations = K \cup Oldest /\ K \cap Oldest = {}
        BY <1>4, <4>3
      <4>6. Cardinality(Rotations) = Cardinality(K) + Cardinality(Oldest) - Cardinality(K \cap Oldest)
        BY <4>1, <4>4, <4>5, FS_Union
      <4>7. Cardinality(K \cap Oldest) = 0
        BY <4>5, FS_EmptySet
      <4>8. /\ Cardinality(K) \in Nat /\ Cardinality(Oldest) \in Nat /\ Cardinality(H) \in Nat
            /\ Cardinality(Rotations) \in Nat /\ MaxLogFiles \in Nat
        BY <1>4, <2>3, <4>1, <4>4, FS_CardinalityType, EntriesAre
      <4>9. Excess = Cardinality(Rotations) - MaxLogFiles
        BY DEF Excess, Rotations
      <4>10. MaxLogFiles <= Cardinality(H)
        BY <4>1, <4>4, <4>6, <4>7, <4>8, <4>9
      <4> QED BY <2>1, <4>10
    <3> QED BY <3>1, <3>2
  <2> QED BY <2>6, <2>7
<1> QED BY <1>5, <1>6, <1>7 DEF LogInv

LEMMA LogKeeps == LogInv /\ [LogNext]_logVars => LogInv'
<1> SUFFICES ASSUME LogInv, [LogNext]_logVars PROVE LogInv'
  OBVIOUS
<1>1. /\ entries \in Nat /\ MaxEntries \in Nat /\ entries \in entries..MaxEntries
      /\ second \in Seconds
  BY EntriesAre DEF LogInv, LogShape
<1>2. CASE UNCHANGED logVars
  BY <1>2 DEF LogInv, LogShape, FilesInOrder, OnlyOldestGo, OnDisk, Rotations, Precedes, Follows, logVars
<1>3. CASE WriteLog
  <2>1. /\ entries' = entries + 1 /\ entries < MaxEntries /\ logPc' \in {"write", "recent"}
        /\ UNCHANGED <<diskVars, second>>
    BY <1>3 DEF WriteLog, LogGoes
  <2>2. entries' \in entries..MaxEntries /\ entries' > 0
    BY <1>1, <2>1
  <2> QED BY <1>1, <2>1, <2>2, LogRests
<1>4. CASE StatLog
  <2>1. /\ UNCHANGED <<entries, second, diskVars>> /\ logPc = "stat" /\ logPc' \in {"rename", "recent"}
        /\ logPc' = "rename" => Cardinality(currentLog) > MaxLogSize
    BY <1>4 DEF StatLog, LogGoes
  <2>2. logPc' = "rename" => currentLog # {}
    BY <2>1, FS_EmptySet, LogAssumption DEF LogAssumption
  <2>3. entries' \in entries..MaxEntries /\ entries' > 0
    BY <1>1, <2>1 DEF LogInv, LogShape
  <2> QED BY <1>1, <2>1, <2>2, <2>3, LogRests
<1>5. CASE OpenLogFile \/ AddRecent \/ ClearLogs \/ CloseLog \/ NewLogManager
  <2>1. /\ UNCHANGED <<entries, second, diskVars>>
        /\ logPc' \in {"idle", "none"} \/ (logPc = "open" /\ logPc' = "recent")
    BY <1>5 DEF OpenLogFile, AddRecent, ClearLogs, CloseLog, NewLogManager, LogGoes
  <2>2. logPc' \notin {"idle", "none"} => entries' > 0
    BY <2>1 DEF LogInv, LogShape
  <2> QED BY <1>1, <2>1, <2>2, LogRests
<1>6. CASE ClockTurns
  <2>1. UNCHANGED <<logPc, entries, diskVars>> /\ second' \in Seconds
    BY <1>6 DEF ClockTurns
  <2>2. LogShape' /\ FilesInOrder' /\ OnlyOldestGo'
    BY <2>1 DEF diskVars, LogInv, LogShape, FilesInOrder, OnlyOldestGo, OnDisk, Rotations, Precedes, Follows
  <2> QED BY <2>2 DEF LogInv
<1> QED BY <1>2, <1>3, <1>4, <1>5, <1>6, WriteStringKeeps, RenameLogKeeps, CleanupKeeps DEF LogNext, LogStep

LEMMA LogStarts == LogInit => LogInv
<1> SUFFICES ASSUME LogInit PROVE LogInv
  OBVIOUS
<1>1. /\ logPc = "idle" /\ entries = 0 /\ currentLog = {} /\ Rotations = {} /\ second \in Seconds
      /\ filed = {}
  <2>1. DOMAIN rotated = {}
    BY DEF LogInit
  <2> QED BY <2>1 DEF LogInit, Rotations
<1>2. LogShape
  BY <1>1, FS_EmptySet, LogAssumption DEF LogAssumption, LogShape
<1>3. FilesInOrder /\ OnlyOldestGo
  BY <1>1 DEF FilesInOrder, OnlyOldestGo
<1> QED BY <1>2, <1>3 DEF LogInv

(* "Remove oldest files": through failures of the file system, ends of the *)
(* process and a clock that is set back, an entry that is in no file any   *)
(* more has as many rotated files after it as are kept, unless a rotation  *)
(* of the same second replaced its file.                                   *)
THEOREM OnlyOldestAreRemoved == LogSpec => []OnlyOldestGo
<1>1. LogInv => OnlyOldestGo
  BY DEF LogInv
<1> QED BY <1>1, LogStarts, LogKeeps, PTL DEF LogSpec

-----------------------------------------------------------------------------
(* The three parts together, and the types of their variables.             *)

LEMMA LastKept ==
  ASSUME NEW S, NEW s \in Seq(S), NEW m \in Nat
  PROVE  LET l == IF Len(s) <= m THEN s ELSE SubSeq(s, Len(s) - m + 1, Len(s))
         IN  l \in Seq(S) /\ Len(l) <= m
<1>1. Len(s) \in Nat /\ \A i \in 1..Len(s) : s[i] \in S
  BY LenProperties
<1>2. CASE Len(s) <= m
  BY <1>2
<1>3. CASE ~(Len(s) <= m)
  <2>1. PICK a, b : a = Len(s) - m + 1 /\ b = Len(s)
    OBVIOUS
  <2>2. a \in Int /\ b \in Int /\ (\A i \in a..b : s[i] \in S) /\ b - a + 1 = m
    BY <1>1, <1>3, <2>1
  <2>3. SubSeq(s, a, b) \in Seq(S) /\ Len(SubSeq(s, a, b)) = IF a <= b THEN b - a + 1 ELSE 0
    BY <2>2, SubSeqProperties
  <2> QED BY <1>3, <2>1, <2>2, <2>3
<1> QED BY <1>2, <1>3

HeldShape == (\E S : held \in Seq(S)) /\ Len(held) <= StoreCap

LEMMA LoadIsShort ==
  ASSUME StoreShape
  PROVE  (\E S : Load \in Seq(S)) /\ Len(Load) <= StoreCap
<1>1. PICK loaded : loaded = InFiles(LiveFiles)
  OBVIOUS
<1>2. now \in Nat /\ StoreCap \in Nat
  BY StoreAssumption DEF StoreShape, StoreAssumption
<1>3. loaded \subseteq 1..now
  BY <1>1 DEF InFiles, LiveFiles, StoreShape, Inodes
<1>4. IsFiniteSet(loaded)
  <2>1. IsFiniteSet(1..now)
    BY <1>2, FS_Interval
  <2> QED BY <1>3, <2>1, FS_Subset
<1>5. PICK n : n = Cardinality(loaded) /\ n \in Nat
  BY <1>4, FS_CardinalityType
<1>6. PICK s : s = NewestFirst
  OBVIOUS
<1> DEFINE at(i) == CHOOSE e \in loaded : Cardinality({d \in loaded : d > e}) = i - 1
<1>7. s = [i \in 1..n |-> at(i)]
  BY <1>1, <1>5, <1>6 DEF NewestFirst
<1> HIDE DEF at
<1>8. PICK S : S = {s[i] : i \in 1..n}
  OBVIOUS
<1>9. s \in Seq(S) /\ Len(s) = n
  <2>1. DOMAIN s = 1..n /\ s = [i \in 1..n |-> s[i]]
    BY <1>7
  <2>2. s \in [1..n -> S]
    BY <1>8, <2>1
  <2>3. s \in Seq(S)
    BY <1>5, <2>2, SeqDef
  <2> QED BY <1>5, <2>1, <2>3, LenProperties
<1>10. PICK m : m = IF Len(s) < StoreCap THEN Len(s) ELSE StoreCap
  OBVIOUS
<1>11. m \in Int /\ m <= StoreCap /\ \A i \in 1..m : s[i] \in S
  BY <1>2, <1>5, <1>8, <1>9, <1>10
<1>12. SubSeq(s, 1, m) \in Seq(S) /\ Len(SubSeq(s, 1, m)) = IF 1 <= m THEN m - 1 + 1 ELSE 0
  BY <1>11, SubSeqProperties
<1>13. Load = SubSeq(s, 1, m)
  BY <1>6, <1>10 DEF Load
<1> QED BY <1>2, <1>11, <1>12, <1>13

LEMMA HeldKeeps == StoreInv /\ HeldShape /\ [StoreNext]_storeVars => HeldShape'
<1> SUFFICES ASSUME StoreInv, HeldShape, [StoreNext]_storeVars PROVE HeldShape'
  OBVIOUS
<1>1. CASE held' = held
  BY <1>1 DEF HeldShape
<1>2. CASE Restart
  <2>1. held' = Load
    BY <1>2 DEF Restart
  <2>2. (\E S : Load \in Seq(S)) /\ Len(Load) <= StoreCap
    BY LoadIsShort DEF StoreInv
  <2> QED BY <2>1, <2>2 DEF HeldShape
<1>3. ASSUME NEW w \in Writers, AddEvent(w) PROVE HeldShape'
  <2>1. PICK S : held \in Seq(S)
    BY DEF HeldShape
  <2>2. PICK T, s : T = S \cup {ev[w]} /\ s = Append(held, ev[w])
    OBVIOUS
  <2>3. s \in Seq(T)
    BY <2>1, <2>2, SeqMonotonic, AppendProperties
  <2>4. held' = IF Len(s) <= StoreCap THEN s ELSE SubSeq(s, Len(s) - StoreCap + 1, Len(s))
    BY <1>3, <2>2 DEF AddEvent, Held!Add, Held!LastOf
  <2>5. held' \in Seq(T) /\ Len(held') <= StoreCap
    BY <2>3, <2>4, LastKept, StoreAssumption DEF StoreAssumption
  <2> QED BY <2>5 DEF HeldShape
<1> QED BY <1>1, <1>2, <1>3 DEF StoreNext, Step, storeVars, Stamp, Open, StatSize, FindSuffix,
           Rename, Reopen, Write, FindOld, RemoveOld

LEMMA RecentKeeps == LogInv /\ RecentShape /\ [LogNext]_logVars => RecentShape'
<1> SUFFICES ASSUME LogInv, RecentShape, [LogNext]_logVars PROVE RecentShape'
  OBVIOUS
<1>1. entries \in Nat /\ MaxRecent \in Nat
  BY EntriesAre, LogAssumption DEF LogInv, LogAssumption
<1>2. CASE recentLogs' = recentLogs /\ entries' \in {entries, entries + 1}
  <2>1. 1..entries \subseteq 1..entries'
    BY <1>1, <1>2
  <2>2. recentLogs \in Seq(1..entries')
    BY <2>1, SeqMonotonic DEF RecentShape
  <2> QED BY <1>2, <2>2 DEF RecentShape
<1>3. CASE recentLogs' = <<>> /\ entries' = entries
  BY <1>1, <1>3, EmptySeq DEF RecentShape
<1>4. CASE AddRecent
  <2>1. entries \in 1..entries /\ entries' = entries
    BY <1>1, <1>4 DEF AddRecent, LogGoes, LogInv, LogShape
  <2>2. PICK s : s = Append(recentLogs, entries)
    OBVIOUS
  <2>3. s \in Seq(1..entries)
    BY <2>1, <2>2, AppendProperties DEF RecentShape
  <2>4. recentLogs' = IF Len(s) <= MaxRecent THEN s ELSE SubSeq(s, Len(s) - MaxRecent + 1, Len(s))
    BY <1>4, <2>2 DEF AddRecent, Recent!Add, Recent!LastOf
  <2>5. recentLogs' \in Seq(1..entries) /\ Len(recentLogs') <= MaxRecent
    BY <1>1, <2>3, <2>4, LastKept
  <2> QED BY <2>1, <2>5 DEF RecentShape
<1> QED BY <1>2, <1>3, <1>4 DEF LogNext, LogStep, logVars, WriteLog, WriteString, StatLog, RenameLog,
           CleanupOldLogs, OpenLogFile, ClearLogs, CloseLog, NewLogManager, ClockTurns

CaptureInv ==
  /\ StoreInv /\ HeldShape
  /\ StreamInv
  /\ LogInv /\ RecentShape

LEMMA CaptureInvariance == CaptureSpec => []CaptureInv
<1>1. CaptureInit => CaptureInv
  <2> SUFFICES ASSUME CaptureInit PROVE CaptureInv
    OBVIOUS
  <2>1. StoreInv /\ StreamInv /\ LogInv
    BY StoreStarts, StreamStarts, LogStarts DEF CaptureInit
  <2>2. HeldShape
    <3>1. held = <<>> /\ <<>> \in Seq({}) /\ Len(<<>>) = 0 /\ StoreCap \in Nat
      BY EmptySeq, StoreAssumption DEF CaptureInit, StoreInit, Held!Init, StoreAssumption
    <3> QED BY <3>1 DEF HeldShape
  <2>3. RecentShape
    <3>1. recentLogs = <<>> /\ <<>> \in Seq(1..entries) /\ Len(<<>>) = 0 /\ MaxRecent \in Nat
      BY EmptySeq, LogAssumption DEF CaptureInit, LogInit, Recent!Init, LogAssumption
    <3> QED BY <3>1 DEF RecentShape
  <2> QED BY <2>1, <2>2, <2>3 DEF CaptureInv
<1>2. CaptureInv /\ [CaptureNext]_parts => CaptureInv'
  <2> SUFFICES ASSUME CaptureInv, [CaptureNext]_parts PROVE CaptureInv'
    OBVIOUS
  <2>1. [StoreNext]_storeVars /\ [StreamNext]_streamVars /\ [LogNext]_logVars
    BY DEF CaptureNext, parts
  <2> QED BY <2>1, StoreKeeps, HeldKeeps, StreamKeeps, LogKeeps, RecentKeeps DEF CaptureInv
<1> QED BY <1>1, <1>2, PTL DEF CaptureSpec

(* The captured files, the live stream and the log keep their types.       *)
THEOREM CaptureIsTyped == CaptureSpec => []CaptureTypeOK
<1>1. CaptureInv => CaptureTypeOK
  <2> SUFFICES ASSUME CaptureInv PROVE CaptureTypeOK
    OBVIOUS
  <2>1. StoreTypeOK
    <3>1. now \in 0..MaxEvents /\ DOMAIN dir \subseteq Names /\ \A n \in DOMAIN dir : dir[n] \in DOMAIN data
      BY DEF CaptureInv, StoreInv, StoreShape, Inodes
    <3>2. /\ Len(mtime) = Len(data)
          /\ \A i \in DOMAIN data : ToSet(data[i]) \subseteq 1..now /\ mtime[i] <= now
      BY DEF CaptureInv, StoreInv, StoreShape, Inodes
    <3>3. pc \in [Writers -> Places] /\ \A w \in Writers : fd[w] \in 0..Len(data) /\ sfx[w] \in Nat
      BY DEF CaptureInv, StoreInv, StoreShape
    <3> QED BY <3>1, <3>2, <3>3 DEF StoreTypeOK, CaptureInv, HeldShape, Places
  <2>2. StreamTypeOK
    <3>1. /\ TypeOK /\ subs \subseteq Readers /\ closed \subseteq Readers /\ left \subseteq Readers
          /\ \A r \in Readers : Len(queue[r]) <= QueueCap
      BY DEF CaptureInv, StreamInv, StreamShape
    <3>2. ASSUME NEW t \in Taps
          PROVE  tap[t].pc \in {"idle", "range", "send", "ring"} /\ tap[t].n \in 0..Count[t]
      <4>1. tap[t] \in TapType /\ tap[t].n <= Count[t]
        BY DEF CaptureInv, StreamInv, StreamShape
      <4>2. Count[t] \in Nat
        BY StreamAssumption DEF StreamAssumption
      <4> QED BY <4>1, <4>2 DEF TapType
    <3> QED BY <3>1, <3>2 DEF StreamTypeOK
  <2>3. LogTypeOK
    BY DEF CaptureInv, LogInv, LogShape, RecentShape, LogTypeOK, Rotations
  <2> QED BY <2>1, <2>2, <2>3 DEF CaptureTypeOK
<1> QED BY <1>1, CaptureInvariance, PTL


(* A behaviour of the three is one of each, so what is proved of the files,*)
(* the stream and the log holds of what the run checks.                    *)
THEOREM PartsRun == CaptureSpec => StoreSpec /\ StreamSpec /\ LogSpec
<1>1. CaptureInit => StoreInit /\ StreamInit /\ LogInit
  BY DEF CaptureInit
<1>2. [CaptureNext]_parts => [StoreNext]_storeVars /\ [StreamNext]_streamVars /\ [LogNext]_logVars
  BY DEF CaptureNext, parts
<1> QED BY <1>1, <1>2, PTL DEF CaptureSpec, StoreSpec, StreamSpec, LogSpec
=============================================================================
