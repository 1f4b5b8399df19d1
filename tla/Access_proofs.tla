---------------------------- MODULE Access_proofs ----------------------------
(***************************************************************************)
(* The limits of logins and the security events that tell of them, for any *)
(* number of attempts at a time, users, addresses, settings, failures,     *)
(* events and webhooks.                                                    *)
(*                                                                         *)
(* Neither half of LimitsHold is inductive: each needs the attempts that   *)
(* are under way, and have still to be counted, beside those counted.      *)
(* So does NewestBuffered, of the events on their way to the buffer.       *)
(***************************************************************************)
EXTENDS Access, SecurityEvents, FiniteSetTheorems, WellFoundedInduction, TLAPS

(* An address is limited at any time, and a ban is no shorter than the     *)
(* window it is for: a limit of none, or a window longer than a ban, lets  *)
(* an address begin anew.                                                  *)
Limited ==
  \A r \in Rates \cup {RateGiven} : r.max > 0 /\ OrElse(r.ban, DefaultMinutes) >= Minute

Places == {"idle", "rate?", "locked?", "verify", "wrong", "right", "locking", "rate", "banning"}
Attempt ==
  [pc : Places, user : Users \cup {NoUser}, ip : Ips, bucket : Buckets \cup {NoBucket},
   delay : Int, owes : BOOLEAN]

Rating == [left : 0..Minute, count : Nat, ban : Nat]
Knows(job) ==
  /\ job.pc \in {"locked?", "right", "locking"} => job.user \in Users
  /\ job.pc = "verify" \/ job.bucket = NoBucket
Attempting == attempt \in [Attempts -> Attempt] /\ \A a \in Attempts : Knows(attempt[a])

Shape ==
  /\ failures \in [Buckets -> 0..MaxFailures] /\ locked \in [Buckets -> Nat]
  /\ rate \in [Ips -> Rating]
  /\ Attempting
  /\ backoff \in Backoff /\ writing \in Backoff /\ ipRate \in Rates \cup {RateGiven}
  /\ late \in [Buckets -> Nat]

(* The attempts that were told not to wait for a lockout of b, and those   *)
(* whose address i has not counted them yet.                               *)
Asleep(b) == {a \in Attempts : attempt[a].pc = "verify" /\ attempt[a].bucket = b}
UnderWay(i) ==
  {a \in Attempts : attempt[a].ip = i
                    /\ attempt[a].pc \in {"locked?", "verify", "wrong", "right", "locking", "rate"}}

(* Whoever locked b was not asleep for it.                                 *)
Lockout(b) ==
  IF locked[b] = 0 THEN late[b] = 0 ELSE late[b] + Cardinality(Asleep(b)) < Cardinality(Attempts)
LockoutCounted == \A b \in Buckets : Lockout(b)

(* Past every rate an address is banned for the rest of its window.        *)
Banned ==
  \A i \in Ips :
    (\A r \in Rates \cup {RateGiven} : rate[i].count > r.max) => rate[i].left <= rate[i].ban
RateCounted ==
  \A i \in Ips : \E r \in Rates \cup {RateGiven} :
    rate[i].count + Cardinality(UnderWay(i)) <= r.max + Cardinality(Attempts)

-----------------------------------------------------------------------------
(* Cardinalities.                                                          *)

LEMMA SubsetCard ==
  ASSUME NEW S, IsFiniteSet(S), NEW T \in SUBSET S
  PROVE  IsFiniteSet(T) /\ Cardinality(T) \in Nat /\ Cardinality(T) <= Cardinality(S)
BY FS_Subset, FS_CardinalityType

LEMMA SmallerCard ==
  ASSUME NEW S, IsFiniteSet(S), NEW T \in SUBSET S, NEW x \in S, x \notin T
  PROVE  Cardinality(T) + 1 <= Cardinality(S)
<1>1. IsFiniteSet(S \ {x}) /\ Cardinality(S \ {x}) = Cardinality(S) - 1
  BY FS_RemoveElement
<1>2. Cardinality(T) <= Cardinality(S \ {x}) /\ Cardinality(T) \in Nat /\ Cardinality(S) \in Nat
  BY <1>1, SubsetCard, FS_CardinalityType
<1> QED BY <1>1, <1>2

LEMMA OneMoreCard ==
  ASSUME NEW S, IsFiniteSet(S), NEW x, NEW T \in SUBSET (S \cup {x})
  PROVE  Cardinality(T) <= Cardinality(S) + 1
<1>1. Cardinality(S) \in Nat
  BY FS_CardinalityType
<1>2. IsFiniteSet(S \cup {x})
      /\ (Cardinality(S \cup {x}) = Cardinality(S) \/ Cardinality(S \cup {x}) = Cardinality(S) + 1)
  <2>1. CASE x \in S
    <3>1. S \cup {x} = S
      BY <2>1
    <3> QED BY <3>1
  <2>2. CASE x \notin S
    BY <2>2, FS_AddElement
  <2> QED BY <2>1, <2>2
<1>3. Cardinality(T) <= Cardinality(S \cup {x}) /\ Cardinality(T) \in Nat
  BY <1>2, SubsetCard
<1> QED BY <1>1, <1>2, <1>3

-----------------------------------------------------------------------------
(* Powers of two.  What a recursive function is for every argument follows *)
(* from the least argument for which it is not.                            *)

LEMMA Least ==
  ASSUME NEW S, S \subseteq Nat, S # {}
  PROVE  \E x \in S : \A y \in S : x <= y
<1>1. PICK R : R = OpToRel(<, Nat)
  OBVIOUS
<1>2. \A x \in Nat, y \in Nat : y < x => <<y, x>> \in R
  BY <1>1 DEF OpToRel
<1>3. PICK x \in S : \A y \in S : <<y, x>> \notin R
  <2>1. IsWellFoundedOn(R, Nat)
    BY <1>1, NatLessThanWellFounded
  <2> QED BY <2>1, WFMin
<1>4. \A y \in S : x <= y
  <2> SUFFICES ASSUME NEW y \in S PROVE x <= y
    OBVIOUS
  <2>1. x \in Nat /\ y \in Nat
    OBVIOUS
  <2>2. ~(y < x)
    BY <1>2, <1>3, <2>1
  <2> QED BY <2>1, <2>2
<1> QED BY <1>4

(* f is Pow2 up to n.                                                      *)
Powers(n, f) == f \in [0..n -> Nat] /\ f[0] = 1 /\ \A i \in 1..n : f[i] = 2 * f[i - 1]

LEMMA PowersUnique ==
  ASSUME NEW n \in Nat, NEW m \in Nat, n <= m, NEW f, Powers(n, f), NEW g, Powers(m, g)
  PROVE  \A i \in 0..n : f[i] = g[i]
<1> DEFINE S == {i \in 0..n : f[i] # g[i]}
<1> SUFFICES ASSUME S # {} PROVE FALSE
  OBVIOUS
<1>1. PICK k \in S : \A j \in S : k <= j
  <2>1. S \subseteq Nat
    OBVIOUS
  <2> QED BY <2>1, Least
<1>2. k # 0
  BY <1>1 DEF Powers
<1>3. k - 1 \in 0..n /\ k - 1 \notin S /\ k \in 1..n /\ k \in 1..m
  BY <1>1, <1>2
<1>4. f[k] = 2 * f[k - 1] /\ g[k] = 2 * g[k - 1]
  BY <1>3 DEF Powers
<1> QED BY <1>1, <1>3, <1>4

LEMMA PowersExist == \A n \in Nat : \E f : Powers(n, f)
<1> DEFINE S == {n \in Nat : ~\E f : Powers(n, f)}
<1> SUFFICES ASSUME S # {} PROVE FALSE
  OBVIOUS
<1>1. PICK k \in S : \A j \in S : k <= j
  BY Least
<1>2. Powers(0, [i \in 0..0 |-> 1])
  BY DEF Powers
<1>3. k # 0
  BY <1>1, <1>2
<1>4. PICK f : Powers(k - 1, f)
  <2>1. k - 1 \in Nat /\ ~(k <= k - 1)
    BY <1>1, <1>3
  <2> QED BY <1>1, <2>1
<1>5. PICK g : g = [i \in 0..k |-> IF i = k THEN 2 * f[k - 1] ELSE f[i]]
  OBVIOUS
<1>6. k \in Nat /\ k - 1 \in 0..(k - 1) /\ f[k - 1] \in Nat
  BY <1>1, <1>3, <1>4 DEF Powers
<1>7. g \in [0..k -> Nat]
  <2>1. \A i \in 0..k : i # k => f[i] \in Nat
    BY <1>4, <1>6 DEF Powers
  <2> QED BY <1>5, <1>6, <2>1
<1>8. \A i \in 1..k : g[i] = 2 * g[i - 1]
  <2> SUFFICES ASSUME NEW i \in 1..k PROVE g[i] = 2 * g[i - 1]
    OBVIOUS
  <2>1. i - 1 \in 0..k /\ i - 1 # k /\ i \in 0..k
    BY <1>6
  <2>2. g[i - 1] = f[i - 1]
    BY <1>5, <2>1
  <2>3. CASE i = k
    BY <1>5, <2>1, <2>2, <2>3
  <2>4. CASE i # k
    <3>1. i \in 1..(k - 1)
      BY <1>6, <2>4
    <3> QED BY <1>4, <1>5, <2>1, <2>2, <2>4, <3>1 DEF Powers
  <2> QED BY <2>3, <2>4
<1>9. g[0] = 1
  BY <1>3, <1>4, <1>5, <1>6 DEF Powers
<1> QED BY <1>1, <1>7, <1>8, <1>9 DEF Powers

LEMMA PowDefined == Pow2 = [n \in Nat |-> IF n = 0 THEN 1 ELSE 2 * Pow2[n - 1]]
<1>1. PICK P : P = [n \in Nat |-> CHOOSE f : Powers(n, f)]
  OBVIOUS
<1>2. \A n \in Nat : Powers(n, P[n])
  BY <1>1, PowersExist
<1>3. PICK F : F = [n \in Nat |-> P[n][n]]
  OBVIOUS
<1>4. F[0] = 1
  BY <1>2, <1>3 DEF Powers
<1>5. ASSUME NEW n \in Nat, n # 0 PROVE F[n] = 2 * F[n - 1]
  <2>1. n - 1 \in Nat /\ n - 1 <= n /\ n - 1 \in 0..(n - 1) /\ n \in 1..n
    BY <1>5
  <2>2. P[n][n] = 2 * P[n][n - 1]
    BY <1>2, <2>1 DEF Powers
  <2>3. P[n - 1][n - 1] = P[n][n - 1]
    BY <1>2, <2>1, PowersUnique
  <2> QED BY <1>3, <2>1, <2>2, <2>3
<1>6. F = [n \in Nat |-> IF n = 0 THEN 1 ELSE 2 * F[n - 1]]
  BY <1>3, <1>4, <1>5
<1> QED BY <1>6 DEF Pow2

LEMMA PowStep == Pow2[0] = 1 /\ \A n \in Nat : Pow2[n + 1] = 2 * Pow2[n]
<1>1. Pow2[0] = 1
  BY PowDefined
<1>2. ASSUME NEW n \in Nat PROVE Pow2[n + 1] = 2 * Pow2[n]
  <2>1. n + 1 \in Nat /\ n + 1 # 0 /\ (n + 1) - 1 = n
    OBVIOUS
  <2> QED BY <2>1, PowDefined
<1> QED BY <1>1, <1>2

LEMMA PowTyped == \A n \in Nat : Pow2[n] \in Nat /\ Pow2[n] > 0
<1> DEFINE S == {n \in Nat : ~(Pow2[n] \in Nat /\ Pow2[n] > 0)}
<1> SUFFICES ASSUME S # {} PROVE FALSE
  OBVIOUS
<1>1. PICK k \in S : \A j \in S : k <= j
  BY Least
<1>2. k # 0
  BY <1>1, PowStep
<1>3. k - 1 \in Nat /\ k - 1 \notin S /\ (k - 1) + 1 = k
  BY <1>1, <1>2
<1>4. Pow2[k] = 2 * Pow2[k - 1]
  BY <1>3, PowStep
<1> QED BY <1>1, <1>3, <1>4

LEMMA PowGrows == \A m, n \in Nat : m <= n => Pow2[m] <= Pow2[n]
<1> SUFFICES ASSUME NEW m \in Nat PROVE \A n \in Nat : m <= n => Pow2[m] <= Pow2[n]
  OBVIOUS
<1> DEFINE S == {n \in Nat : m <= n /\ ~(Pow2[m] <= Pow2[n])}
<1> SUFFICES ASSUME S # {} PROVE FALSE
  OBVIOUS
<1>1. PICK k \in S : \A j \in S : k <= j
  BY Least
<1>2. k # m
  BY <1>1, PowTyped
<1>3. k - 1 \in Nat /\ m <= k - 1 /\ k - 1 \notin S /\ (k - 1) + 1 = k
  BY <1>1, <1>2
<1>4. Pow2[k] = 2 * Pow2[k - 1]
  BY <1>3, PowStep
<1> QED BY <1>1, <1>3, <1>4, PowTyped

-----------------------------------------------------------------------------
(* Delays.                                                                 *)

LEMMA ShiftedTyped == \A base, exp \in Nat : Shifted(base, exp) \in Int
<1> SUFFICES ASSUME NEW base \in Nat, NEW exp \in Nat PROVE Shifted(base, exp) \in Int
  OBVIOUS
<1>1. PICK half : half = Pow2[Width - 1] /\ half \in Nat /\ half > 0
  BY PowTyped, AccessAssumption
<1>2. base * Pow2[exp] \in Nat
  BY PowTyped
<1>3. (base * Pow2[exp] + half) % (2 * half) \in Int
  BY <1>1, <1>2
<1> QED BY <1>1, <1>3 DEF Shifted

LEMMA DelayTyped ==
  ASSUME NEW c \in Backoff, NEW n \in Nat
  PROVE  Delay(c, n) \in Int
<1>1. CASE n = 0
  BY <1>1 DEF Delay
<1>2. CASE n # 0
  <2>1. /\ OrElse(c.base, DefaultBase) \in Nat /\ OrElse(c.maxDelay, DefaultMaxDelay) \in Nat
        /\ c.maxExp \in Nat /\ n - 1 \in Nat
    BY <1>2 DEF Backoff, OrElse, DefaultBase, DefaultMaxDelay
  <2>2. PICK exp \in Nat : exp = IF c.maxExp > 0 /\ n - 1 > c.maxExp THEN c.maxExp ELSE n - 1
    BY <2>1
  <2>3. Shifted(OrElse(c.base, DefaultBase), exp) \in Int
    BY <2>1, <2>2, ShiftedTyped
  <2> QED BY <1>2, <2>1, <2>2, <2>3 DEF Delay
<1> QED BY <1>1, <1>2

-----------------------------------------------------------------------------
(* Types.                                                                  *)

LEMMA ReadIsBackoff ==
  ASSUME Shape, NEW c \in BackoffRead
  PROVE  c \in Backoff
BY DEF Shape, BackoffRead, Backoff

LEMMA BucketIsBucket ==
  ASSUME Shape, NEW a \in Attempts, attempt[a].user \in Users, NEW c
  PROVE  Bucket(c, a) \in Buckets
BY DEF Shape, Attempting, Attempt, Bucket, Buckets

LEMMA NotABucket == NoBucket \notin Buckets
BY DEF NoBucket, Buckets

LEMMA NoAttemptTyped ==
  ASSUME NEW i \in Ips
  PROVE  NoAttempt \in Attempt /\ NoAttempt.pc = "idle" /\ NoAttempt.bucket = NoBucket
BY DEF NoAttempt, Attempt, Places

LEMMA RatingFields ==
  ASSUME NEW r \in Rating
  PROVE  r.left \in 0..Minute /\ r.count \in Nat /\ r.ban \in Nat
BY DEF Rating

LEMMA RolledTyped ==
  ASSUME NEW r \in Rating
  PROVE  Rolled(r) \in Rating /\ Rolled(r).ban = r.ban
         /\ IF r.left = 0 THEN Rolled(r).left = Minute /\ Rolled(r).count = 0 ELSE Rolled(r) = r
<1>1. CASE r.left = 0
  <2> DEFINE new == [r EXCEPT !.left = Minute, !.count = 0]
  <2>0. Minute \in 0..Minute
    BY AccessAssumption
  <2>1. new \in Rating
    BY <2>0 DEF Rating
  <2>2. new.ban = r.ban
    BY DEF Rating
  <2>3. new.left = Minute /\ new.count = 0
    BY DEF Rating
  <2>4. Rolled(r) = new
    BY <1>1 DEF Rolled
  <2> HIDE DEF new
  <2> QED BY <1>1, <2>1, <2>2, <2>3, <2>4
<1>2. CASE r.left # 0
  BY <1>2 DEF Rolled
<1> QED BY <1>1, <1>2

LEMMA LessTyped == \A n \in Nat : Less(n) \in Nat /\ Less(n) <= n
BY DEF Less

LEMMA JobTyped ==
  ASSUME Attempting, NEW a \in Attempts, NEW job \in Attempt, Knows(job),
         attempt' = [attempt EXCEPT ![a] = job]
  PROVE  Attempting'
BY DEF Attempting, Knows

LEMMA ToTyped ==
  ASSUME Attempting, NEW a \in Attempts, NEW pc \in Places, To(a, pc),
         pc \in {"locked?", "right", "locking"} => attempt[a].user \in Users,
         attempt[a].pc # "verify"
  PROVE  Attempting'
<1> DEFINE job == [attempt[a] EXCEPT !.pc = pc]
<1>1. job \in Attempt /\ job.pc = pc /\ job.user = attempt[a].user /\ job.bucket = NoBucket
  BY DEF Attempting, Attempt, Knows
<1>2. attempt' = [attempt EXCEPT ![a] = job]
  BY DEF To
<1> HIDE DEF job
<1> QED BY <1>1, <1>2, JobTyped DEF Knows

LEMMA EndsTyped ==
  ASSUME Attempting, NEW a \in Attempts, Ends(a)
  PROVE  Attempting'
<1>1. NoAttempt \in Attempt /\ Knows(NoAttempt)
  BY NoAttemptTyped DEF Attempting, Attempt, Knows
<1> QED BY <1>1, JobTyped DEF Ends

LEMMA AttemptTyped ==
  ASSUME Shape, NEW a \in Attempts, Arrive(a) \/ AttemptStep(a)
  PROVE  Attempting'
<1>0. attempt[a].ip \in Ips /\ attempt[a] \in Attempt /\ attempt[a].user \in Users \cup {NoUser}
  BY DEF Shape, Attempting, Attempt
<1>1. CASE Arrive(a)
  <2>1. PICK u \in Users \cup {NoUser}, i \in Ips :
       attempt' = [attempt EXCEPT ![a] = [NoAttempt EXCEPT !.pc = "rate?", !.user = u, !.ip = i]]
    BY <1>1 DEF Arrive
  <2> DEFINE job == [NoAttempt EXCEPT !.pc = "rate?", !.user = u, !.ip = i]
  <2>2. NoAttempt \in Attempt
    BY NoAttemptTyped
  <2>3. job \in Attempt /\ job.pc = "rate?" /\ job.bucket = NoBucket
    BY <2>2, NoAttemptTyped DEF Attempt, Places
  <2>4. attempt' = [attempt EXCEPT ![a] = job]
    BY <2>1
  <2> HIDE DEF job
  <2> QED BY <2>3, <2>4, JobTyped DEF Shape, Knows
<1>2. CASE RateCheck(a)
  <2>1. Ends(a) \/ To(a, "verify") \/ (To(a, "locked?") /\ attempt[a].user \in Users)
    BY <1>0, <1>2 DEF RateCheck
  <2>2. attempt[a].pc # "verify"
    BY <1>2 DEF RateCheck, At
  <2> QED BY <2>1, <2>2, EndsTyped, ToTyped DEF Shape, Places
<1>3. CASE BackoffCheck(a)
  <2>1. CASE Ends(a)
    BY <2>1, EndsTyped DEF Shape
  <2>2. ASSUME NEW c \in BackoffRead,
               attempt' = [attempt EXCEPT ![a].pc = "verify", ![a].bucket = Bucket(c, a),
                             ![a].delay = Delay(c, failures[Bucket(c, a)]),
                             ![a].owes = c.maxExp > 0 /\ failures[Bucket(c, a)] > 0]
        PROVE  Attempting'
    <3> DEFINE b == Bucket(c, a)
               d == Delay(c, failures[b])
               o == c.maxExp > 0 /\ failures[b] > 0
    <3>1. c \in Backoff /\ b \in Buckets
      BY <1>3, ReadIsBackoff, BucketIsBucket DEF BackoffCheck, At, Shape, Attempting, Knows
    <3>2. d \in Int
      BY <3>1, DelayTyped DEF Shape
    <3>3. o \in BOOLEAN
      OBVIOUS
    <3>4. attempt' = [attempt EXCEPT ![a].pc = "verify", ![a].bucket = b, ![a].delay = d, ![a].owes = o]
      BY <2>2
    <3> HIDE DEF b, d, o
    <3> DEFINE job == [attempt[a] EXCEPT !.pc = "verify", !.bucket = b, !.delay = d, !.owes = o]
    <3>5. attempt' = [attempt EXCEPT ![a] = job]
      BY <3>4 DEF Shape, Attempting
    <3>6. job \in Attempt /\ job.pc = "verify"
      BY <1>0, <3>1, <3>2, <3>3 DEF Attempt, Places
    <3> HIDE DEF job
    <3> QED BY <3>5, <3>6, JobTyped DEF Shape, Knows
  <2> QED BY <1>3, <2>1, <2>2 DEF BackoffCheck
<1>4. CASE Verify(a)
  <2>1. PICK pc \in {"right", "wrong"} :
          /\ pc = "right" => attempt[a].user # NoUser
          /\ attempt' = [attempt EXCEPT ![a] = [NoAttempt EXCEPT !.pc = pc, !.user = attempt[a].user,
                                                       !.ip = attempt[a].ip]]
    BY <1>4 DEF Verify
  <2> DEFINE job == [NoAttempt EXCEPT !.pc = pc, !.user = attempt[a].user, !.ip = attempt[a].ip]
  <2>2. NoAttempt \in Attempt
    BY <1>0, NoAttemptTyped
  <2>3. job \in Attempt /\ job.pc = pc /\ job.user = attempt[a].user /\ job.bucket = NoBucket
    BY <1>0, <2>2, NoAttemptTyped DEF Attempt, Places
  <2>4. attempt' = [attempt EXCEPT ![a] = job]
    BY <2>1
  <2> HIDE DEF job
  <2> QED BY <1>0, <2>1, <2>3, <2>4, JobTyped DEF Shape, Knows
<1>5. CASE RecordLoginFailure(a)
  <2>1. attempt[a].user \in Users /\ (To(a, "rate") \/ To(a, "locking"))
    BY <1>0, <1>5 DEF RecordLoginFailure
  <2>2. attempt[a].pc # "verify"
    BY <1>5 DEF RecordLoginFailure, At
  <2> QED BY <2>1, <2>2, ToTyped DEF Shape, Places
<1>6. CASE NothingToRecord(a) \/ LockReported(a) \/ BanReported(a) \/ ResetLoginBackoff(a) \/ RateRecord(a)
  <2>1. Ends(a) \/ To(a, "rate") \/ To(a, "banning")
    BY <1>6 DEF NothingToRecord, LockReported, BanReported, ResetLoginBackoff, RateRecord
  <2>2. attempt[a].pc # "verify"
    BY <1>6 DEF NothingToRecord, LockReported, BanReported, ResetLoginBackoff, RateRecord, At
  <2> QED BY <2>1, <2>2, EndsTyped, ToTyped DEF Shape, Places
<1> QED BY <1>1, <1>2, <1>3, <1>4, <1>5, <1>6 DEF AttemptStep

(* Every step keeps the types.                                             *)
LEMMA ShapeKeeps == Shape /\ [AccessNext]_accessVars => Shape'
<1> SUFFICES ASSUME Shape, [AccessNext]_accessVars PROVE Shape'
  OBVIOUS
<1>1. ASSUME NEW a \in Attempts, Arrive(a) \/ AttemptStep(a) PROVE Shape'
  <2>1. Attempting'
    BY <1>1, AttemptTyped
  <2>2. UNCHANGED settingVars
    BY <1>1 DEF Arrive, AttemptStep, RateCheck, BackoffCheck, Verify, RecordLoginFailure, NothingToRecord,
                LockReported, ResetLoginBackoff, RateRecord, BanReported
  <2>3. failures' \in [Buckets -> 0..MaxFailures] /\ locked' \in [Buckets -> Nat] /\ late' \in [Buckets -> Nat]
    <3>1. CASE RecordLoginFailure(a)
      <4>1. PICK c \in BackoffRead :
              LET b == Bucket(c, a)
                  n == failures[b] + 1
              IN /\ failures[b] < MaxFailures
                 /\ failures' = [failures EXCEPT ![b] = n]
                 /\ \/ UNCHANGED <<locked, late>>
                    \/ /\ locked' = [locked EXCEPT ![b] = OrElse(c.minutes, DefaultMinutes)]
                       /\ UNCHANGED late
        BY <3>1 DEF RecordLoginFailure
      <4>2. OrElse(c.minutes, DefaultMinutes) \in Nat
        BY <4>1, ReadIsBackoff DEF Backoff, OrElse, DefaultMinutes
      <4>3. attempt[a].user \in Users
        BY <3>1 DEF RecordLoginFailure, Shape, Attempting, Attempt
      <4>4. Bucket(c, a) \in Buckets
        BY <4>3, BucketIsBucket
      <4> HIDE DEF Buckets
      <4> QED BY <4>1, <4>2, <4>4, AccessAssumption DEF Shape
    <3>2. CASE ResetLoginBackoff(a)
      <4>1. PICK c \in BackoffRead :
              /\ failures' = [failures EXCEPT ![Bucket(c, a)] = 0]
              /\ locked' = [locked EXCEPT ![Bucket(c, a)] = 0]
              /\ late' = [late EXCEPT ![Bucket(c, a)] = 0]
        BY <3>2 DEF ResetLoginBackoff
      <4>2. failures' \in [Buckets -> 0..MaxFailures]
        <5>1. 0 \in 0..MaxFailures
          BY AccessAssumption
        <5> QED BY <4>1, <5>1 DEF Shape
      <4>3. locked' \in [Buckets -> Nat]
        BY <4>1 DEF Shape
      <4>4. late' \in [Buckets -> Nat]
        BY <4>1 DEF Shape
      <4> QED BY <4>2, <4>3, <4>4
    <3>3. CASE Verify(a)
      <4>1. late' = late \/ \E b \in {attempt[a].bucket} : late' = [late EXCEPT ![b] = late[b] + 1]
        BY <3>3 DEF Verify
      <4>2. late' \in [Buckets -> Nat]
        BY <4>1 DEF Shape
      <4> QED BY <3>3, <4>2 DEF Verify, Shape, limitVars
    <3>4. CASE ~RecordLoginFailure(a) /\ ~ResetLoginBackoff(a) /\ ~Verify(a)
      BY <1>1, <3>4 DEF Arrive, AttemptStep, RateCheck, BackoffCheck, NothingToRecord,
                        LockReported, RateRecord, BanReported, limitVars, Shape
    <3> QED BY <3>1, <3>2, <3>3, <3>4
  <2>4. rate' \in [Ips -> Rating]
    <3>0. attempt[a].ip \in Ips
      BY DEF Shape, Attempting, Attempt
    <3>1. CASE RateCheck(a)
      BY <3>0, <3>1, RolledTyped DEF RateCheck, Shape
    <3>2. CASE RateRecord(a)
      <4> DEFINE i == attempt[a].ip
                 r == Rolled(rate[i])
      <4>1. r \in Rating
        BY <3>0, RolledTyped DEF Shape
      <4>2. OrElse(ipRate.ban, DefaultMinutes) \in Nat
        BY AccessAssumption DEF Shape, OrElse, DefaultMinutes, Rate
      <4>3. \/ rate' = [rate EXCEPT ![i] = [r EXCEPT !.count = r.count + 1]]
            \/ rate' = [rate EXCEPT ![i] = [r EXCEPT !.count = r.count + 1, !.ban = OrElse(ipRate.ban, DefaultMinutes)]]
        BY <3>2 DEF RateRecord
      <4>4. r.count + 1 \in Nat
        BY <4>1, RatingFields
      <4> DEFINE ban == OrElse(ipRate.ban, DefaultMinutes)
      <4> HIDE DEF r, i, ban
      <4>5. [r EXCEPT !.count = r.count + 1] \in Rating
        BY <4>1, <4>4 DEF Rating
      <4>6. [r EXCEPT !.count = r.count + 1, !.ban = ban] \in Rating
        BY <4>1, <4>2, <4>4 DEF Rating, ban
      <4> QED BY <4>3, <4>5, <4>6 DEF Shape, ban
    <3>3. CASE ~RateCheck(a) /\ ~RateRecord(a)
      BY <1>1, <3>3 DEF Arrive, AttemptStep, BackoffCheck, Verify, RecordLoginFailure, NothingToRecord,
                        LockReported, ResetLoginBackoff, BanReported, limitVars, Shape
    <3> QED BY <3>1, <3>2, <3>3
  <2> QED BY <2>1, <2>2, <2>3, <2>4 DEF Shape, settingVars
<1>2. CASE Tick
  <2>1. locked' \in [Buckets -> Nat]
    BY <1>2, LessTyped DEF Tick, Shape
  <2>2. late' \in [Buckets -> Nat]
    BY <1>2 DEF Tick, Shape
  <2>3. ASSUME NEW r \in Rating
        PROVE  [r EXCEPT !.left = Less(r.left), !.ban = Less(r.ban)] \in Rating
    <3>1. Less(r.left) \in 0..Minute /\ Less(r.ban) \in Nat
      BY LessTyped, RatingFields, AccessAssumption
    <3> QED BY <3>1 DEF Rating
  <2>4. rate' \in [Ips -> Rating]
    BY <1>2, <2>3 DEF Tick, Shape
  <2> QED BY <1>2, <2>1, <2>2, <2>4 DEF Tick, Shape, Attempting, settingVars
<1>3. CASE SettingsStep
  BY <1>3, AccessAssumption
     DEF SettingsStep, UpdateLoginBackoff, StoreLoginBackoff, UpdateIPRate, Shape, Attempting, limitVars
<1>4. CASE RestartServer
  <2>1. Attempting'
    BY <1>4, NoAttemptTyped DEF RestartServer, Shape, Attempting, Attempt, Knows
  <2>2. NoRate \in Rating
    BY AccessAssumption DEF NoRate, Rating
  <2>3. rate' \in [Ips -> Rating]
    BY <1>4, <2>2 DEF RestartServer
  <2>4. /\ failures' \in [Buckets -> 0..MaxFailures] /\ locked' \in [Buckets -> Nat]
        /\ late' \in [Buckets -> Nat]
    BY <1>4, AccessAssumption DEF RestartServer
  <2>5. backoff' \in Backoff /\ writing' \in Backoff /\ ipRate' \in Rates \cup {RateGiven}
    BY <1>4, AccessAssumption DEF RestartServer
  <2> QED BY <2>1, <2>3, <2>4, <2>5 DEF Shape
<1>5. CASE UNCHANGED accessVars
  BY <1>5 DEF accessVars, Shape, Attempting
<1> QED BY <1>1, <1>2, <1>3, <1>4, <1>5 DEF AccessNext

-----------------------------------------------------------------------------
(* The lockout.                                                            *)

(* A step of an attempt changes no other.                                  *)
LEMMA OthersStay ==
  ASSUME Shape, NEW a \in Attempts, Arrive(a) \/ AttemptStep(a), NEW o \in Attempts, o # a
  PROVE  attempt'[o] = attempt[o]
BY DEF Arrive, AttemptStep, RateCheck, BackoffCheck, Verify, RecordLoginFailure, NothingToRecord,
       LockReported, ResetLoginBackoff, RateRecord, BanReported, Ends, To, Shape, Attempting

(* Only BackoffCheck puts an attempt to sleep for a bucket.                *)
LEMMA NobodyFallsAsleep ==
  ASSUME Shape, NEW a \in Attempts, Arrive(a) \/ AttemptStep(a), NEW b \in Buckets,
         attempt'[a].pc = "verify", attempt'[a].bucket = b
  PROVE  BackoffCheck(a)
<1>1. Attempting'
  BY AttemptTyped
<1>2. CASE RateCheck(a)
  <2>1. attempt[a].bucket = NoBucket
    BY <1>2 DEF RateCheck, At, Shape, Attempting, Knows
  <2>2. attempt'[a].bucket = NoBucket
    BY <1>2, <2>1, NoAttemptTyped DEF RateCheck, Ends, To, Shape, Attempting, Attempt
  <2> QED BY <2>2, NotABucket
<1>3. ASSUME ~RateCheck(a), ~BackoffCheck(a) PROVE FALSE
  <2>1. attempt'[a].pc # "verify"
    <3>1. CASE Arrive(a)
      BY <3>1 DEF Arrive, Shape, Attempting, NoAttempt
    <3>2. CASE Verify(a)
      BY <3>2 DEF Verify, Shape, Attempting, NoAttempt
    <3>3. CASE \E pc \in {"rate", "locking", "banning"} : To(a, pc)
      BY <3>3 DEF To, Shape, Attempting, Attempt
    <3>4. CASE Ends(a)
      BY <3>4 DEF Ends, Shape, Attempting, NoAttempt
    <3> QED BY <1>3, <3>1, <3>2, <3>3, <3>4
            DEF AttemptStep, RecordLoginFailure, NothingToRecord, LockReported, ResetLoginBackoff, RateRecord, BanReported
  <2> QED BY <2>1
<1> QED BY <1>2, <1>3

LEMMA SleepersCounted ==
  ASSUME IsFiniteSet(Attempts), NEW b
  PROVE  /\ Asleep(b) \subseteq Attempts /\ IsFiniteSet(Asleep(b))
         /\ Cardinality(Asleep(b)) \in Nat /\ Cardinality(Attempts) \in Nat
BY SubsetCard, FS_CardinalityType DEF Asleep

(* A bucket whose lockout and count stay, and for which nobody new is      *)
(* asleep.                                                                 *)
LEMMA SleepersLeave ==
  ASSUME IsFiniteSet(Attempts), Shape, NEW b \in Buckets, Lockout(b),
         Asleep(b)' \subseteq Asleep(b), locked'[b] = 0 <=> locked[b] = 0, late'[b] = late[b]
  PROVE  Lockout(b)'
<1>1. Cardinality(Asleep(b)') <= Cardinality(Asleep(b)) /\ Cardinality(Asleep(b)') \in Nat
  BY SleepersCounted, SubsetCard
<1>2. late[b] \in Nat /\ Cardinality(Asleep(b)) \in Nat /\ Cardinality(Attempts) \in Nat
  BY SleepersCounted DEF Shape
<1> QED BY <1>1, <1>2 DEF Lockout

LEMMA AttemptKeepsLockout ==
  ASSUME IsFiniteSet(Attempts), Shape, NEW a \in Attempts, Arrive(a) \/ AttemptStep(a),
         NEW b \in Buckets, Lockout(b)
  PROVE  Lockout(b)'
<1>1. CASE BackoffCheck(a)
  <2>0. UNCHANGED <<locked, late>>
    BY <1>1 DEF BackoffCheck, limitVars
  <2>1. CASE locked[b] = 0
    BY <2>0, <2>1 DEF Lockout
  <2>2. CASE locked[b] # 0
    <3>1. ~(attempt'[a].pc = "verify" /\ attempt'[a].bucket = b)
      <4>1. CASE Ends(a)
        BY <4>1, NoAttemptTyped DEF Ends, Shape, Attempting, Attempt
      <4>2. ASSUME NEW c \in BackoffRead, locked[Bucket(c, a)] = 0,
                   attempt'[a].bucket = Bucket(c, a)
            PROVE  ~(attempt'[a].pc = "verify" /\ attempt'[a].bucket = b)
        BY <2>2, <4>2
      <4>3. ASSUME NEW c \in BackoffRead,
                   attempt' = [attempt EXCEPT ![a].pc = "verify", ![a].bucket = Bucket(c, a),
                                 ![a].delay = Delay(c, failures[Bucket(c, a)]),
                                 ![a].owes = c.maxExp > 0 /\ failures[Bucket(c, a)] > 0]
            PROVE  attempt'[a].bucket = Bucket(c, a)
        BY <4>3 DEF Shape, Attempting, Attempt
      <4> QED BY <1>1, <4>1, <4>2, <4>3 DEF BackoffCheck
    <3>2. Asleep(b)' \subseteq Asleep(b)
      BY <3>1, OthersStay DEF Asleep
    <3> QED BY <2>0, <3>2, SleepersLeave
  <2> QED BY <2>1, <2>2
<1>2. CASE ~BackoffCheck(a)
  <2>1. /\ ~(attempt'[a].pc = "verify" /\ attempt'[a].bucket = b)
        /\ Asleep(b)' \subseteq Asleep(b)
    BY <1>2, NobodyFallsAsleep, OthersStay DEF Asleep
  <2>2. CASE Verify(a)
    <3>1. UNCHANGED locked
      BY <2>2 DEF Verify, limitVars
    <3>2. CASE attempt[a].bucket = b /\ locked[b] > 0
      <4>1. a \in Asleep(b) /\ a \notin Asleep(b)'
        BY <2>1, <2>2, <3>2 DEF Verify, At, Asleep
      <4>2. Cardinality(Asleep(b)') + 1 <= Cardinality(Asleep(b))
        BY <2>1, <4>1, SleepersCounted, SmallerCard
      <4>3. late'[b] = late[b] + 1
        BY <2>2, <3>2, NotABucket DEF Verify, Shape
      <4>4. Cardinality(Asleep(b)') \in Nat
        BY <2>1, SleepersCounted, SubsetCard
      <4> QED BY <3>1, <3>2, <4>2, <4>3, <4>4, SleepersCounted DEF Lockout, Shape
    <3>3. CASE ~(attempt[a].bucket = b /\ locked[b] > 0)
      <4>1. late'[b] = late[b]
        BY <2>2, <3>3 DEF Verify, Shape
      <4> QED BY <2>1, <3>1, <4>1, SleepersLeave
    <3> QED BY <3>2, <3>3
  <2>3. CASE RecordLoginFailure(a)
    <3>1. UNCHANGED late
      BY <2>3 DEF RecordLoginFailure
    <3>2. CASE locked'[b] = locked[b]
      BY <2>1, <3>1, <3>2, SleepersLeave
    <3>3. CASE locked'[b] # locked[b]
      <4>1. locked'[b] > 0
        BY <2>3, <3>3, ReadIsBackoff DEF RecordLoginFailure, Shape, OrElse, DefaultMinutes, Backoff
      <4>2. CASE locked[b] # 0
        BY <2>1, <3>1, <4>1, <4>2, SleepersLeave
      <4>3. CASE locked[b] = 0
        <5>1. Asleep(b)' \subseteq Attempts /\ a \notin Asleep(b)'
          BY <2>1 DEF Asleep
        <5>2. Cardinality(Asleep(b)') + 1 <= Cardinality(Attempts)
          BY <5>1, SmallerCard
        <5>3. late'[b] = 0 /\ Cardinality(Asleep(b)') \in Nat /\ Cardinality(Attempts) \in Nat
          BY <3>1, <4>3, <5>1, SubsetCard, FS_CardinalityType DEF Lockout
        <5> QED BY <4>1, <5>2, <5>3 DEF Lockout
      <4> QED BY <4>2, <4>3
    <3> QED BY <3>2, <3>3
  <2>4. CASE ResetLoginBackoff(a)
    <3>1. PICK k \in {Bucket(c, a) : c \in BackoffRead} :
            locked' = [locked EXCEPT ![k] = 0] /\ late' = [late EXCEPT ![k] = 0]
      BY <2>4 DEF ResetLoginBackoff
    <3>2. CASE k = b
      BY <3>1, <3>2 DEF Lockout, Shape
    <3>3. CASE k # b
      <4>1. locked'[b] = locked[b] /\ late'[b] = late[b]
        BY <3>1, <3>3 DEF Shape
      <4> QED BY <2>1, <4>1, SleepersLeave
    <3> QED BY <3>2, <3>3
  <2>5. CASE ~Verify(a) /\ ~RecordLoginFailure(a) /\ ~ResetLoginBackoff(a)
    <3>1. UNCHANGED <<locked, late>>
      BY <1>2, <2>5 DEF Arrive, AttemptStep, RateCheck, NothingToRecord, LockReported, RateRecord, BanReported, limitVars
    <3> QED BY <2>1, <3>1, SleepersLeave
  <2> QED BY <2>2, <2>3, <2>4, <2>5
<1> QED BY <1>1, <1>2

LEMMA LockoutKeeps ==
  ASSUME IsFiniteSet(Attempts), Shape, LockoutCounted, [AccessNext]_accessVars
  PROVE  LockoutCounted'
<1> SUFFICES ASSUME NEW b \in Buckets PROVE Lockout(b)'
  BY DEF LockoutCounted
<1>0. Lockout(b)
  BY DEF LockoutCounted
<1>1. ASSUME NEW a \in Attempts, Arrive(a) \/ AttemptStep(a) PROVE Lockout(b)'
  BY <1>0, <1>1, AttemptKeepsLockout
<1>2. CASE Tick
  <2>1. Asleep(b)' = Asleep(b)
    BY <1>2 DEF Tick, Asleep
  <2>2. CASE locked'[b] = 0
    BY <1>2, <2>2 DEF Tick, Lockout
  <2>3. CASE locked'[b] # 0
    <3>1. locked'[b] = Less(locked[b])
      BY <1>2 DEF Tick
    <3>2. locked[b] # 0
      BY <2>3, <3>1 DEF Less
    <3>3. late'[b] = late[b]
      BY <1>2, <2>3 DEF Tick
    <3> QED BY <1>0, <2>1, <2>3, <3>2, <3>3, SleepersLeave
  <2> QED BY <2>2, <2>3
<1>3. CASE SettingsStep \/ UNCHANGED accessVars
  <2>1. UNCHANGED <<locked, late, attempt>>
    BY <1>3 DEF SettingsStep, UpdateLoginBackoff, StoreLoginBackoff, UpdateIPRate, limitVars, accessVars
  <2>2. Asleep(b)' = Asleep(b)
    BY <2>1 DEF Asleep
  <2> QED BY <1>0, <2>1, <2>2 DEF Lockout
<1>4. CASE RestartServer
  BY <1>4 DEF RestartServer, Lockout
<1> QED BY <1>1, <1>2, <1>3, <1>4 DEF AccessNext

-----------------------------------------------------------------------------
(* The rate.                                                               *)

Enough(i, r) == rate[i].count + Cardinality(UnderWay(i)) <= r.max + Cardinality(Attempts)

LEMMA UnderWayCounted ==
  ASSUME IsFiniteSet(Attempts), NEW i
  PROVE  /\ UnderWay(i) \subseteq Attempts /\ IsFiniteSet(UnderWay(i))
         /\ Cardinality(UnderWay(i)) \in Nat /\ Cardinality(Attempts) \in Nat
         /\ Cardinality(UnderWay(i)) <= Cardinality(Attempts)
BY SubsetCard, FS_CardinalityType DEF UnderWay

(* An address whose count and rest of a ban stay, and for which nobody new *)
(* is under way.                                                           *)
LEMMA UnderWayEnd ==
  ASSUME IsFiniteSet(Attempts), Shape, NEW i \in Ips, NEW r \in Rates \cup {RateGiven}, Enough(i, r),
         UnderWay(i)' \subseteq UnderWay(i), rate'[i].count = rate[i].count
  PROVE  Enough(i, r)'
<1>1. Cardinality(UnderWay(i)') <= Cardinality(UnderWay(i)) /\ Cardinality(UnderWay(i)') \in Nat
  BY UnderWayCounted, SubsetCard
<1>2. rate[i].count \in Nat /\ r.max \in Nat
  BY RatingFields, AccessAssumption DEF Shape, Rate
<1> QED BY <1>1, <1>2, UnderWayCounted DEF Enough

(* An address that begins anew.                                            *)
LEMMA NothingCounted ==
  ASSUME IsFiniteSet(Attempts), NEW i \in Ips, rate'[i].count = 0
  PROVE  Enough(i, RateGiven)'
<1>1. /\ Cardinality(UnderWay(i)') \in Nat /\ Cardinality(Attempts) \in Nat
      /\ Cardinality(UnderWay(i)') <= Cardinality(Attempts)
  BY SubsetCard, FS_CardinalityType DEF UnderWay
<1>2. RateGiven.max \in Nat
  BY AccessAssumption DEF Rate
<1> QED BY <1>1, <1>2 DEF Enough

(* Of the steps of an attempt only RateCheck lets one be under way, and    *)
(* only RateRecord counts it.                                              *)
LEMMA NobodySetsOut ==
  ASSUME Shape, NEW a \in Attempts, Arrive(a) \/ AttemptStep(a), ~RateCheck(a), ~RateRecord(a), NEW i \in Ips
  PROVE  UnderWay(i)' \subseteq UnderWay(i) /\ UNCHANGED rate
<1> DEFINE out == {"locked?", "verify", "wrong", "right", "locking", "rate"}
<1>0. attempt[a] \in Attempt
  BY DEF Shape, Attempting
<1>1. attempt'[a].pc \in out => attempt[a].pc \in out /\ attempt'[a].ip = attempt[a].ip
  <2>1. CASE Arrive(a)
    <3>1. PICK u \in Users \cup {NoUser}, ip \in Ips :
            attempt' = [attempt EXCEPT ![a] = [NoAttempt EXCEPT !.pc = "rate?", !.user = u, !.ip = ip]]
      BY <2>1 DEF Arrive
    <3> DEFINE job == [NoAttempt EXCEPT !.pc = "rate?", !.user = u, !.ip = ip]
    <3>2. job.pc = "rate?"
      BY <1>0, NoAttemptTyped DEF Attempt
    <3>3. attempt'[a] = job
      BY <3>1 DEF Shape, Attempting
    <3> HIDE DEF job
    <3> QED BY <3>2, <3>3
  <2>2. CASE Ends(a)
    BY <2>2 DEF Ends, Shape, Attempting, NoAttempt
  <2>3. CASE Verify(a)
    <3>1. PICK pc \in {"right", "wrong"} :
            attempt' = [attempt EXCEPT ![a] = [NoAttempt EXCEPT !.pc = pc, !.user = attempt[a].user,
                                                         !.ip = attempt[a].ip]]
      BY <2>3 DEF Verify
    <3> DEFINE job == [NoAttempt EXCEPT !.pc = pc, !.user = attempt[a].user, !.ip = attempt[a].ip]
    <3>2. job.ip = attempt[a].ip
      BY <1>0, NoAttemptTyped DEF Attempt
    <3>3. attempt'[a] = job
      BY <3>1 DEF Shape, Attempting
    <3> HIDE DEF job
    <3> QED BY <2>3, <3>2, <3>3 DEF Verify, At
  <2>4. CASE BackoffCheck(a)
    <3>1. attempt'[a].ip = attempt[a].ip \/ Ends(a)
      BY <1>0, <2>4 DEF BackoffCheck, Shape, Attempting, Attempt
    <3> QED BY <2>2, <2>4, <3>1 DEF BackoffCheck, At
  <2>5. CASE \E pc \in {"rate", "locking"} : To(a, pc) /\ attempt[a].pc \in out
    BY <1>0, <2>5 DEF To, Shape, Attempting, Attempt
  <2> QED BY <2>1, <2>2, <2>3, <2>4, <2>5
          DEF AttemptStep, RecordLoginFailure, NothingToRecord, LockReported, ResetLoginBackoff, BanReported, At
<1>2. UNCHANGED rate
  BY DEF Arrive, AttemptStep, BackoffCheck, Verify, RecordLoginFailure, NothingToRecord,
         LockReported, ResetLoginBackoff, BanReported, limitVars
<1> QED BY <1>1, <1>2, OthersStay DEF UnderWay

LEMMA CheckKeepsRate ==
  ASSUME IsFiniteSet(Attempts), Limited, Shape, Shape', Banned, RateCounted,
         NEW a \in Attempts, RateCheck(a), NEW i \in Ips
  PROVE  /\ \E r \in Rates \cup {RateGiven} : Enough(i, r)'
         /\ (\A r \in Rates \cup {RateGiven} : rate'[i].count > r.max) => rate'[i].left <= rate'[i].ban
<1> DEFINE j == attempt[a].ip
<1>0. j \in Ips /\ Rolled(rate[i]) \in Rating /\ rate[i] \in Rating
  BY RolledTyped DEF Shape, Attempting, Attempt
<1>1. PICK r0 \in Rates \cup {RateGiven} : Enough(i, r0)
  BY DEF RateCounted, Enough
<1>2. CASE Ends(a) /\ UNCHANGED rate
  <2>1. UnderWay(i)' \subseteq UnderWay(i)
    BY <1>2, NoAttemptTyped, OthersStay DEF AttemptStep, UnderWay, Ends, Shape, Attempting, Attempt
  <2> QED BY <1>1, <1>2, <2>1, UnderWayEnd DEF Banned
<1>3. CASE rate[j].ban = 0 /\ rate' = [rate EXCEPT ![j] = Rolled(rate[j])] /\ i # j
  <2>1. UnderWay(i)' \subseteq UnderWay(i)
    <3>1. attempt'[a].ip = j
      BY <1>3, NoAttemptTyped DEF RateCheck, To, Ends, Shape, Attempting, Attempt
    <3> QED BY <1>3, <3>1, OthersStay DEF AttemptStep, UnderWay
  <2>2. rate'[i] = rate[i]
    BY <1>3 DEF Shape
  <2> QED BY <1>1, <2>1, <2>2, UnderWayEnd DEF Banned
<1>4. CASE rate[j].ban = 0 /\ rate' = [rate EXCEPT ![j] = Rolled(rate[j])] /\ i = j
  <2>0. rate'[i] = Rolled(rate[i])
    BY <1>4, <1>0 DEF Shape
  <2>1. CASE rate[i].left = 0
    <3>1. rate'[i].count = 0
      BY <1>0, <2>0, <2>1, RolledTyped
    <3>2. ~(\A r \in Rates \cup {RateGiven} : rate'[i].count > r.max)
      BY <3>1, AccessAssumption DEF Rate
    <3> QED BY <3>1, <3>2, NothingCounted
  <2>2. CASE rate[i].left # 0
    <3>1. rate'[i] = rate[i]
      BY <1>0, <2>0, <2>2, RolledTyped
    <3>2. PICK r \in Rates \cup {RateGiven} : ~(rate[i].count > r.max)
      BY <1>0, <1>4, <2>2, RatingFields, AccessAssumption DEF Banned
    <3>3. rate[i].count <= r.max /\ rate[i].count \in Nat /\ r.max \in Nat
      BY <1>0, <3>2, RatingFields, AccessAssumption DEF Rate
    <3>4. /\ Cardinality(UnderWay(i)') \in Nat /\ Cardinality(Attempts) \in Nat
          /\ Cardinality(UnderWay(i)') <= Cardinality(Attempts)
      BY SubsetCard, FS_CardinalityType DEF UnderWay
    <3>5. Enough(i, r)'
      BY <3>1, <3>3, <3>4 DEF Enough
    <3> QED BY <3>1, <3>5 DEF Banned
  <2> QED BY <2>1, <2>2
<1> QED BY <1>2, <1>3, <1>4 DEF RateCheck

LEMMA RecordKeepsRate ==
  ASSUME IsFiniteSet(Attempts), Limited, Shape, Shape', Banned, RateCounted,
         NEW a \in Attempts, RateRecord(a), NEW i \in Ips
  PROVE  /\ \E r \in Rates \cup {RateGiven} : Enough(i, r)'
         /\ (\A r \in Rates \cup {RateGiven} : rate'[i].count > r.max) => rate'[i].left <= rate'[i].ban
<1> DEFINE j == attempt[a].ip
           old == Rolled(rate[j])
           ban == OrElse(ipRate.ban, DefaultMinutes)
<1>0. /\ j \in Ips /\ rate[i] \in Rating /\ rate[j] \in Rating /\ old \in Rating
      /\ old.left \in 0..Minute /\ old.count \in Nat /\ old.ban \in Nat
  BY RolledTyped, RatingFields DEF Shape, Attempting, Attempt
<1>1. PICK r0 \in Rates \cup {RateGiven} : Enough(i, r0)
  BY DEF RateCounted, Enough
<1>2. ipRate \in Rates \cup {RateGiven} /\ ipRate.max \in Nat /\ ipRate.max > 0 /\ ban \in Nat /\ ban >= Minute
  BY AccessAssumption DEF Shape, Limited, Rate, OrElse, DefaultMinutes
<1>3. /\ attempt'[a].pc \in {"idle", "banning"}
      /\ \A o \in Attempts : o # a => attempt'[o] = attempt[o]
  <2>1. CASE Ends(a)
    BY <2>1, NoAttemptTyped, OthersStay DEF AttemptStep, Ends, Shape, Attempting, Attempt
  <2>2. CASE To(a, "banning")
    BY <2>2, OthersStay DEF AttemptStep, To, Shape, Attempting, Attempt
  <2> QED BY <2>1, <2>2 DEF RateRecord
<1>4. UnderWay(i)' \subseteq UnderWay(i) /\ a \notin UnderWay(i)'
  BY <1>3 DEF UnderWay
<1>5. \/ /\ ~(old.count + 1 > ipRate.max)
         /\ rate' = [rate EXCEPT ![j] = [old EXCEPT !.count = old.count + 1]]
      \/ rate' = [rate EXCEPT ![j] = [old EXCEPT !.count = old.count + 1, !.ban = ban]]
  BY <1>2 DEF RateRecord
<1>6. CASE i # j
  <2>1. rate'[i] = rate[i]
    BY <1>5, <1>6 DEF Shape
  <2> QED BY <1>1, <1>4, <2>1, UnderWayEnd DEF Banned
<1>7. CASE i = j
  <2>1. /\ rate'[i].count = old.count + 1 /\ rate'[i].left = old.left
        /\ old.count + 1 > ipRate.max => rate'[i].ban = ban
    <3> HIDE DEF old, ban, j
    <3>1. /\ [old EXCEPT !.count = old.count + 1].count = old.count + 1
          /\ [old EXCEPT !.count = old.count + 1].left = old.left
      BY <1>0 DEF Rating
    <3>2. /\ [old EXCEPT !.count = old.count + 1, !.ban = ban].count = old.count + 1
          /\ [old EXCEPT !.count = old.count + 1, !.ban = ban].left = old.left
          /\ [old EXCEPT !.count = old.count + 1, !.ban = ban].ban = ban
      BY <1>0 DEF Rating
    <3> QED BY <1>5, <1>7, <3>1, <3>2 DEF Shape
  <2>2. (\A r \in Rates \cup {RateGiven} : rate'[i].count > r.max) => rate'[i].left <= rate'[i].ban
    <3> HIDE DEF old, ban
    <3> QED BY <1>0, <1>2, <2>1, AccessAssumption
  <2>3. Cardinality(UnderWay(i)') + 1 <= Cardinality(UnderWay(i)) /\ Cardinality(UnderWay(i)') \in Nat
    <3>1. a \in UnderWay(i)
      BY <1>7 DEF UnderWay, RateRecord, At
    <3> QED BY <1>4, <3>1, UnderWayCounted, SmallerCard, SubsetCard
  <2>4. CASE rate[i].left = 0
    <3>1. old.count = 0 /\ RateGiven.max \in Nat
      BY <1>0, <1>7, <2>4, RolledTyped, AccessAssumption DEF Rate
    <3>2. Enough(i, RateGiven)'
      BY <2>1, <2>3, <3>1, UnderWayCounted DEF Enough
    <3> QED BY <2>2, <3>2
  <2>5. CASE rate[i].left # 0
    <3>1. old = rate[i] /\ r0.max \in Nat
      BY <1>0, <1>7, <2>5, RolledTyped, AccessAssumption DEF Rate
    <3> HIDE DEF old
    <3>2. Enough(i, r0)'
      BY <1>0, <1>1, <2>1, <2>3, <3>1, UnderWayCounted DEF Enough
    <3> QED BY <2>2, <3>2
  <2> QED BY <2>4, <2>5
<1> QED BY <1>6, <1>7

LEMMA RateKeeps ==
  ASSUME IsFiniteSet(Attempts), Limited, Shape, Banned, RateCounted, [AccessNext]_accessVars
  PROVE  Banned' /\ RateCounted'
<1>0. Shape'
  BY ShapeKeeps
<1> SUFFICES ASSUME NEW i \in Ips
    PROVE  /\ \E r \in Rates \cup {RateGiven} : Enough(i, r)'
           /\ (\A r \in Rates \cup {RateGiven} : rate'[i].count > r.max) => rate'[i].left <= rate'[i].ban
  BY DEF Banned, RateCounted, Enough
<1>1. PICK r0 \in Rates \cup {RateGiven} : Enough(i, r0)
  BY DEF RateCounted, Enough
<1>2. ASSUME NEW a \in Attempts, Arrive(a) \/ AttemptStep(a)
      PROVE  /\ \E r \in Rates \cup {RateGiven} : Enough(i, r)'
             /\ (\A r \in Rates \cup {RateGiven} : rate'[i].count > r.max) => rate'[i].left <= rate'[i].ban
  <2>1. CASE RateCheck(a)
    BY <1>0, <2>1, CheckKeepsRate
  <2>2. CASE RateRecord(a)
    BY <1>0, <2>2, RecordKeepsRate
  <2>3. CASE ~RateCheck(a) /\ ~RateRecord(a)
    <3>1. UnderWay(i)' \subseteq UnderWay(i) /\ UNCHANGED rate
      BY <1>2, <2>3, NobodySetsOut
    <3> QED BY <1>1, <3>1, UnderWayEnd DEF Banned
  <2> QED BY <2>1, <2>2, <2>3
<1>3. CASE Tick
  <2> DEFINE new == [rate[i] EXCEPT !.left = Less(rate[i].left), !.ban = Less(rate[i].ban)]
  <2>1. rate'[i] = new
    BY <1>3 DEF Tick
  <2>2. new.left = Less(rate[i].left) /\ new.ban = Less(rate[i].ban) /\ new.count = rate[i].count
    BY DEF Shape, Rating
  <2> HIDE DEF new
  <2>3. UnderWay(i)' = UnderWay(i)
    BY <1>3 DEF Tick, UnderWay
  <2>4. Enough(i, r0)'
    BY <1>1, <2>1, <2>2, <2>3 DEF Enough
  <2>5. rate[i].left <= rate[i].ban => Less(rate[i].left) <= Less(rate[i].ban)
    BY RatingFields DEF Less, Shape
  <2> QED BY <2>1, <2>2, <2>4, <2>5 DEF Banned
<1>4. CASE SettingsStep \/ UNCHANGED accessVars
  <2>1. UNCHANGED <<rate, attempt>>
    BY <1>4 DEF SettingsStep, UpdateLoginBackoff, StoreLoginBackoff, UpdateIPRate, limitVars, accessVars
  <2>2. UnderWay(i)' = UnderWay(i)
    BY <2>1 DEF UnderWay
  <2> QED BY <1>1, <2>1, <2>2 DEF Enough, Banned
<1>5. CASE RestartServer
  <2>1. rate'[i].count = 0 /\ rate'[i].left = 0 /\ rate'[i].ban = 0
    BY <1>5 DEF RestartServer, NoRate
  <2> QED BY <2>1, NothingCounted
<1> QED BY <1>2, <1>3, <1>4, <1>5 DEF AccessNext

-----------------------------------------------------------------------------
AccessInv == Shape /\ LockoutCounted /\ Banned /\ RateCounted

LEMMA AccessStart ==
  ASSUME IsFiniteSet(Attempts), AccessInit
  PROVE  AccessInv
<1>1. Attempting
  BY NoAttemptTyped, AccessAssumption DEF AccessInit, Attempting, Knows
<1>2. NoRate \in Rating
  BY AccessAssumption DEF NoRate, Rating
<1>3. Shape
  BY <1>1, <1>2, AccessAssumption DEF AccessInit, Shape
<1>4. LockoutCounted
  BY DEF AccessInit, LockoutCounted, Lockout
<1>5. ASSUME NEW i \in Ips
      PROVE  rate[i].count = 0 /\ rate[i].left = 0 /\ rate[i].ban = 0 /\ Enough(i, RateGiven)
  <2>1. rate[i].count = 0 /\ rate[i].left = 0 /\ rate[i].ban = 0
    BY DEF AccessInit, NoRate
  <2> QED BY <2>1, UnderWayCounted, AccessAssumption DEF Enough, Rate
<1> QED BY <1>3, <1>4, <1>5 DEF AccessInv, Banned, RateCounted, Enough

(* The inductive invariant: beside the passwords checked since a lockout,  *)
(* and the attempts counted of an address, those under way.                *)
THEOREM AccessInvariance ==
  ASSUME IsFiniteSet(Attempts), Limited
  PROVE  AccessSpec => []AccessInv
<1>1. AccessInit => AccessInv
  BY AccessStart
<1>2. AccessInv /\ [AccessNext]_accessVars => AccessInv'
  BY ShapeKeeps, LockoutKeeps, RateKeeps DEF AccessInv
<1> QED BY <1>1, <1>2, PTL DEF AccessSpec

(* Whatever attempts overlap, whatever lockouts are extended and settings  *)
(* changed: a lockout lets at most the attempts through that were asleep,  *)
(* and an address no more than its rate and those under way.               *)
THEOREM LimitsAlwaysHold ==
  ASSUME IsFiniteSet(Attempts), Limited
  PROVE  AccessSpec => []LimitsHold
<1>1. AccessInv => LockoutHolds
  <2> SUFFICES ASSUME AccessInv, NEW b \in Buckets, locked[b] > 0
      PROVE  late[b] < Cardinality(Attempts)
    BY DEF LockoutHolds
  <2> QED BY SleepersCounted DEF AccessInv, LockoutCounted, Lockout, Shape
<1>2. AccessInv => RateHolds
  <2> SUFFICES ASSUME AccessInv, NEW i \in Ips
      PROVE  \E r \in Rates \cup {RateGiven} : rate[i].count <= r.max + Cardinality(Attempts)
    BY DEF RateHolds
  <2>1. PICK r \in Rates \cup {RateGiven} : Enough(i, r)
    BY DEF AccessInv, RateCounted, Enough
  <2>2. r.max \in Nat /\ rate[i].count \in Nat
    BY RatingFields, AccessAssumption DEF AccessInv, Shape, Rate
  <2> QED BY <2>1, <2>2, UnderWayCounted DEF Enough
<1> QED BY <1>1, <1>2, AccessInvariance, PTL DEF LimitsHold

(* The settings are among those given, and are counted.                    *)
Settings ==
  /\ {backoff, writing} \subseteq Backoffs \cup {BackoffGiven}
  /\ updates \in Nat

LEMMA SettingsKeep == Settings /\ [AccessNext]_accessVars => Settings'
<1> SUFFICES ASSUME Settings, [AccessNext]_accessVars PROVE Settings'
  OBVIOUS
<1>1. ASSUME NEW a \in Attempts, Arrive(a) \/ AttemptStep(a) PROVE Settings'
  BY <1>1 DEF Arrive, AttemptStep, RateCheck, BackoffCheck, Verify, RecordLoginFailure, NothingToRecord,
              LockReported, ResetLoginBackoff, RateRecord, BanReported, settingVars, Settings
<1>2. CASE SettingsStep
  BY <1>2 DEF SettingsStep, UpdateLoginBackoff, StoreLoginBackoff, UpdateIPRate, Settings
<1>3. CASE Tick \/ RestartServer \/ UNCHANGED accessVars
  BY <1>3 DEF Tick, RestartServer, accessVars, settingVars, Settings
<1> QED BY <1>1, <1>2, <1>3 DEF AccessNext

LEMMA SettingsStart == AccessInit => Shape /\ Settings
<1> SUFFICES ASSUME AccessInit PROVE Shape /\ Settings
  OBVIOUS
<1>1. Attempting
  BY NoAttemptTyped, AccessAssumption DEF AccessInit, Attempting, Knows
<1>2. NoRate \in Rating
  BY AccessAssumption DEF NoRate, Rating
<1>3. Shape
  BY <1>1, <1>2, AccessAssumption DEF AccessInit, Shape
<1> QED BY <1>3 DEF AccessInit, Settings

LEMMA AccessTyped == Shape /\ Settings => AccessTypeOK
BY AccessAssumption DEF Shape, Settings, AccessTypeOK, Attempting, Attempt, Places, Rating

(* However attempts, settings and restarts interleave, every limiter and   *)
(* every attempt is in a state its code knows; the delay is a number even  *)
(* where the shift has run out of its word (server/server.go).             *)
THEOREM AccessIsTyped == AccessSpec => []AccessTypeOK
<1>1. Shape /\ Settings /\ [AccessNext]_accessVars => Shape' /\ Settings'
  BY ShapeKeeps, SettingsKeep
<1> QED BY <1>1, SettingsStart, AccessTyped, PTL DEF AccessSpec

(* With a cap on the exponent the largest delay fits the word.  Base and   *)
(* cap may be of different settings: nextLoginDelayFor copies them while   *)
(* an administrator's are written.  Those an administrator saves are at    *)
(* most 60000 ms and 10 (handleUpdateLoginBackoffSettings): 46 bits of 63. *)
DelaysFit ==
  \A c, d \in Backoffs \cup {BackoffGiven} :
    c.maxExp > 0 => OrElse(d.base, DefaultBase) * Pow2[c.maxExp] < Pow2[Width - 1]

LEMMA ShiftFits ==
  ASSUME NEW base \in Nat, NEW exp \in Nat, base * Pow2[exp] < Pow2[Width - 1]
  PROVE  Shifted(base, exp) = base * Pow2[exp]
<1>1. PICK half : half = Pow2[Width - 1] /\ half \in Nat
  BY PowTyped, AccessAssumption
<1>2. PICK x : x = base * Pow2[exp] /\ x \in Nat
  BY PowTyped
<1>3. (x + half) % (2 * half) = x + half
  BY <1>1, <1>2
<1> QED BY <1>1, <1>2, <1>3 DEF Shifted

LEMMA FailureWaits ==
  ASSUME DelaysFit, Settings, NEW c \in BackoffRead, c.maxExp > 0, NEW n \in Nat, n # 0
  PROVE  Delay(c, n) > 0
<1>1. PICK e \in Backoffs \cup {BackoffGiven} : c.maxExp = e.maxExp
  BY DEF Settings, BackoffRead
<1>2. PICK d \in Backoffs \cup {BackoffGiven} : c.base = d.base
  BY DEF Settings, BackoffRead
<1>3. PICK m \in Backoffs \cup {BackoffGiven} : c.maxDelay = m.maxDelay
  BY DEF Settings, BackoffRead
<1>4. c.maxExp \in Nat /\ c.base \in Nat /\ c.maxDelay \in Nat
  BY <1>1, <1>2, <1>3, AccessAssumption DEF Backoff
<1>5. PICK base \in Nat : base = OrElse(c.base, DefaultBase) /\ base > 0
  BY <1>4 DEF OrElse, DefaultBase
<1>6. OrElse(c.maxDelay, DefaultMaxDelay) \in Nat /\ OrElse(c.maxDelay, DefaultMaxDelay) > 0
  BY <1>4 DEF OrElse, DefaultMaxDelay
<1>7. PICK exp \in Nat : /\ exp = IF c.maxExp > 0 /\ n - 1 > c.maxExp THEN c.maxExp ELSE n - 1
                         /\ exp <= c.maxExp
  BY <1>4
<1>8. PICK x \in Nat : x = base * Pow2[exp] /\ x > 0 /\ x < Pow2[Width - 1]
  <2>1. PICK p \in Nat : p = Pow2[exp] /\ p > 0
    BY PowTyped
  <2>2. PICK q \in Nat : q = Pow2[c.maxExp] /\ p <= q
    BY <1>4, <1>7, <2>1, PowTyped, PowGrows
  <2>3. base * q < Pow2[Width - 1]
    BY <1>1, <1>2, <1>5, <2>2 DEF DelaysFit
  <2>4. base * p <= base * q /\ base * p > 0 /\ base * p \in Nat /\ base * q \in Nat
    BY <1>5, <2>1, <2>2
  <2>5. Pow2[Width - 1] \in Nat
    BY PowTyped, AccessAssumption
  <2> QED BY <2>1, <2>3, <2>4, <2>5
<1>9. Shifted(base, exp) = x
  BY <1>8, ShiftFits
<1> QED BY <1>5, <1>6, <1>7, <1>8, <1>9 DEF Delay

(* An attempt owes a delay only while it sleeps.                           *)
Owing(job) == job.owes => job.pc = "verify" /\ job.delay > 0
DelaysOwed == \A a \in Attempts : Owing(attempt[a])

LEMMA OwingKeeps ==
  ASSUME Attempting, DelaysOwed, NEW a \in Attempts, NEW job, Owing(job),
         attempt' = [attempt EXCEPT ![a] = job]
  PROVE  DelaysOwed'
BY DEF Attempting, DelaysOwed, Owing

LEMMA NothingOwed ==
  ASSUME Attempting, DelaysOwed, NEW a \in Attempts,
         \/ Ends(a)
         \/ attempt[a].pc # "verify" /\ \E pc : To(a, pc)
  PROVE  DelaysOwed'
<1>1. CASE Ends(a)
  BY <1>1, OwingKeeps DEF Ends, NoAttempt, Owing
<1>2. ASSUME NEW pc, To(a, pc), attempt[a].pc # "verify" PROVE DelaysOwed'
  <2>1. PICK job : job = [attempt[a] EXCEPT !.pc = pc]
    OBVIOUS
  <2>2. ~job.owes
    BY <1>2, <2>1 DEF DelaysOwed, Owing, Attempting, Attempt
  <2>3. attempt' = [attempt EXCEPT ![a] = job]
    BY <1>2, <2>1 DEF To
  <2> QED BY <2>2, <2>3, OwingKeeps DEF Owing
<1> QED BY <1>1, <1>2

LEMMA CheckOwes ==
  ASSUME DelaysFit, Shape, Settings, DelaysOwed, NEW a \in Attempts, BackoffCheck(a)
  PROVE  DelaysOwed'
<1>1. CASE Ends(a)
  BY <1>1, NothingOwed DEF Shape
<1>2. ASSUME NEW c \in BackoffRead,
             attempt' = [attempt EXCEPT ![a].pc = "verify", ![a].bucket = Bucket(c, a),
                           ![a].delay = Delay(c, failures[Bucket(c, a)]),
                           ![a].owes = c.maxExp > 0 /\ failures[Bucket(c, a)] > 0]
      PROVE  DelaysOwed'
  <2>1. attempt[a] \in Attempt /\ attempt \in [Attempts -> Attempt]
    BY DEF Shape, Attempting
  <2>2. PICK b : b = Bucket(c, a)
    OBVIOUS
  <2>3. b \in Buckets /\ failures[b] \in Nat
    BY <2>2, BucketIsBucket DEF BackoffCheck, At, Shape, Attempting, Knows
  <2>4. PICK d : d = Delay(c, failures[b])
    OBVIOUS
  <2>5. PICK o \in BOOLEAN : o <=> c.maxExp > 0 /\ failures[b] > 0
    <3>1. (c.maxExp > 0 /\ failures[b] > 0) \in BOOLEAN
      OBVIOUS
    <3> QED BY <3>1
  <2>6. o = (c.maxExp > 0 /\ failures[b] > 0)
    BY <2>5
  <2>7. o => d > 0
    BY <2>3, <2>4, <2>5, FailureWaits
  <2>8. attempt' = [attempt EXCEPT ![a].pc = "verify", ![a].bucket = b, ![a].delay = d, ![a].owes = o]
    BY <1>2, <2>2, <2>4, <2>6, Zenon
  <2>9. PICK job : job = [attempt[a] EXCEPT !.pc = "verify", !.bucket = b, !.delay = d, !.owes = o]
    OBVIOUS
  <2>10. attempt' = [attempt EXCEPT ![a] = job]
    BY <2>1, <2>8, <2>9
  <2>11. job.pc = "verify" /\ job.delay = d /\ job.owes = o
    BY <2>1, <2>9 DEF Attempt
  <2> QED BY <2>7, <2>10, <2>11, OwingKeeps DEF Shape, Owing
<1> QED BY <1>1, <1>2 DEF BackoffCheck

LEMMA OwedKeeps ==
  ASSUME DelaysFit, Shape, Settings, DelaysOwed, [AccessNext]_accessVars
  PROVE  DelaysOwed'
<1>1. ASSUME NEW a \in Attempts, Arrive(a) \/ Verify(a) PROVE DelaysOwed'
  <2>1. \E pc, u, i : attempt' = [attempt EXCEPT ![a] = [NoAttempt EXCEPT !.pc = pc, !.user = u, !.ip = i]]
    BY <1>1 DEF Arrive, Verify
  <2>2. PICK job : ~job.owes /\ attempt' = [attempt EXCEPT ![a] = job]
    BY <2>1 DEF NoAttempt
  <2> QED BY <2>2, OwingKeeps DEF Shape, Owing
<1>2. ASSUME NEW a \in Attempts,
             \/ RateCheck(a) \/ RecordLoginFailure(a) \/ NothingToRecord(a) \/ LockReported(a)
             \/ ResetLoginBackoff(a) \/ RateRecord(a) \/ BanReported(a)
      PROVE  DelaysOwed'
  <2>1. attempt[a].pc # "verify"
    BY <1>2 DEF RateCheck, RecordLoginFailure, NothingToRecord, LockReported, ResetLoginBackoff, RateRecord,
                BanReported, At
  <2>2. Ends(a) \/ \E pc : To(a, pc)
    BY <1>2 DEF RateCheck, RecordLoginFailure, NothingToRecord, LockReported, ResetLoginBackoff, RateRecord,
                BanReported
  <2> QED BY <2>1, <2>2, NothingOwed DEF Shape
<1>3. CASE SettingsStep \/ Tick \/ UNCHANGED accessVars
  BY <1>3 DEF SettingsStep, UpdateLoginBackoff, StoreLoginBackoff, UpdateIPRate, Tick, accessVars,
              DelaysOwed, Owing
<1>4. CASE RestartServer
  BY <1>4 DEF RestartServer, NoAttempt, DelaysOwed, Owing
<1> QED BY <1>1, <1>2, <1>3, <1>4, CheckOwes DEF AccessNext, AttemptStep

(* Where the largest delay fits the word, no attempt that follows a failure*)
(* has its password checked without a wait, whatever other attempts and    *)
(* administrators do between the failure and the check.                    *)
THEOREM FailuresAlwaysDelay ==
  ASSUME DelaysFit
  PROVE  AccessSpec => []FailureDelays
<1> DEFINE Inv == Shape /\ Settings /\ DelaysOwed
<1>1. AccessInit => Inv
  BY SettingsStart DEF AccessInit, NoAttempt, DelaysOwed, Owing
<1>2. Inv /\ [AccessNext]_accessVars => Inv'
  BY ShapeKeeps, SettingsKeep, OwedKeeps
<1>3. Inv => FailureDelays
  BY DEF DelaysOwed, Owing, FailureDelays
<1> QED BY <1>1, <1>2, <1>3, PTL DEF AccessSpec

-----------------------------------------------------------------------------
(* SecurityEvents.                                                         *)

EventShape ==
  /\ recorder \in [Recorders -> [pc : {"idle", "insert", "append"}, event : Events \cup {0}]]
  /\ \A r \in Recorders : Recording(r) => recorder[r].event \in Events /\ recorder[r].event <= begun
  /\ begun \in 0..MaxEvents /\ listing \subseteq 1..begun /\ edits \in Nat

(* No webhook is both there and gone, and ids are not given twice; events  *)
(* on their way have begun, so a hook that goes now hears nothing newer.   *)
HooksApart ==
  /\ DOMAIN hooks \cap DOMAIN goneAt = {}
  /\ DOMAIN hooks \cup DOMAIN goneAt \subseteq 1..edits
  /\ posts \subseteq (1..edits) \X (1..begun)

EventInv == EventShape /\ HooksApart /\ DeletedHookIsSilent

LEMMA EventShapeKeeps == EventShape /\ [SecurityNext]_securityVars => EventShape'
<1> SUFFICES ASSUME EventShape, [SecurityNext]_securityVars PROVE EventShape'
  OBVIOUS
<1> USE SecurityAssumption DEF SecurityAssumption, Events
<1>1. ASSUME NEW r \in Recorders, Report(r) PROVE EventShape'
  BY <1>1 DEF Report, EventShape, Recording, hookVars
<1>2. ASSUME NEW r \in Recorders, InsertEvent(r) PROVE EventShape'
  BY <1>2 DEF InsertEvent, EventShape, Recording, hookVars
<1>3. ASSUME NEW r \in Recorders, AppendEvent(r) PROVE EventShape'
  <2>1. /\ recorder' = [recorder EXCEPT ![r] = NotRecording] /\ begun' = begun /\ edits' = edits
        /\ listing' = listing \cup {recorder[r].event}
        /\ recorder[r].event \in 1..begun
    BY <1>3 DEF AppendEvent, EventShape, Recording, hookVars
  <2>2. NotRecording \in [pc : {"idle", "insert", "append"}, event : Events \cup {0}]
    BY DEF NotRecording
  <2>3. \A q \in Recorders : Recording(q)' => q # r /\ Recording(q) /\ recorder'[q] = recorder[q]
    BY <2>1 DEF Recording, NotRecording, EventShape
  <2> QED BY <2>1, <2>2, <2>3 DEF EventShape
<1>4. CASE \E e \in Events : Dispatch(e)
  BY <1>4 DEF Dispatch, EventShape, Recording
<1>5. CASE PostStep
  BY <1>5 DEF PostStep, Post, EventShape, Recording
<1>6. ASSUME NEW a \in Editors, EditorStep(a) PROVE EventShape'
  BY <1>6 DEF EditorStep, CreateSecurityWebhook, ReadWebhook, UpdateSecurityWebhook,
              DeleteSecurityWebhook, Edited, eventVars, EventShape, Recording
<1>7. CASE UNCHANGED securityVars
  BY <1>7 DEF securityVars, EventShape, Recording
<1> QED BY <1>1, <1>2, <1>3, <1>4, <1>5, <1>6, <1>7 DEF SecurityNext, RecorderStep

LEMMA HooksStayApart ==
  EventInv /\ [SecurityNext]_securityVars => HooksApart' /\ DeletedHookIsSilent'
<1> SUFFICES ASSUME EventInv, [SecurityNext]_securityVars PROVE HooksApart' /\ DeletedHookIsSilent'
  OBVIOUS
<1> USE DEF EventInv, EventShape, HooksApart, DeletedHookIsSilent
<1>1. ASSUME NEW r \in Recorders, Report(r) \/ RecorderStep(r)
      PROVE  HooksApart' /\ DeletedHookIsSilent'
  BY <1>1 DEF Report, RecorderStep, InsertEvent, AppendEvent, hookVars
<1>2. ASSUME NEW e \in Events, Dispatch(e) PROVE HooksApart' /\ DeletedHookIsSilent'
  <2>1. EnabledHooks \subseteq DOMAIN hooks /\ e \in 1..begun
    BY <1>2 DEF Dispatch, EnabledHooks
  <2>2. \A p \in EnabledHooks \X {e} : p[1] \notin DOMAIN goneAt /\ p \in (1..edits) \X (1..begun)
    BY <2>1
  <2> QED BY <1>2, <2>2 DEF Dispatch
<1>3. CASE PostStep
  BY <1>3 DEF PostStep, Post
<1>4. ASSUME NEW a \in Editors, CreateSecurityWebhook(a) PROVE HooksApart' /\ DeletedHookIsSilent'
  BY <1>4 DEF CreateSecurityWebhook, eventVars
<1>5. ASSUME NEW a \in Editors, ReadWebhook(a) \/ UpdateSecurityWebhook(a)
      PROVE  HooksApart' /\ DeletedHookIsSilent'
  BY <1>5 DEF ReadWebhook, UpdateSecurityWebhook, Edited, eventVars
<1>6. ASSUME NEW a \in Editors, DeleteSecurityWebhook(a) PROVE HooksApart' /\ DeletedHookIsSilent'
  <2>1. PICK h \in DOMAIN hooks :
          /\ hooks' = [g \in DOMAIN hooks \ {h} |-> hooks[g]]
          /\ goneAt' = [g \in DOMAIN goneAt \cup {h} |-> IF g = h THEN begun ELSE goneAt[g]]
    BY <1>6 DEF DeleteSecurityWebhook
  <2>2. edits' = edits + 1 /\ UNCHANGED <<posts, begun>>
    BY <1>6 DEF DeleteSecurityWebhook, eventVars
  <2>3. \A p \in posts : p[2] <= begun
    OBVIOUS
  <2> QED BY <2>1, <2>2, <2>3
<1>7. CASE UNCHANGED securityVars
  BY <1>7 DEF securityVars
<1> QED BY <1>1, <1>2, <1>3, <1>4, <1>5, <1>6, <1>7 DEF SecurityNext, EditorStep

LEMMA EventsStart == SecurityInit => EventInv
BY SecurityAssumption
   DEF SecurityInit, SecurityAssumption, NotRecording, Recording, Events, EventInv, EventShape,
       HooksApart, DeletedHookIsSilent

(* A deleted webhook is called for no event recorded after its deletion,   *)
(* for any number of requests about it that were under way                 *)
(* (handleUpdateSecurityWebhook, dispatchSecurityEvent).                   *)
THEOREM DeletedHooksStaySilent == SecuritySpec => []DeletedHookIsSilent
<1>1. SecurityInit => EventInv
  BY EventsStart
<1>2. EventInv /\ [SecurityNext]_securityVars => EventInv'
  BY EventShapeKeeps, HooksStayApart DEF EventInv
<1>3. EventInv => DeletedHookIsSilent
  BY DEF EventInv
<1> QED BY <1>1, <1>2, <1>3, PTL DEF SecuritySpec

(* The recorders between the insert of their event and its append.         *)
InFlight == {r \in Recorders : recorder[r].pc = "append"}
Passers == Cardinality(Recorders) - 1

(* The i-th event by its insert, on its way or k places from the end of    *)
(* the buffer, or out of it.  Those appended after it were inserted after  *)
(* it or were in flight when it was appended, one for each other recorder; *)
(* those in flight may still pass it.                                      *)
Near(i) ==
  \/ OnItsWay(history[i])
  \/ \E k \in 1..Len(buffer) :
       /\ buffer[k] = history[i]
       /\ Len(buffer) - k + Cardinality(InFlight) <= Len(history) - i + Passers
  \/ BufferCap + Cardinality(InFlight) <= Len(history) - i + Passers

BufferInv ==
  /\ history \in Seq(Events) /\ buffer \in Seq(Events) /\ Len(buffer) <= BufferCap
  /\ \A i \in 1..Len(history) : Near(i)

LEMMA FlightCounted ==
  ASSUME IsFiniteSet(Recorders)
  PROVE  /\ IsFiniteSet(InFlight) /\ Cardinality(InFlight) \in Nat /\ Cardinality(Recorders) \in Nat
         /\ Cardinality(InFlight) <= Cardinality(Recorders)
<1>1. InFlight \in SUBSET Recorders
  BY DEF InFlight
<1> QED BY <1>1, FS_Subset, FS_CardinalityType

(* What one append does to the buffer: everything moves one place from the *)
(* end, and falls out when it was the buffer's length away from it.        *)
LEMMA BufferMoves ==
  ASSUME NEW e \in Events, buffer \in Seq(Events), Len(buffer) <= BufferCap,
         buffer' = BufferLog!LastOf(Append(buffer, e), BufferCap)
  PROVE  /\ buffer' \in Seq(Events) /\ Len(buffer') <= BufferCap
         /\ Len(buffer') \in 1..BufferCap /\ buffer'[Len(buffer')] = e
         /\ \A k \in 1..Len(buffer) :
              \/ Len(buffer) - k + 1 = BufferCap
              \/ \E j \in 1..Len(buffer') :
                   buffer'[j] = buffer[k] /\ Len(buffer') - j = Len(buffer) - k + 1
<1> DEFINE n == Len(buffer)
<1> DEFINE b == Append(buffer, e)
<1>1. /\ BufferCap \in Nat \ {0} /\ n \in 0..BufferCap /\ b \in Seq(Events) /\ Len(b) = n + 1
      /\ b[n + 1] = e /\ \A k \in 1..n : b[k] = buffer[k]
  BY SecurityAssumption DEF SecurityAssumption
<1>2. CASE n < BufferCap
  <2>1. buffer' = b
    BY <1>1, <1>2 DEF BufferLog!LastOf
  <2>2. \A k \in 1..n : k \in 1..(n + 1) /\ b[k] = buffer[k] /\ (n + 1) - k = n - k + 1
    BY <1>1
  <2> HIDE DEF b
  <2> QED BY <1>1, <1>2, <2>1, <2>2
<1>3. CASE n = BufferCap
  <2>1. buffer' = SubSeq(b, 2, n + 1)
    BY <1>1, <1>3 DEF BufferLog!LastOf
  <2>2. /\ Len(buffer') = n /\ buffer' \in Seq(Events)
        /\ \A j \in 1..n : buffer'[j] = b[j + 1]
    BY <1>1, <2>1
  <2>3. ASSUME NEW k \in 1..n, k # 1
        PROVE  k - 1 \in 1..n /\ buffer'[k - 1] = buffer[k] /\ n - (k - 1) = n - k + 1
    BY <1>1, <2>2, <2>3
  <2>4. buffer'[n] = e
    BY <1>1, <1>3, <2>2
  <2> HIDE DEF b
  <2> QED BY <1>1, <1>3, <2>2, <2>3, <2>4
<1> QED BY <1>1, <1>2, <1>3

LEMMA InsertNear ==
  ASSUME IsFiniteSet(Recorders), EventShape, BufferInv, NEW r \in Recorders, InsertEvent(r)
  PROVE  BufferInv'
<1> DEFINE e == recorder[r].event
<1>1. /\ recorder' = [recorder EXCEPT ![r].pc = "append"] /\ buffer' = buffer
      /\ history' = Append(history, e) /\ recorder[r].pc = "insert" /\ e \in Events
      /\ history \in Seq(Events)
      /\ recorder \in [Recorders -> [pc : {"idle", "insert", "append"}, event : Events \cup {0}]]
  BY DEF InsertEvent, EventShape, Recording, BufferInv
<1>2. /\ recorder'[r].pc = "append" /\ recorder'[r].event = e
      /\ \A q \in Recorders \ {r} : recorder'[q] = recorder[q]
  BY <1>1
<1>3. Cardinality(InFlight') = Cardinality(InFlight) + 1
  <2>1. InFlight' = InFlight \cup {r} /\ r \notin InFlight
    BY <1>1, <1>2 DEF InFlight
  <2> QED BY <2>1, FlightCounted, FS_AddElement
<1>4. /\ Len(history') = Len(history) + 1 /\ history'[Len(history) + 1] = e
      /\ \A i \in 1..Len(history) : history'[i] = history[i]
      /\ history' \in Seq(Events)
  BY <1>1
<1>5. ASSUME NEW i \in 1..Len(history'), i = Len(history) + 1 PROVE Near(i)'
  BY <1>2, <1>4, <1>5 DEF Near, OnItsWay
<1>6. ASSUME NEW i \in 1..Len(history) PROVE Near(i)'
  <2>0. /\ Passers' = Passers /\ Passers \in Int /\ Len(buffer) \in Nat /\ Len(history) \in Nat
        /\ Cardinality(InFlight) \in Nat /\ BufferCap \in Nat
    BY <1>1, FlightCounted, SecurityAssumption DEF BufferInv, Passers, SecurityAssumption
  <2>1. CASE OnItsWay(history[i])
    <3>1. OnItsWay(history[i])'
      BY <1>1, <1>2, <1>4, <2>1 DEF OnItsWay
    <3> QED BY <3>1 DEF Near
  <2>2. ASSUME NEW k \in 1..Len(buffer), buffer[k] = history[i],
               Len(buffer) - k + Cardinality(InFlight) <= Len(history) - i + Passers
        PROVE  Near(i)'
    <3>1. Len(buffer') - k + Cardinality(InFlight') <= Len(history') - i + Passers'
      BY <1>1, <1>3, <1>4, <2>0, <2>2
    <3> QED BY <1>1, <1>4, <2>2, <3>1 DEF Near
  <2>3. CASE BufferCap + Cardinality(InFlight) <= Len(history) - i + Passers
    <3>1. BufferCap + Cardinality(InFlight') <= Len(history') - i + Passers'
      BY <1>3, <1>4, <2>0, <2>3
    <3> QED BY <3>1 DEF Near
  <2>4. Near(i)
    BY DEF BufferInv
  <2> QED BY <2>1, <2>2, <2>3, <2>4 DEF Near
<1>7. \A i \in 1..Len(history') : Near(i)'
  <2>1. Len(history) \in Nat
    BY <1>1
  <2>2. \A i \in 1..Len(history') : i = Len(history) + 1 \/ i \in 1..Len(history)
    BY <1>4, <2>1
  <2> QED BY <1>5, <1>6, <2>2
<1> QED BY <1>1, <1>4, <1>7 DEF BufferInv

LEMMA AppendNear ==
  ASSUME IsFiniteSet(Recorders), EventShape, BufferInv, NEW r \in Recorders, AppendEvent(r)
  PROVE  BufferInv'
<1> DEFINE e == recorder[r].event
<1>1. /\ recorder' = [recorder EXCEPT ![r] = NotRecording] /\ history' = history
      /\ buffer' = BufferLog!LastOf(Append(buffer, e), BufferCap)
      /\ recorder[r].pc = "append" /\ e \in Events
      /\ recorder \in [Recorders -> [pc : {"idle", "insert", "append"}, event : Events \cup {0}]]
      /\ buffer \in Seq(Events) /\ history \in Seq(Events) /\ Len(buffer) <= BufferCap
  BY DEF AppendEvent, BufferLog!Add, EventShape, Recording, BufferInv
<1>2. recorder'[r].pc = "idle" /\ \A q \in Recorders \ {r} : recorder'[q] = recorder[q]
  BY <1>1 DEF NotRecording
<1>3. /\ Cardinality(InFlight') = Cardinality(InFlight) - 1
      /\ Cardinality(InFlight) \in Nat \ {0} /\ Cardinality(InFlight) <= Cardinality(Recorders)
      /\ Cardinality(Recorders) \in Nat
  <2>1. InFlight' = InFlight \ {r} /\ r \in InFlight
    BY <1>1, <1>2 DEF InFlight
  <2> QED BY <2>1, FlightCounted, FS_RemoveElement, FS_EmptySet
<1>4. /\ buffer' \in Seq(Events) /\ Len(buffer') <= BufferCap
      /\ Len(buffer') \in 1..BufferCap /\ buffer'[Len(buffer')] = e
      /\ \A k \in 1..Len(buffer) :
           \/ Len(buffer) - k + 1 = BufferCap
           \/ \E j \in 1..Len(buffer') :
                buffer'[j] = buffer[k] /\ Len(buffer') - j = Len(buffer) - k + 1
  BY <1>1, BufferMoves
<1>5. ASSUME NEW i \in 1..Len(history) PROVE Near(i)'
  <2>0. /\ Passers' = Passers /\ Passers = Cardinality(Recorders) - 1 /\ Len(buffer) \in Nat
        /\ Len(buffer') \in Nat /\ BufferCap \in Nat /\ Len(history) \in Nat
    BY <1>1, <1>4, SecurityAssumption DEF Passers, SecurityAssumption
  <2>1. CASE history[i] = e
    <3>1. Len(buffer') - Len(buffer') + Cardinality(InFlight') <= Len(history') - i + Passers'
      BY <1>1, <1>3, <2>0
    <3> QED BY <1>1, <1>4, <2>1, <3>1 DEF Near
  <2>2. CASE OnItsWay(history[i]) /\ history[i] # e
    <3>1. OnItsWay(history[i])'
      BY <1>1, <1>2, <2>2 DEF OnItsWay
    <3> QED BY <1>1, <3>1 DEF Near
  <2>3. ASSUME NEW k \in 1..Len(buffer), buffer[k] = history[i],
               Len(buffer) - k + Cardinality(InFlight) <= Len(history) - i + Passers
        PROVE  Near(i)'
    <3>1. CASE Len(buffer) - k + 1 = BufferCap
      <4>1. BufferCap + Cardinality(InFlight') <= Len(history') - i + Passers'
        BY <1>1, <1>3, <2>0, <2>3, <3>1
      <4> QED BY <4>1 DEF Near
    <3>2. ASSUME NEW j \in 1..Len(buffer'), buffer'[j] = buffer[k],
                 Len(buffer') - j = Len(buffer) - k + 1
          PROVE  Near(i)'
      <4>1. Len(buffer') - j + Cardinality(InFlight') <= Len(history') - i + Passers'
        BY <1>1, <1>3, <2>0, <2>3, <3>2
      <4> QED BY <1>1, <2>3, <3>2, <4>1 DEF Near
    <3> QED BY <1>4, <3>1, <3>2
  <2>4. CASE BufferCap + Cardinality(InFlight) <= Len(history) - i + Passers
    <3>1. BufferCap + Cardinality(InFlight') <= Len(history') - i + Passers'
      BY <1>1, <1>3, <2>0, <2>4
    <3> QED BY <3>1 DEF Near
  <2>5. Near(i)
    BY DEF BufferInv
  <2> QED BY <2>1, <2>2, <2>3, <2>4, <2>5 DEF Near
<1> QED BY <1>1, <1>4, <1>5 DEF BufferInv

LEMMA BufferKeeps ==
  ASSUME IsFiniteSet(Recorders), EventShape, BufferInv, [SecurityNext]_securityVars
  PROVE  BufferInv'
<1>1. ASSUME UNCHANGED <<recorder, history, buffer>> PROVE BufferInv'
  BY <1>1 DEF BufferInv, Near, OnItsWay, InFlight, Passers
<1>2. ASSUME NEW r \in Recorders, Report(r) PROVE BufferInv'
  <2>1. InFlight' = InFlight /\ UNCHANGED <<history, buffer>>
    BY <1>2 DEF Report, InFlight, Recording, EventShape
  <2>2. \A e : OnItsWay(e) => OnItsWay(e)'
    BY <1>2 DEF Report, OnItsWay, Recording, EventShape
  <2> QED BY <2>1, <2>2 DEF BufferInv, Near, Passers
<1> QED BY <1>1, <1>2, InsertNear, AppendNear
       DEF SecurityNext, RecorderStep, Dispatch, PostStep, Post, EditorStep, CreateSecurityWebhook,
           ReadWebhook, UpdateSecurityWebhook, DeleteSecurityWebhook, Edited, eventVars, securityVars

(* Of the newest events by their rows none is missing from the buffer but  *)
(* those on their way there, although events pass each other between the   *)
(* two critical sections: for any buffer, and any finite number of mutexes *)
(* under which events are recorded (recordSecurityEvent).                  *)
THEOREM NewestAreBuffered ==
  ASSUME IsFiniteSet(Recorders)
  PROVE  SecuritySpec => []NewestBuffered
<1>1. SecurityInit => EventShape /\ BufferInv
  BY SecurityAssumption
     DEF SecurityInit, SecurityAssumption, NotRecording, Recording, Events, EventShape, BufferInv
<1>2. EventShape /\ BufferInv /\ [SecurityNext]_securityVars => EventShape' /\ BufferInv'
  BY EventShapeKeeps, BufferKeeps
<1>3. BufferInv => NewestBuffered
  <2> SUFFICES ASSUME BufferInv, NEW i \in 1..Len(history),
                      Len(history) - i < BufferCap - (Cardinality(Recorders) - 1)
               PROVE  Buffered(history[i]) \/ OnItsWay(history[i])
    BY DEF NewestBuffered
  <2>1. ~(BufferCap + Cardinality(InFlight) <= Len(history) - i + Passers)
    BY FlightCounted, SecurityAssumption DEF BufferInv, Passers, SecurityAssumption
  <2> QED BY <2>1 DEF BufferInv, Near, Buffered
<1> QED BY <1>1, <1>2, <1>3, PTL DEF SecuritySpec

(* Webhooks and requests about them, and the two sequences of events.      *)
EventsListed == history \in Seq(Events) /\ buffer \in Seq(Events) /\ Len(buffer) <= BufferCap
HooksTyped ==
  /\ edits \in 0..MaxEdits /\ \A h \in DOMAIN hooks : hooks[h] \in BOOLEAN
  /\ DOMAIN editor = Editors
  /\ \A a \in Editors : editor[a].pc = "write" => editor[a].enabled \in BOOLEAN

LEMMA EventsStayListed ==
  ASSUME EventShape, EventsListed, [SecurityNext]_securityVars
  PROVE  EventsListed'
<1>1. ASSUME UNCHANGED <<history, buffer>> PROVE EventsListed'
  BY <1>1 DEF EventsListed
<1>2. ASSUME NEW r \in Recorders, InsertEvent(r) PROVE EventsListed'
  BY <1>2 DEF InsertEvent, EventShape, Recording, EventsListed
<1>3. ASSUME NEW r \in Recorders, AppendEvent(r) PROVE EventsListed'
  <2>1. /\ recorder[r].event \in Events /\ history' = history
        /\ buffer' = BufferLog!LastOf(Append(buffer, recorder[r].event), BufferCap)
    BY <1>3 DEF AppendEvent, BufferLog!Add, EventShape, Recording
  <2> QED BY <2>1, BufferMoves DEF EventsListed
<1> QED BY <1>1, <1>2, <1>3
       DEF SecurityNext, RecorderStep, Report, Dispatch, PostStep, Post, EditorStep, CreateSecurityWebhook,
           ReadWebhook, UpdateSecurityWebhook, DeleteSecurityWebhook, Edited, eventVars, hookVars,
           securityVars

LEMMA HooksStayTyped ==
  ASSUME HooksTyped, [SecurityNext]_securityVars
  PROVE  HooksTyped'
<1> USE SecurityAssumption DEF SecurityAssumption
<1>1. ASSUME UNCHANGED <<hooks, editor, edits>> PROVE HooksTyped'
  BY <1>1 DEF HooksTyped
<1>2. ASSUME NEW a \in Editors, CreateSecurityWebhook(a) PROVE HooksTyped'
  BY <1>2 DEF CreateSecurityWebhook, HooksTyped
<1>3. ASSUME NEW a \in Editors, ReadWebhook(a) PROVE HooksTyped'
  <2>1. PICK h \in DOMAIN hooks, on \in BOOLEAN :
          editor' = [editor EXCEPT ![a] = [pc |-> "write", hook |-> h, enabled |-> on]]
    BY <1>3 DEF ReadWebhook
  <2> QED BY <1>3, <2>1 DEF ReadWebhook, HooksTyped
<1>4. ASSUME NEW a \in Editors, UpdateSecurityWebhook(a) PROVE HooksTyped'
  <2>1. editor[a].enabled \in BOOLEAN
    BY <1>4 DEF UpdateSecurityWebhook, Edited, HooksTyped
  <2>2. \A b \in Editors : editor'[b].pc = "write" => editor'[b] = editor[b]
    BY <1>4 DEF UpdateSecurityWebhook, Edited, NotEditing, HooksTyped
  <2>3. DOMAIN editor' = Editors
    BY <1>4 DEF UpdateSecurityWebhook, Edited, HooksTyped
  <2> QED BY <1>4, <2>1, <2>2, <2>3 DEF UpdateSecurityWebhook, HooksTyped
<1>5. ASSUME NEW a \in Editors, DeleteSecurityWebhook(a) PROVE HooksTyped'
  BY <1>5 DEF DeleteSecurityWebhook, HooksTyped
<1> QED BY <1>1, <1>2, <1>3, <1>4, <1>5
       DEF SecurityNext, RecorderStep, Report, InsertEvent, AppendEvent, Dispatch, PostStep, Post,
           EditorStep, hookVars, securityVars

EventTypes == EventInv /\ EventsListed /\ HooksTyped

LEMMA EventTypesStart == SecurityInit => EventTypes
<1> SUFFICES ASSUME SecurityInit PROVE EventsListed /\ HooksTyped
  BY EventsStart DEF EventTypes
<1> QED BY SecurityAssumption DEF SecurityInit, SecurityAssumption, EventsListed, HooksTyped, NotEditing

LEMMA EventTypesKeep == EventTypes /\ [SecurityNext]_securityVars => EventTypes'
BY EventShapeKeeps, HooksStayApart, EventsStayListed, HooksStayTyped DEF EventInv, EventTypes

LEMMA EventTypesTyped == EventTypes => SecurityTypeOK
<1> SUFFICES ASSUME EventTypes PROVE SecurityTypeOK
  OBVIOUS
<1> USE DEF EventTypes
<1>1. begun \in 0..MaxEvents /\ edits \in 0..MaxEdits /\ MaxEvents \in Nat /\ MaxEdits \in Nat
  BY SecurityAssumption DEF SecurityAssumption, EventInv, EventShape, HooksTyped
<1>2. 1..begun \subseteq Events /\ 1..edits \subseteq 1..MaxEdits /\ Events \cup {0} = 0..MaxEvents
  BY <1>1 DEF Events
<1>3. recorder \in [Recorders -> [pc : {"idle", "insert", "append"}, event : 0..MaxEvents]]
  BY <1>2 DEF EventInv, EventShape
<1>4. listing \subseteq Events /\ posts \subseteq (1..MaxEdits) \X Events /\ DOMAIN hooks \subseteq 1..MaxEdits
  BY <1>2 DEF EventInv, EventShape, HooksApart
<1> QED BY <1>1, <1>3, <1>4 DEF SecurityTypeOK, EventsListed, HooksTyped

(* Events, buffer, webhooks and requests about them are where their code   *)
(* puts them: above all, the buffer never holds more than it may           *)
(* (recordSecurityEvent).                                                  *)
THEOREM EventsAreTyped == SecuritySpec => []SecurityTypeOK
<1> QED BY EventTypesStart, EventTypesKeep, EventTypesTyped, PTL DEF SecuritySpec
=============================================================================
