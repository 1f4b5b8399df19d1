------------------------------- MODULE Access -------------------------------
(***************************************************************************)
(* Login attempts and what holds them back (server/server.go,              *)
(* server_rest.go, server_dashboard.go, server_api_security.go): the       *)
(* backoff and lockout of a user name or of a user name at an address, the *)
(* rate of an address, and the settings an administrator changes meanwhile.*)
(*                                                                         *)
(* An attempt asks the two limiters, sleeps, has its password checked, and *)
(* then tells the limiters, each in a critical section of its own, so that *)
(* attempts overlap.  Time is what is left of every period.                *)
(***************************************************************************)
EXTENDS Integers, FiniteSets

CONSTANTS
  Attempts,      \* attempts at a time
  Users, Ips,
  NoUser,        \* an empty user name
  Backoffs,      \* LoginBackoffConfig an administrator may set
  Rates,         \* IPRateLimitConfig an administrator may set
  BackoffGiven,  \* the two in the configuration the server starts with,
  RateGiven,     \* defaults filled in
  Width,         \* bits of a time.Duration
  Minute,        \* ticks of the window of an address
  MaxFailures,   \* bound: consecutive failures
  MaxUpdates     \* bound: settings saved

Backoff == [base : Nat, maxDelay : Nat, maxExp : Nat, hard : Nat, minutes : Nat, perIP : BOOLEAN]
Rate == [max : Nat, ban : Nat]

ASSUME AccessAssumption ==
  /\ NoUser \notin Users /\ Ips # {}
  /\ Backoffs \subseteq Backoff /\ BackoffGiven \in Backoff
  /\ Rates \subseteq Rate /\ RateGiven \in Rate
  /\ Width \in Nat \ {0} /\ Minute \in Nat \ {0} /\ MaxFailures \in Nat /\ MaxUpdates \in Nat

(* A bucket is a user name, or a user name and an address.                 *)
NoBucket == <<>>
Buckets == {<<u>> : u \in Users} \cup (Users \X Ips)

VARIABLES
  failures,   \* bucket -> failures in a row
  locked,     \* bucket -> ticks until lockedUntil
  rate,       \* address -> what is left of its window, its count, what is left of its ban
  attempt,    \* the attempts
  backoff,    \* Security.LoginBackoff,
  writing,    \* and what is being written to it, by no atomic operation
  ipRate,     \* Security.IPRate
  stored,     \* the rows of settings, absent before the first save
  updates,    \* settings saved
  late        \* history: passwords checked since the bucket was locked

accessVars == <<failures, locked, rate, attempt, backoff, writing, ipRate, stored, updates, late>>
settingVars == <<backoff, writing, ipRate, stored, updates>>
limitVars == <<failures, locked, rate>>

NoAttempt == [pc |-> "idle", user |-> NoUser, ip |-> CHOOSE i \in Ips : TRUE,
              bucket |-> NoBucket, delay |-> 0, owes |-> FALSE]
NoRate == [left |-> 0, count |-> 0, ban |-> 0]
NotStored == [backoff |-> {}, ipRate |-> {}]

AccessInit ==
  /\ failures = [b \in Buckets |-> 0] /\ locked = [b \in Buckets |-> 0]
  /\ rate = [i \in Ips |-> NoRate]
  /\ attempt = [a \in Attempts |-> NoAttempt]
  /\ backoff = BackoffGiven /\ writing = BackoffGiven /\ ipRate = RateGiven
  /\ stored = NotStored /\ updates = 0
  /\ late = [b \in Buckets |-> 0]

-----------------------------------------------------------------------------
(* The rules.                                                              *)

OrElse(n, default) == IF n > 0 THEN n ELSE default
DefaultBase == 1
DefaultMaxDelay == 2
DefaultHard == 8
DefaultMinutes == 2

(* base << exp in a signed word of Width bits.                             *)
Pow2[n \in Nat] == IF n = 0 THEN 1 ELSE 2 * Pow2[n - 1]
Shifted(base, exp) ==
  LET half == Pow2[Width - 1]
  IN ((base * Pow2[exp] + half) % (2 * half)) - half

(* Variant: the exponent is not capped.                                    *)
DelayUncapped(c, n) ==
  IF n = 0 THEN 0
  ELSE LET d == Shifted(OrElse(c.base, DefaultBase), n - 1)
           most == OrElse(c.maxDelay, DefaultMaxDelay)
       IN IF d > most THEN most ELSE d

(* The delay after n failures.                                             *)
Delay(c, n) ==
  IF n = 0 THEN 0
  ELSE LET exp == IF c.maxExp > 0 /\ n - 1 > c.maxExp THEN c.maxExp ELSE n - 1
           d == Shifted(OrElse(c.base, DefaultBase), exp)
           most == OrElse(c.maxDelay, DefaultMaxDelay)
       IN IF d > most THEN most ELSE d

(* A configuration is copied while it may be written: any mixture.         *)
BackoffRead ==
  {[base |-> b, maxDelay |-> m, maxExp |-> e, hard |-> h, minutes |-> t, perIP |-> p] :
     b \in {backoff.base, writing.base}, m \in {backoff.maxDelay, writing.maxDelay},
     e \in {backoff.maxExp, writing.maxExp}, h \in {backoff.hard, writing.hard},
     t \in {backoff.minutes, writing.minutes}, p \in {backoff.perIP, writing.perIP}}

Bucket(c, a) == IF c.perIP THEN <<attempt[a].user, attempt[a].ip>> ELSE <<attempt[a].user>>

(* The two mutexes are held while an event is recorded (SecurityEvents).   *)
BackoffHeld == \E a \in Attempts : attempt[a].pc = "locking"
RateHeld == \E a \in Attempts : attempt[a].pc = "banning"

-----------------------------------------------------------------------------
(* An attempt, by the form of the dashboard or by an Authorization header. *)

At(a, pc) == attempt[a].pc = pc
To(a, pc) == attempt' = [attempt EXCEPT ![a].pc = pc]
Ends(a) == attempt' = [attempt EXCEPT ![a] = NoAttempt]

Arrive(a) ==
  /\ At(a, "idle")
  /\ \E u \in Users \cup {NoUser}, i \in Ips :
       attempt' = [attempt EXCEPT ![a] = [NoAttempt EXCEPT !.pc = "rate?", !.user = u, !.ip = i]]
  /\ UNCHANGED <<limitVars, settingVars, late>>

(* The window of an address, begun anew when it is over.                   *)
Rolled(r) == IF r.left = 0 THEN [r EXCEPT !.left = Minute, !.count = 0] ELSE r

(* ipRateCheck                                                             *)
RateCheck(a) ==
  LET i == attempt[a].ip IN
  /\ At(a, "rate?") /\ ~RateHeld
  /\ \/ rate[i].ban > 0 /\ Ends(a) /\ UNCHANGED rate
     \/ /\ rate[i].ban = 0
        /\ rate' = [rate EXCEPT ![i] = Rolled(@)]
        /\ To(a, IF attempt[a].user = NoUser THEN "verify" ELSE "locked?")
  /\ UNCHANGED <<failures, locked, settingVars, late>>

(* Variant: the lockout is not looked at.                                  *)
BackoffUnchecked(a) ==
  /\ At(a, "locked?") /\ ~BackoffHeld
  /\ \E c \in BackoffRead :
       attempt' = [attempt EXCEPT ![a].pc = "verify", ![a].bucket = Bucket(c, a),
                     ![a].delay = Delay(c, failures[Bucket(c, a)]), ![a].owes = FALSE]
  /\ UNCHANGED <<limitVars, settingVars, late>>

(* nextLoginDelayFor, and the sleep.                                       *)
BackoffCheck(a) ==
  /\ At(a, "locked?") /\ ~BackoffHeld
  /\ \E c \in BackoffRead :
       LET b == Bucket(c, a) IN
       \/ locked[b] > 0 /\ Ends(a)
       \/ /\ locked[b] = 0
          /\ attempt' = [attempt EXCEPT ![a].pc = "verify", ![a].bucket = b,
                           ![a].delay = Delay(c, failures[b]), ![a].owes = c.maxExp > 0 /\ failures[b] > 0]
  /\ UNCHANGED <<limitVars, settingVars, late>>

(* The sleep is over; the password is right or not, and enough or not.     *)
Verify(a) ==
  /\ At(a, "verify")
  /\ \E pc \in {"right", "wrong"} :
       /\ pc = "right" => attempt[a].user # NoUser
       /\ attempt' = [attempt EXCEPT ![a] = [NoAttempt EXCEPT !.pc = pc, !.user = attempt[a].user,
                                                       !.ip = attempt[a].ip]]
  /\ LET b == attempt[a].bucket
     IN late' = IF b # NoBucket /\ locked[b] > 0 THEN [late EXCEPT ![b] = @ + 1] ELSE late
  /\ UNCHANGED <<limitVars, settingVars>>

(* recordLoginFailureFor                                                   *)
RecordLoginFailure(a) ==
  /\ At(a, "wrong") /\ attempt[a].user # NoUser /\ ~BackoffHeld
  /\ \E c \in BackoffRead :
       LET b == Bucket(c, a)
           n == failures[b] + 1
       IN /\ failures[b] < MaxFailures
          /\ failures' = [failures EXCEPT ![b] = n]
          /\ \/ /\ n < OrElse(c.hard, DefaultHard)
                /\ To(a, "rate") /\ UNCHANGED <<locked, late>>
             \/ /\ n >= OrElse(c.hard, DefaultHard)
                /\ locked' = [locked EXCEPT ![b] = OrElse(c.minutes, DefaultMinutes)]
                /\ UNCHANGED late
                /\ To(a, "locking")
  /\ UNCHANGED <<rate, settingVars>>

(* Without a user name no failure is recorded, and the form of the         *)
(* dashboard does not record the rate either.                              *)
NothingToRecord(a) ==
  /\ At(a, "wrong") /\ attempt[a].user = NoUser
  /\ Ends(a) \/ To(a, "rate")
  /\ UNCHANGED <<limitVars, settingVars, late>>

LockReported(a) ==
  /\ At(a, "locking") /\ To(a, "rate")
  /\ UNCHANGED <<limitVars, settingVars, late>>

(* resetLoginBackoffFor                                                    *)
ResetLoginBackoff(a) ==
  /\ At(a, "right") /\ ~BackoffHeld
  /\ \E c \in BackoffRead :
       /\ failures' = [failures EXCEPT ![Bucket(c, a)] = 0]
       /\ locked' = [locked EXCEPT ![Bucket(c, a)] = 0]
       /\ late' = [late EXCEPT ![Bucket(c, a)] = 0]
  /\ To(a, "rate")
  /\ UNCHANGED <<rate, settingVars>>

(* ipRateRecord                                                            *)
RateRecord(a) ==
  LET i == attempt[a].ip
      r == Rolled(rate[i])
  IN
  /\ At(a, "rate") /\ ~RateHeld
  /\ \/ /\ ~(ipRate.max > 0 /\ r.count + 1 > ipRate.max)
        /\ rate' = [rate EXCEPT ![i] = [r EXCEPT !.count = @ + 1]]
        /\ Ends(a)
     \/ /\ ipRate.max > 0 /\ r.count + 1 > ipRate.max
        /\ rate' = [rate EXCEPT ![i] = [r EXCEPT !.count = @ + 1, !.ban = OrElse(ipRate.ban, DefaultMinutes)]]
        /\ To(a, "banning")
  /\ UNCHANGED <<failures, locked, settingVars, late>>

BanReported(a) ==
  /\ At(a, "banning") /\ Ends(a)
  /\ UNCHANGED <<limitVars, settingVars, late>>

AttemptStep(a) ==
  \/ RateCheck(a) \/ BackoffCheck(a) \/ Verify(a)
  \/ RecordLoginFailure(a) \/ NothingToRecord(a) \/ LockReported(a)
  \/ ResetLoginBackoff(a) \/ RateRecord(a) \/ BanReported(a)

-----------------------------------------------------------------------------
(* Time, settings, restarts.                                               *)

(* Variant: what is left of a period that is over is negative.             *)
LessThanNone(n) == n - 1

Less(n) == IF n > 0 THEN n - 1 ELSE 0

Tick ==
  /\ locked' = [b \in Buckets |-> Less(locked[b])]
  /\ rate' = [i \in Ips |-> [rate[i] EXCEPT !.left = Less(@), !.ban = Less(@)]]
  /\ late' = [b \in Buckets |-> IF locked'[b] = 0 THEN 0 ELSE late[b]]
  /\ UNCHANGED <<failures, attempt, settingVars>>

(* handleUpdateLoginBackoffSettings: the struct is written, then the rows. *)
UpdateLoginBackoff ==
  /\ updates < MaxUpdates /\ writing = backoff
  /\ writing' \in Backoffs /\ updates' = updates + 1
  /\ UNCHANGED <<limitVars, attempt, backoff, ipRate, stored, late>>

StoreLoginBackoff ==
  /\ writing # backoff
  /\ backoff' = writing
  /\ stored' = [stored EXCEPT !.backoff = {writing}]
  /\ UNCHANGED <<limitVars, attempt, writing, ipRate, updates, late>>

(* handleUpdateIPRateSettings                                              *)
UpdateIPRate ==
  /\ updates < MaxUpdates
  /\ ipRate' \in Rates /\ updates' = updates + 1
  /\ stored' = [stored EXCEPT !.ipRate = {ipRate'}]
  /\ UNCHANGED <<limitVars, attempt, backoff, writing, late>>

(* NewServer: the limiters are empty, and the settings are those of the    *)
(* configuration, because the database is opened only after the code that  *)
(* would read them.                                                        *)
RestartServer ==
  /\ failures' = [b \in Buckets |-> 0] /\ locked' = [b \in Buckets |-> 0]
  /\ rate' = [i \in Ips |-> NoRate]
  /\ attempt' = [a \in Attempts |-> NoAttempt]
  /\ backoff' = BackoffGiven /\ writing' = BackoffGiven /\ ipRate' = RateGiven
  /\ late' = [b \in Buckets |-> 0]
  /\ UNCHANGED <<stored, updates>>

SettingsStep == UpdateLoginBackoff \/ StoreLoginBackoff \/ UpdateIPRate

AccessNext ==
  \/ \E a \in Attempts : Arrive(a) \/ AttemptStep(a)
  \/ Tick
  \/ SettingsStep
  \/ RestartServer

AccessSpec == AccessInit /\ [][AccessNext]_accessVars

(* The limiters and the attempts are what their code makes of them.        *)
AccessTypeOK ==
  /\ failures \in [Buckets -> 0..MaxFailures] /\ locked \in [Buckets -> Nat]
  /\ rate \in [Ips -> [left : 0..Minute, count : Nat, ban : Nat]]
  /\ attempt \in [Attempts ->
       [pc : {"idle", "rate?", "locked?", "verify", "wrong", "right", "locking", "rate", "banning"},
        user : Users \cup {NoUser}, ip : Ips,
        bucket : Buckets \cup {NoBucket}, delay : Int, owes : BOOLEAN]]
  /\ backoff \in Backoff /\ writing \in Backoff /\ ipRate \in Rate
  /\ late \in [Buckets -> Nat] /\ updates \in Nat

(* While a bucket is locked, however often the lockout is extended and     *)
(* whatever the settings become, at most the passwords of those attempts   *)
(* are checked that had asked nextLoginDelayFor before the lockout and were*)
(* asleep: never one more than there are attempts beside the one that      *)
(* locked.                                                                 *)
LockoutHolds == \A b \in Buckets : locked[b] > 0 => late[b] < Cardinality(Attempts)

(* Though ipRateCheck and ipRateRecord are apart, an address makes in a    *)
(* window no more attempts than its rate and those under way: a ban that   *)
(* recording the one too many sets lasts as long as the window.            *)
RateHolds ==
  \A i \in Ips : \E r \in Rates \cup {RateGiven} :
    rate[i].count <= r.max + Cardinality(Attempts)

(* Neither of the two limits of logins lets more through than the attempts *)
(* that were under way when it was reached.                                *)
LimitsHold == LockoutHolds /\ RateHolds

(* With a cap on the exponent, an attempt that follows a failure waits     *)
(* before its password is checked: the shift of nextLoginDelayFor does not *)
(* run out of its word.                                                    *)
FailureDelays ==
  \A a \in Attempts : At(a, "verify") /\ attempt[a].owes => attempt[a].delay > 0
=============================================================================
