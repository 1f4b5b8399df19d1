-------------------------- MODULE Administration_proofs ------------------------
(***************************************************************************)
(* What administrators change: the accounts in the database (Accounts) and *)
(* in a file (UserFile), the ports (PortAllocation), the AI providers with *)
(* the conversations (AIProviders); and all of MCAdministration.           *)
(***************************************************************************)
EXTENDS MCAdministration, Access_proofs

-----------------------------------------------------------------------------
(* Accounts.                                                               *)

(* Where a request is says what it has.                                    *)
JobShape(q) ==
  /\ q.pc # "idle" => q.sender \in Names
  /\ q.pc \notin {"idle", "own"} => q.target \in Names
  /\ q.pc = "source?" => q.kind = "source"
  /\ q.pc = "own" => q.kind \in Kinds
  /\ q.pc = "cleanup" => q.next \in 1..6
  /\ q.pc = "delete" => q.next = 7
  /\ q.pc \notin {"cleanup", "delete"} => q.next = 1

JobsShape ==
  /\ \A r \in Requests : JobShape(request[r])
  /\ \A c \in Clients : client[c].pc # "idle" => client[c].user \in Names

(* A row that is not missed has its user, and its cleanup is to come.      *)
Kept(x) == x.kind \in CleanedKinds /\ ~x.missed => Exists(x.user) /\ ~Cleaned(x.user, x.kind)
RowsKept == \A x \in owned : Kept(x)

AccountsInv == AccountsTypeOK /\ JobsShape /\ RowsKept

(* The six kinds, in their order.                                          *)
LEMMA CleanupsLen == Len(Cleanups) = 6 /\ DOMAIN Cleanups = 1..6
BY DEF Cleanups

(* The steps of requests that write request[r] only by Finish or Goto, or  *)
(* begin one, and what they leave of its type and shape.                   *)
LEMMA JobWritten ==
  ASSUME AccountsTypeOK, JobsShape, NEW r \in Requests, NEW job \in Job, JobShape(job),
         request' = [request EXCEPT ![r] = job]
  PROVE  /\ request' \in [Requests -> Job]
         /\ \A q \in Requests : JobShape(request'[q])
BY DEF AccountsTypeOK, JobsShape

LEMMA IdleJob == NoRequest \in Job /\ JobShape(NoRequest)
BY AccountsAssumption DEF NoRequest, Job, JobShape, NoAccount, Account, Kinds, CleanedKinds

(* A request that has just begun to clean, or does not, has cleaned nothing*)
(* new.                                                                    *)
LEMMA NothingCleaned ==
  ASSUME AccountsTypeOK, NEW r \in Requests, NEW job \in Job,
         job.pc \in {"cleanup", "delete"} => job.next = 1,
         request' = [request EXCEPT ![r] = job]
  PROVE  \A u, k : k \in CleanedKinds /\ Cleaned(u, k)' => Cleaned(u, k)
<1>1. \A k \in CleanedKinds : \E i \in DOMAIN Cleanups : Cleanups[i] = k /\ i >= 1
  <2>1. /\ Cleanups[2] = "listener" /\ Cleanups[3] = "tunnel" /\ Cleanups[4] = "reservation"
        /\ Cleanups[5] = "token" /\ Cleanups[6] = "source"
    BY DEF Cleanups
  <2> QED BY <2>1, CleanupsLen DEF CleanedKinds
<1>2. SUFFICES ASSUME NEW u, NEW k \in CleanedKinds, NEW q \in Requests,
                      request'[q].pc \in {"cleanup", "delete"}, request'[q].target = u,
                      \A i \in DOMAIN Cleanups : Cleanups[i] = k => i < request'[q].next
               PROVE  Cleaned(u, k)
  BY DEF Cleaned
<1>3. q # r
  BY <1>1, <1>2, CleanupsLen DEF AccountsTypeOK
<1> QED BY <1>2, <1>3 DEF Cleaned, AccountsTypeOK

(* Rows stay kept while they, and their users, are only added to.          *)
LEMMA KeptStays ==
  ASSUME RowsKept, owned' \subseteq owned,
         \A u : Exists(u) => Exists(u)',
         \A u, k : k \in CleanedKinds /\ Cleaned(u, k)' => Cleaned(u, k)
  PROVE  RowsKept'
BY DEF RowsKept, Kept

-----------------------------------------------------------------------------
(* Steps of requests.                                                      *)

(* What is left of the invariant when a step has written one request, and  *)
(* rows of users only come or change.                                      *)
LEMMA RequestOnly ==
  ASSUME AccountsInv, NEW r \in Requests, NEW job \in Job, JobShape(job),
         job.pc \in {"cleanup", "delete"} => job.next = 1,
         request' = [request EXCEPT ![r] = job],
         users' \in [Names -> Account], \A u : Exists(u) => Exists(u)',
         UNCHANGED <<owned, sshVars>>,
         served' \in 0..MaxServed, outdated' \in BOOLEAN
  PROVE  AccountsInv'
<1>1. /\ request' \in [Requests -> Job]
      /\ \A q \in Requests : JobShape(request'[q])
  BY JobWritten DEF AccountsInv
<1>2. \A u, k : k \in CleanedKinds /\ Cleaned(u, k)' => Cleaned(u, k)
  BY NothingCleaned DEF AccountsInv
<1>3. RowsKept'
  BY <1>2, KeptStays DEF AccountsInv, sshVars
<1> QED BY <1>1, <1>3 DEF AccountsInv, AccountsTypeOK, JobsShape, sshVars

LEMMA FinishKeeps ==
  ASSUME AccountsInv, NEW r \in Requests, Finish(r),
         users' \in [Names -> Account], \A u : Exists(u) => Exists(u)',
         UNCHANGED <<owned, sshVars>>,
         served' \in 0..MaxServed, outdated' \in BOOLEAN
  PROVE  AccountsInv'
BY IdleJob, RequestOnly DEF Finish, NoRequest

(* A request begins with a job of the right shape.                         *)
LEMMA BeginKeeps ==
  ASSUME AccountsInv, NEW r \in Requests, NEW job \in Job, JobShape(job), job.next = 1, Begin(r, job)
  PROVE  AccountsInv'
<1>1. served' \in 0..MaxServed
  BY AccountsAssumption DEF Begin, AccountsInv, AccountsTypeOK
<1> QED BY <1>1, RequestOnly DEF Begin, AccountsInv, AccountsTypeOK, Exists

LEMMA BeginsKeep ==
  ASSUME AccountsInv, NEW r \in Requests,
         BeginAdmin(r) \/ BeginSSO(r) \/ BeginProfile(r) \/ BeginInsert(r)
  PROVE  AccountsInv'
<1>1. ASSUME NEW s \in Names PROVE users[s] \in Account /\ users[s].id \in -1..MaxServed
  BY DEF AccountsInv, AccountsTypeOK, Account
<1>2. NoAccount \in Account /\ \A admin \in BOOLEAN : [id |-> 0, admin |-> admin] \in Account
  BY AccountsAssumption DEF NoAccount, Account
<1>3. ASSUME NEW s \in Names, NEW t \in Names \cup {NoName}, NEW row \in Account,
             NEW pc \in {"add?", "update?", "sso?", "write", "delete?", "own"}, NEW kind \in Kinds \cup {"none"},
             pc # "own" => t \in Names, pc = "own" => kind \in Kinds,
             Begin(r, Demand(pc, s, t, kind, row))
      PROVE  AccountsInv'
  <2>1. Demand(pc, s, t, kind, row) \in Job
    BY <1>1, <1>3 DEF Job, Demand
  <2>2. JobShape(Demand(pc, s, t, kind, row)) /\ Demand(pc, s, t, kind, row).next = 1
    BY <1>3 DEF JobShape, Demand
  <2> QED BY <1>3, <2>1, <2>2, BeginKeeps
<1>4. CASE BeginAdmin(r)
  BY <1>2, <1>3, <1>4 DEF BeginAdmin
<1>5. CASE BeginSSO(r)
  BY <1>2, <1>3, <1>5 DEF BeginSSO, Kinds, CleanedKinds
<1>6. CASE BeginProfile(r)
  BY <1>1, <1>3, <1>6 DEF BeginProfile
<1>7. CASE BeginInsert(r)
  <2>1. Inserts \subseteq Kinds
    BY AccountsAssumption DEF Kinds, CleanedKinds
  <2> QED BY <1>2, <1>3, <1>7, <2>1 DEF BeginInsert
<1> QED BY <1>4, <1>5, <1>6, <1>7

(* A request that goes on to another place keeps all but it.               *)
LEMMA GotoKeeps ==
  ASSUME AccountsInv, NEW r \in Requests,
         NEW pc \in {"insert", "source?", "cleanup", "own"}, Goto(r, pc),
         request[r].pc \notin {"idle", "own", "cleanup", "delete"},
         pc = "source?" \/ pc = "own" => request[r].kind = "source",
         users' \in [Names -> Account], \A u : Exists(u) => Exists(u)',
         UNCHANGED <<owned, sshVars>>,
         served' \in 0..MaxServed, outdated' \in BOOLEAN
  PROVE  AccountsInv'
<1> DEFINE job == [request[r] EXCEPT !.pc = pc]
<1>1. request[r] \in Job /\ JobShape(request[r])
  BY DEF AccountsInv, AccountsTypeOK, JobsShape
<1>2. job \in Job /\ job.pc = pc /\ job.next = 1
  BY <1>1 DEF Job, JobShape
<1>3. JobShape(job)
  BY <1>1 DEF Job, JobShape, Kinds, CleanedKinds
<1>4. request' = [request EXCEPT ![r] = job]
  BY DEF Goto, AccountsInv, AccountsTypeOK
<1> HIDE DEF job
<1> QED BY <1>2, <1>3, <1>4, RequestOnly

LEMMA AfterRowKeeps ==
  ASSUME AccountsInv, NEW r \in Requests, AfterRow(r), request[r].pc \in {"insert", "write"},
         users' \in [Names -> Account], \A u : Exists(u) => Exists(u)',
         UNCHANGED <<owned, sshVars>>,
         served' \in 0..MaxServed, outdated' \in BOOLEAN
  PROVE  AccountsInv'
BY FinishKeeps, GotoKeeps DEF AfterRow

(* The steps that read, and those that write rows of users, but do not     *)
(* delete.                                                                 *)
LEMMA RowsStep ==
  ASSUME AccountsInv, NEW r \in Requests,
         \/ CheckAbsent(r) \/ CreateUser(r) \/ ReadForUpdate(r) \/ ReadForSSO(r) \/ UpdateUser(r)
         \/ CheckPresent(r) \/ FindSource(r) \/ StatementFails(r)
  PROVE  AccountsInv'
<1>0. /\ request[r] \in Job /\ JobShape(request[r]) /\ users \in [Names -> Account]
      /\ served \in 0..MaxServed /\ outdated \in BOOLEAN
  BY DEF AccountsInv, AccountsTypeOK, JobsShape
<1>1. CASE CheckAbsent(r)
  BY <1>0, <1>1, FinishKeeps, GotoKeeps DEF CheckAbsent, Exists
<1>2. CASE CreateUser(r)
  <2> DEFINE t == request[r].target
  <2>1. [id |-> served, admin |-> request[r].row.admin] \in Account
    BY <1>0 DEF Job, Account
  <2>2. users' \in [Names -> Account] /\ \A u : Exists(u) => Exists(u)'
    BY <1>0, <1>2, <2>1 DEF CreateUser, JobShape, Exists
  <2> QED BY <1>0, <1>2, <2>2, AfterRowKeeps DEF CreateUser
<1>3. CASE ReadForUpdate(r)
  <2> DEFINE t == request[r].target
             job == [request[r] EXCEPT !.pc = "write", !.read = users[t],
                                       !.row = [id |-> 0, admin |-> request[r].row.admin]]
  <2>1. CASE ~Exists(t) /\ Finish(r)
    BY <1>0, <1>3, <2>1, FinishKeeps DEF ReadForUpdate, Exists
  <2>2. CASE request' = [request EXCEPT ![r] = job]
    <3>1. t \in Names /\ users[t] \in Account
      BY <1>0, <1>3 DEF ReadForUpdate, JobShape
    <3>2. [id |-> 0, admin |-> request[r].row.admin] \in Account
      BY <1>0, AccountsAssumption DEF Job, Account
    <3>3. job \in Job /\ job.pc = "write" /\ job.target = t /\ job.sender = request[r].sender
                    /\ job.next = request[r].next
      BY <1>0, <3>1, <3>2 DEF Job
    <3>4. JobShape(job) /\ job.next = 1
      BY <1>0, <1>3, <3>1, <3>3 DEF ReadForUpdate, JobShape
    <3>5. UNCHANGED <<users, owned, sshVars, served, outdated>>
      BY <1>3 DEF ReadForUpdate
    <3> HIDE DEF job
    <3> QED BY <1>0, <2>2, <3>3, <3>4, <3>5, RequestOnly DEF Exists
  <2> QED BY <1>0, <1>3, <2>1, <2>2 DEF ReadForUpdate, AccountsInv, AccountsTypeOK
<1>4. CASE ReadForSSO(r)
  <2> DEFINE t == request[r].target
             job == [request[r] EXCEPT !.pc = IF Exists(t) THEN "write" ELSE "insert",
                                       !.read = users[t], !.row = users[t]]
  <2>1. t \in Names /\ users[t] \in Account
    BY <1>0, <1>4 DEF ReadForSSO, JobShape
  <2>2. /\ job \in Job /\ job.pc \in {"write", "insert"} /\ job.target = t
        /\ job.sender = request[r].sender /\ job.next = request[r].next
    BY <1>0, <2>1 DEF Job
  <2>3. JobShape(job) /\ job.next = 1
    BY <1>0, <1>4, <2>1, <2>2 DEF ReadForSSO, JobShape
  <2>4. request' = [request EXCEPT ![r] = job]
    BY <1>4 DEF ReadForSSO, AccountsInv, AccountsTypeOK
  <2> HIDE DEF job
  <2> QED BY <1>0, <1>4, <2>2, <2>3, <2>4, RequestOnly DEF ReadForSSO, Exists
<1>5. CASE UpdateUser(r)
  <2> DEFINE t == request[r].target
  <2>1. users' \in [Names -> Account] /\ \A u : Exists(u) => Exists(u)'
    BY <1>0, <1>5 DEF UpdateUser, JobShape, Exists, Job, Account
  <2>2. outdated' \in BOOLEAN
    BY <1>5 DEF UpdateUser
  <2> QED BY <1>0, <1>5, <2>1, <2>2, AfterRowKeeps DEF UpdateUser
<1>6. CASE CheckPresent(r)
  BY <1>0, <1>6, FinishKeeps, GotoKeeps DEF CheckPresent, Exists
<1>7. CASE FindSource(r)
  BY <1>0, <1>7, FinishKeeps, GotoKeeps DEF FindSource, Exists, JobShape
<1>8. CASE StatementFails(r)
  BY <1>0, <1>8, FinishKeeps DEF StatementFails, Exists
<1> QED BY <1>1, <1>2, <1>3, <1>4, <1>5, <1>6, <1>7, <1>8

(* The cleanup of one kind leaves what is missed, and nothing else of it.  *)
LEMMA CleanupKeeps ==
  ASSUME AccountsInv, NEW r \in Requests, Cleanup(r)
  PROVE  AccountsInv'
<1> DEFINE t == request[r].target
           n == request[r].next
           kind == Cleanups[n]
           found == {x \in owned : x.kind = kind /\ x.user = t}
           pc == IF n = Len(Cleanups) THEN "delete" ELSE "cleanup"
           job == [request[r] EXCEPT !.next = n + 1, !.pc = pc]
<1>1. /\ request[r] \in Job /\ request[r].pc = "cleanup" /\ n \in 1..6 /\ t \in Names
      /\ request[r].sender \in Names
      /\ owned \subseteq [kind : Kinds, user : Names, missed : BOOLEAN]
  BY DEF AccountsInv, AccountsTypeOK, JobsShape, JobShape, Cleanup
<1>2. /\ job \in Job /\ job.next = n + 1 /\ job.target = t /\ job.sender = request[r].sender
      /\ job.pc = IF n = 6 THEN "delete" ELSE "cleanup"
  <2>1. n + 1 \in 1..7 /\ pc \in {"cleanup", "delete"} /\ pc = IF n = 6 THEN "delete" ELSE "cleanup"
    BY <1>1, CleanupsLen
  <2> HIDE DEF pc
  <2>2. job \in Job /\ job.next = n + 1 /\ job.target = t /\ job.sender = request[r].sender /\ job.pc = pc
    BY <1>1, <2>1 DEF Job
  <2> QED BY <2>1, <2>2
<1>3. JobShape(job)
  BY <1>1, <1>2 DEF JobShape
<1>4. request' = [request EXCEPT ![r] = job]
  BY DEF Cleanup
<1>5. /\ request' \in [Requests -> Job] /\ \A q \in Requests : JobShape(request'[q])
  <2> HIDE DEF job
  <2> QED BY <1>2, <1>3, <1>4, JobWritten DEF AccountsInv
<1>6. PICK failed \in SUBSET found :
        owned' = (owned \ found) \cup {[x EXCEPT !.missed = TRUE] : x \in failed}
  BY DEF Cleanup
<1>7. owned' \subseteq [kind : Kinds, user : Names, missed : BOOLEAN]
  BY <1>1, <1>6
<1>8. \A x \in owned' : ~x.missed => x \in owned /\ ~(x.kind = kind /\ x.user = t)
  <2>1. \A x \in failed : [x EXCEPT !.missed = TRUE].missed
    BY <1>1, <1>6
  <2> QED BY <1>6, <2>1
<1>9. ASSUME NEW u, NEW k \in CleanedKinds, Cleaned(u, k)', ~(k = kind /\ u = t)
      PROVE  Cleaned(u, k)
  <2>1. PICK q \in Requests :
          /\ request'[q].pc \in {"cleanup", "delete"} /\ request'[q].target = u
          /\ \A i \in DOMAIN Cleanups : Cleanups[i] = k => i < request'[q].next
    BY <1>9 DEF Cleaned
  <2>2. CASE q # r
    BY <2>1, <2>2, <1>4 DEF Cleaned, AccountsInv, AccountsTypeOK
  <2>3. CASE q = r
    <3>1. u = t /\ \A i \in DOMAIN Cleanups : Cleanups[i] = k => i < n + 1
      BY <1>2, <1>4, <2>1, <2>3 DEF AccountsInv, AccountsTypeOK
    <3>2. \A i \in DOMAIN Cleanups : Cleanups[i] = k => i < n
      BY <1>1, <1>9, <3>1, CleanupsLen
    <3> QED BY <1>1, <3>1, <3>2 DEF Cleaned
  <2> QED BY <2>2, <2>3
<1>10. RowsKept'
  BY <1>8, <1>9 DEF RowsKept, Kept, AccountsInv, Cleanup, Exists
<1>11. sessions' \in [Clients -> Names \cup {NoName}]
  BY DEF Cleanup, AccountsInv, AccountsTypeOK
<1> QED BY <1>5, <1>7, <1>10, <1>11 DEF AccountsInv, AccountsTypeOK, JobsShape, Cleanup

(* When the row of a user goes, its cleanup has been through every kind.   *)
LEMMA DeleteUserKeeps ==
  ASSUME AccountsInv, NEW r \in Requests, DeleteUser(r)
  PROVE  AccountsInv'
<1> DEFINE t == request[r].target
<1>1. t \in Names /\ request[r].next = 7
  BY DEF AccountsInv, JobsShape, JobShape, DeleteUser
<1>2. \A k \in CleanedKinds : Cleaned(t, k)
  BY <1>1, CleanupsLen DEF Cleaned, DeleteUser
<1>3. request' \in [Requests -> Job] /\ \A q \in Requests : JobShape(request'[q])
  BY IdleJob, JobWritten DEF AccountsInv, DeleteUser, Finish
<1>4. \A u, k : k \in CleanedKinds /\ Cleaned(u, k)' => Cleaned(u, k)
  BY IdleJob, NothingCleaned DEF AccountsInv, DeleteUser, Finish, NoRequest
<1>5. users' \in [Names -> Account] /\ \A u : u # t /\ u \in Names /\ Exists(u) => Exists(u)'
  BY <1>1, AccountsAssumption DEF AccountsInv, AccountsTypeOK, DeleteUser, NoAccount, Account, Exists
<1>6. RowsKept'
  BY <1>2, <1>4, <1>5 DEF RowsKept, Kept, AccountsInv, AccountsTypeOK, DeleteUser
<1>7. outdated' \in BOOLEAN
  BY DEF DeleteUser
<1> QED BY <1>3, <1>5, <1>6, <1>7 DEF AccountsInv, AccountsTypeOK, JobsShape, DeleteUser, sshVars

(* A row that comes is missed from the start when its user is gone, or     *)
(* about to go with its kind cleaned.                                      *)
LEMMA InsertedKeeps ==
  ASSUME AccountsInv, NEW kind \in Kinds, NEW u \in Names, Inserted(kind, u), UNCHANGED users,
         \A v, k : k \in CleanedKinds /\ Cleaned(v, k)' => Cleaned(v, k)
  PROVE  RowsKept' /\ owned' \subseteq [kind : Kinds, user : Names, missed : BOOLEAN]
<1> DEFINE new == [kind |-> kind, user |-> u, missed |-> ~Exists(u) \/ Cleaned(u, kind)]
<1>1. (~Exists(u) \/ Cleaned(u, kind)) \in BOOLEAN
  OBVIOUS
<1>2. new \in [kind : Kinds, user : Names, missed : BOOLEAN] /\ Kept(new)
  BY <1>1 DEF Kept
<1>3. \A x : Kept(x) => Kept(x)'
  BY DEF Kept, Exists
<1>4. owned' = owned \cup {new}
  BY DEF Inserted
<1> HIDE DEF new
<1> QED BY <1>2, <1>3, <1>4 DEF RowsKept, AccountsInv, AccountsTypeOK

LEMMA OwnedStep ==
  ASSUME AccountsInv, NEW r \in Requests, InsertOwned(r) \/ RevokeToken(r)
  PROVE  AccountsInv'
<1>1. CASE InsertOwned(r)
  <2>1. request[r].sender \in Names /\ request[r].kind \in Kinds
    BY <1>1 DEF InsertOwned, AccountsInv, JobsShape, JobShape
  <2>2. request' \in [Requests -> Job] /\ \A q \in Requests : JobShape(request'[q])
    BY <1>1, IdleJob, JobWritten DEF AccountsInv, InsertOwned, Finish
  <2>3. \A u, k : k \in CleanedKinds /\ Cleaned(u, k)' => Cleaned(u, k)
    BY <1>1, IdleJob, NothingCleaned DEF AccountsInv, InsertOwned, Finish, NoRequest
  <2>4. RowsKept' /\ owned' \subseteq [kind : Kinds, user : Names, missed : BOOLEAN]
    BY <1>1, <2>1, <2>3, InsertedKeeps DEF InsertOwned
  <2> QED BY <1>1, <2>2, <2>4 DEF AccountsInv, AccountsTypeOK, JobsShape, InsertOwned, sshVars
<1>2. CASE RevokeToken(r)
  <2>1. owned' \subseteq owned /\ served' \in 0..MaxServed
    BY <1>2, AccountsAssumption DEF RevokeToken, AccountsInv, AccountsTypeOK
  <2>2. \A u, k : Cleaned(u, k)' => Cleaned(u, k)
    BY <1>2 DEF RevokeToken, Cleaned
  <2>3. RowsKept'
    BY <1>2, <2>1, <2>2, KeptStays DEF RevokeToken, AccountsInv, Exists
  <2> QED BY <1>2, <2>1, <2>3 DEF RevokeToken, AccountsInv, AccountsTypeOK, JobsShape, sshVars
<1> QED BY <1>1, <1>2

-----------------------------------------------------------------------------
(* Steps of SSH connections, and the theorems.                             *)

LEMMA ClientKeeps ==
  ASSUME AccountsInv, NEW c \in Clients, ClientStep(c)
  PROVE  AccountsInv'
<1> DEFINE Connection == [pc : {"idle", "set", "handshake", "live", "open"}, user : Names \cup {NoName}]
<1>1. /\ client \in [Clients -> Connection] /\ sessions \in [Clients -> Names \cup {NoName}]
      /\ \A d \in Clients : client[d].pc # "idle" => client[d].user \in Names
  BY DEF AccountsInv, AccountsTypeOK, JobsShape
<1>2. UNCHANGED <<users, request, served, outdated>>
  BY DEF ClientStep, AuthUser, SetSession, TakeSession, HandshakeFails, OpenTunnels, SessionEnds
<1>3. /\ client' \in [Clients -> Connection] /\ sessions' \in [Clients -> Names \cup {NoName}]
      /\ \A d \in Clients : client'[d].pc # "idle" => client'[d].user \in Names
  <2>1. CASE AuthUser(c)
    BY <1>1, <2>1 DEF AuthUser
  <2>2. CASE SetSession(c)
    BY <1>1, <2>2 DEF SetSession, ClientAt
  <2>3. CASE TakeSession(c)
    BY <1>1, <2>3 DEF TakeSession, ClientAt, NoClient
  <2>4. CASE HandshakeFails(c)
    BY <1>1, <2>4 DEF HandshakeFails, ClientAt, NoClient
  <2>5. CASE OpenTunnels(c)
    BY <1>1, <2>5 DEF OpenTunnels, ClientAt
  <2>6. CASE SessionEnds(c)
    BY <1>1, <2>6 DEF SessionEnds, NoClient
  <2> QED BY <2>1, <2>2, <2>3, <2>4, <2>5, <2>6 DEF ClientStep
<1>4. calls' \in 0..MaxCalls
  BY AccountsAssumption
     DEF ClientStep, AuthUser, SetSession, TakeSession, HandshakeFails, OpenTunnels, SessionEnds,
         AccountsInv, AccountsTypeOK
<1>5. \A u, k : Cleaned(u, k)' => Cleaned(u, k)
  BY <1>2 DEF Cleaned
<1>6. RowsKept' /\ owned' \subseteq [kind : Kinds, user : Names, missed : BOOLEAN]
  <2>1. CASE OpenTunnels(c)
    BY <1>1, <1>2, <1>5, <2>1, InsertedKeeps DEF OpenTunnels, ClientAt, Kinds, CleanedKinds
  <2>2. CASE UNCHANGED owned
    BY <1>2, <1>5, <2>2, KeptStays DEF AccountsInv, AccountsTypeOK, Exists
  <2> QED BY <2>1, <2>2 DEF ClientStep, AuthUser, SetSession, TakeSession, HandshakeFails, SessionEnds
<1> QED BY <1>2, <1>3, <1>4, <1>6 DEF AccountsInv, AccountsTypeOK, JobsShape

LEMMA AccountsStart == AccountsInit => AccountsInv
<1> SUFFICES ASSUME AccountsInit PROVE AccountsInv
  OBVIOUS
<1>1. AccountsTypeOK
  <2>1. [id |-> -1, admin |-> TRUE] \in Account
    BY AccountsAssumption DEF Account
  <2>2. users \in [Names -> Account]
    BY <2>1 DEF AccountsInit
  <2>3. request \in [Requests -> Job]
    BY IdleJob DEF AccountsInit
  <2>4. served \in 0..MaxServed /\ calls \in 0..MaxCalls
    BY AccountsAssumption DEF AccountsInit
  <2>5. outdated \in BOOLEAN
    BY DEF AccountsInit
  <2> QED BY <2>2, <2>3, <2>4, <2>5 DEF AccountsInit, AccountsTypeOK, NoClient
<1>2. JobsShape /\ RowsKept
  BY IdleJob DEF AccountsInit, JobsShape, RowsKept, NoClient
<1> QED BY <1>1, <1>2 DEF AccountsInv

LEMMA AccountsStep == AccountsInv /\ [AccountsNext]_accountVars => AccountsInv'
<1> SUFFICES ASSUME AccountsInv, [AccountsNext]_accountVars PROVE AccountsInv'
  OBVIOUS
<1>1. ASSUME NEW r \in Requests,
             BeginAdmin(r) \/ BeginSSO(r) \/ BeginProfile(r) \/ BeginInsert(r) \/ RevokeToken(r) \/ RequestStep(r)
      PROVE  AccountsInv'
  BY <1>1, BeginsKeep, RowsStep, CleanupKeeps, DeleteUserKeeps, OwnedStep DEF RequestStep
<1>2. ASSUME NEW c \in Clients, ClientStep(c) PROVE AccountsInv'
  BY <1>2, ClientKeeps
<1>3. CASE UNCHANGED accountVars
  BY <1>3 DEF accountVars, sshVars, AccountsInv, AccountsTypeOK, JobsShape, RowsKept, Kept, Exists, Cleaned
<1> QED BY <1>1, <1>2, <1>3 DEF AccountsNext

(* The inductive invariant: types, what a request has where it is, and that*)
(* a row which is not missed has its user and its cleanup still to come.   *)
THEOREM AccountsInvariance == AccountsSpec => []AccountsInv
<1> QED BY AccountsStart, AccountsStep, PTL DEF AccountsSpec

(* Whatever deletions, insertions, callbacks of single sign-on and sessions*)
(* overlap: of the kinds that are cleaned, a deleted user leaves only rows *)
(* that came after their cleanup, or that it failed to delete.             *)
THEOREM DeletionCleans == AccountsSpec => []LeftoversAreMissed
<1>1. AccountsInv => LeftoversAreMissed
  BY DEF AccountsInv, RowsKept, Kept, LeftoversAreMissed
<1> QED BY <1>1, AccountsInvariance, PTL

-----------------------------------------------------------------------------
(* An administrator remains.  Not inductive alone: a request on its own    *)
(* sender takes no right away, and none deletes its sender; whoever writes *)
(* another's row is an administrator still, or the write is outdated.      *)
Duty(q) ==
  /\ q.pc = "update?" /\ q.target = q.sender => q.row.admin
  /\ q.pc = "write" /\ q.target = q.sender => q.row.admin \/ q.row.admin = q.read.admin
  /\ q.pc \in {"delete?", "cleanup", "delete"} => q.target # q.sender

AdminInv == AdminRemains /\ \A r \in Requests : Duty(request[r])

LEMMA DutyWritten ==
  ASSUME AdminInv, AccountsTypeOK, NEW r \in Requests, NEW job, Duty(job),
         request' = [request EXCEPT ![r] = job]
  PROVE  \A q \in Requests : Duty(request'[q])
BY DEF AdminInv, AccountsTypeOK

(* Steps that write one request and no row of users.                       *)
LEMMA ReadingStep ==
  ASSUME AdminInv, AccountsTypeOK, NEW r \in Requests, NEW job, Duty(job),
         request' = [request EXCEPT ![r] = job], UNCHANGED <<users, outdated>>
  PROVE  AdminInv'
<1>1. AdminRemains'
  BY DEF AdminInv, AdminRemains, IsAdmin, Exists
<1> QED BY <1>1, DutyWritten DEF AdminInv

LEMMA FinishedDuty == Duty(NoRequest)
BY DEF Duty, NoRequest

LEMMA MovedDuty ==
  ASSUME AccountsTypeOK, AdminInv, NEW r \in Requests, NEW pc,
         \/ pc \in {"insert", "source?", "own"}
         \/ pc = "cleanup" /\ request[r].pc = "delete?"
  PROVE  Duty([request[r] EXCEPT !.pc = pc])
BY DEF Duty, AdminInv, AccountsTypeOK, Job

(* Who sends a request has the right to then.                              *)
LEMMA BeginsDutiful ==
  ASSUME AccountsInv, AdminInv, NEW r \in Requests,
         BeginAdmin(r) \/ BeginSSO(r) \/ BeginProfile(r) \/ BeginInsert(r)
  PROVE  AdminInv'
<1>1. ASSUME NEW job, Duty(job), Begin(r, job) PROVE AdminInv'
  BY <1>1, ReadingStep DEF Begin, AccountsInv
<1>2. CASE BeginAdmin(r)
  <2>1. PICK s, t \in Names, admin \in BOOLEAN, pc \in {"add?", "update?", "delete?"} :
          /\ pc = "delete?" => t # s
          /\ pc = "update?" => admin \/ t # s
          /\ Begin(r, Demand(pc, s, t, "none", [id |-> 0, admin |-> admin]))
    BY <1>2 DEF BeginAdmin
  <2>2. Duty(Demand(pc, s, t, "none", [id |-> 0, admin |-> admin]))
    BY <2>1 DEF Duty, Demand
  <2> QED BY <1>1, <2>1, <2>2
<1>3. CASE BeginSSO(r)
  BY <1>1, <1>3 DEF BeginSSO, Duty, Demand
<1>4. CASE BeginProfile(r)
  BY <1>1, <1>4 DEF BeginProfile, Duty, Demand
<1>5. CASE BeginInsert(r)
  BY <1>1, <1>5 DEF BeginInsert, Duty, Demand
<1> QED BY <1>2, <1>3, <1>4, <1>5

(* What a request does after its row of users.                             *)
LEMMA AfterRowDutiful ==
  ASSUME AccountsInv, AdminInv, NEW r \in Requests, AfterRow(r)
  PROVE  \A q \in Requests : Duty(request'[q])
<1>1. CASE Goto(r, "source?")
  <2>1. request' = [request EXCEPT ![r] = [request[r] EXCEPT !.pc = "source?"]]
    BY <1>1 DEF Goto, AccountsInv, AccountsTypeOK
  <2> QED BY <2>1, MovedDuty, DutyWritten DEF AccountsInv
<1>2. CASE Finish(r)
  BY <1>2, FinishedDuty, DutyWritten DEF Finish, AccountsInv
<1> QED BY <1>1, <1>2 DEF AfterRow

(* The three that write rows of users.                                     *)
LEMMA CreateDutiful ==
  ASSUME AccountsInv, AdminInv, NEW r \in Requests, CreateUser(r)
  PROVE  AdminInv'
<1>1. \A u \in Names : IsAdmin(u) => IsAdmin(u)'
  BY DEF CreateUser, IsAdmin, Exists, AccountsInv, AccountsTypeOK
<1>2. AdminRemains'
  BY <1>1 DEF AdminInv, AdminRemains, CreateUser
<1> QED BY <1>2, AfterRowDutiful DEF AdminInv, CreateUser

LEMMA UpdateDutiful ==
  ASSUME AccountsInv, AdminInv, NEW r \in Requests, UpdateUser(r)
  PROVE  AdminInv'
<1> DEFINE q == request[r]
<1>1. /\ q.target \in Names /\ q.sender \in Names /\ Duty(q) /\ q.pc = "write"
      /\ users \in [Names -> Account] /\ outdated \in BOOLEAN /\ q \in Job
  BY DEF AccountsInv, AccountsTypeOK, JobsShape, JobShape, AdminInv, UpdateUser
<1>2. ASSUME outdated' PROVE AdminRemains'
  BY <1>2 DEF AdminRemains
<1>3. ASSUME ~outdated' PROVE AdminRemains'
  <2>1. ~outdated /\ ~Outdated(r) /\ users[q.target] = q.read
    BY <1>3 DEF UpdateUser
  <2>2. \A u \in Names : users'[u].id = users[u].id
    BY <1>1 DEF UpdateUser, Account
  <2>3. CASE q.target # q.sender
    <3>1. IsAdmin(q.sender) /\ users'[q.sender] = users[q.sender]
      BY <1>1, <2>1, <2>3 DEF Outdated, UpdateUser
    <3> QED BY <1>1, <3>1 DEF AdminRemains, IsAdmin, Exists
  <2>4. CASE q.target = q.sender
    <3>1. users[q.target].admin => users'[q.target].admin
      BY <1>1, <2>1, <2>4 DEF UpdateUser, Duty, Account, Job
    <3>2. \A u \in Names : IsAdmin(u) => IsAdmin(u)'
      BY <1>1, <2>2, <3>1 DEF UpdateUser, IsAdmin, Exists
    <3> QED BY <2>1, <3>2 DEF AdminInv, AdminRemains
  <2> QED BY <2>3, <2>4
<1>4. AdminRemains'
  BY <1>2, <1>3
<1> QED BY <1>4, AfterRowDutiful DEF AdminInv, UpdateUser

LEMMA DeleteDutiful ==
  ASSUME AccountsInv, AdminInv, NEW r \in Requests, DeleteUser(r)
  PROVE  AdminInv'
<1> DEFINE q == request[r]
<1>1. q.target # q.sender /\ q.sender \in Names /\ users \in [Names -> Account]
  BY DEF AccountsInv, AccountsTypeOK, JobsShape, JobShape, AdminInv, Duty, DeleteUser
<1>2. ~outdated' => IsAdmin(q.sender) /\ users'[q.sender] = users[q.sender]
  BY <1>1 DEF DeleteUser, Outdated
<1>3. AdminRemains'
  BY <1>1, <1>2 DEF AdminRemains, IsAdmin, Exists
<1>4. \A p \in Requests : Duty(request'[p])
  BY FinishedDuty, DutyWritten DEF DeleteUser, Finish, AccountsInv
<1> QED BY <1>3, <1>4 DEF AdminInv

(* The others.                                                             *)
LEMMA RequestDutiful ==
  ASSUME AccountsInv, AdminInv, NEW r \in Requests, RequestStep(r)
  PROVE  AdminInv'
<1>1. /\ request[r] \in Job /\ JobShape(request[r]) /\ Duty(request[r]) /\ AccountsTypeOK
      /\ users \in [Names -> Account]
  BY DEF AccountsInv, AccountsTypeOK, JobsShape, AdminInv
<1>2. ASSUME Finish(r), UNCHANGED <<users, outdated>> PROVE AdminInv'
  BY <1>1, <1>2, FinishedDuty, ReadingStep DEF Finish
<1>3. ASSUME NEW pc, Goto(r, pc), UNCHANGED <<users, outdated>>,
             \/ pc \in {"insert", "source?", "own"}
             \/ pc = "cleanup" /\ request[r].pc = "delete?"
      PROVE  AdminInv'
  <2>1. request' = [request EXCEPT ![r] = [request[r] EXCEPT !.pc = pc]]
    BY <1>1, <1>3 DEF Goto, AccountsTypeOK
  <2> QED BY <1>1, <1>3, <2>1, MovedDuty, ReadingStep
<1>4. CASE CheckAbsent(r)
  BY <1>2, <1>3, <1>4 DEF CheckAbsent
<1>5. CASE ReadForUpdate(r)
  <2> DEFINE t == request[r].target
             job == [request[r] EXCEPT !.pc = "write", !.read = users[t],
                                       !.row = [id |-> 0, admin |-> request[r].row.admin]]
  <2>1. Duty(job)
    BY <1>1, <1>5 DEF ReadForUpdate, Duty, Job
  <2>2. Finish(r) \/ request' = [request EXCEPT ![r] = job]
    BY <1>5 DEF ReadForUpdate
  <2>3. UNCHANGED <<users, outdated>>
    BY <1>5 DEF ReadForUpdate
  <2> HIDE DEF job
  <2> QED BY <1>1, <1>2, <2>1, <2>2, <2>3, ReadingStep
<1>6. CASE ReadForSSO(r)
  <2> DEFINE t == request[r].target
             job == [request[r] EXCEPT !.pc = IF Exists(t) THEN "write" ELSE "insert",
                                       !.read = users[t], !.row = users[t]]
  <2>1. Duty(job)
    BY <1>1 DEF Duty, Job
  <2>2. request' = [request EXCEPT ![r] = job] /\ UNCHANGED <<users, outdated>>
    BY <1>6 DEF ReadForSSO
  <2> HIDE DEF job
  <2> QED BY <1>1, <2>1, <2>2, ReadingStep
<1>7. CASE CheckPresent(r)
  BY <1>2, <1>3, <1>7 DEF CheckPresent
<1>8. CASE Cleanup(r)
  <2> DEFINE pc == IF request[r].next = Len(Cleanups) THEN "delete" ELSE "cleanup"
             job == [request[r] EXCEPT !.next = request[r].next + 1, !.pc = pc]
  <2>1. Duty(job)
    BY <1>1, <1>8 DEF Cleanup, Duty, Job
  <2>2. request' = [request EXCEPT ![r] = job] /\ UNCHANGED <<users, outdated>>
    BY <1>8 DEF Cleanup
  <2> HIDE DEF job
  <2> QED BY <1>1, <2>1, <2>2, ReadingStep
<1>9. CASE FindSource(r)
  BY <1>2, <1>3, <1>9 DEF FindSource
<1>10. CASE InsertOwned(r)
  BY <1>2, <1>10 DEF InsertOwned
<1>11. CASE StatementFails(r)
  BY <1>2, <1>11 DEF StatementFails
<1> QED BY <1>4, <1>5, <1>6, <1>7, <1>8, <1>9, <1>10, <1>11,
           CreateDutiful, UpdateDutiful, DeleteDutiful DEF RequestStep

LEMMA AdminStep == AccountsInv /\ AdminInv /\ [AccountsNext]_accountVars => AdminInv'
<1> SUFFICES ASSUME AccountsInv, AdminInv, [AccountsNext]_accountVars PROVE AdminInv'
  OBVIOUS
<1>1. ASSUME UNCHANGED <<users, request, outdated>> PROVE AdminInv'
  BY <1>1 DEF AdminInv, AdminRemains, IsAdmin, Exists
<1>2. ASSUME NEW r \in Requests,
             BeginAdmin(r) \/ BeginSSO(r) \/ BeginProfile(r) \/ BeginInsert(r) \/ RevokeToken(r) \/ RequestStep(r)
      PROVE  AdminInv'
  BY <1>1, <1>2, BeginsDutiful, RequestDutiful DEF RevokeToken
<1>3. ASSUME NEW c \in Clients, ClientStep(c) PROVE AdminInv'
  BY <1>1, <1>3
     DEF ClientStep, AuthUser, SetSession, TakeSession, HandshakeFails, OpenTunnels, SessionEnds
<1>4. CASE UNCHANGED accountVars
  BY <1>1, <1>4 DEF accountVars
<1> QED BY <1>2, <1>3, <1>4 DEF AccountsNext

(* Whatever requests overlap, an administrator remains, unless a write went*)
(* by a right or a row that had changed since it was read.                 *)
THEOREM AdminStays ==
  ASSUME Names # {}
  PROVE  AccountsSpec => []AdminRemains
<1>1. AccountsInit => AdminInv
  BY FinishedDuty DEF AccountsInit, AdminInv, AdminRemains, IsAdmin, Exists
<1>2. AdminInv => AdminRemains
  BY DEF AdminInv
<1> QED BY <1>1, <1>2, AdminStep, AccountsInvariance, PTL DEF AccountsSpec

-----------------------------------------------------------------------------
(* PortAllocation.                                                         *)

Ranges == [user : Holders \cup {Nobodys}, first : Ports, last : Ports]
Rows == [id : Int, range : Ranges, raced : BOOLEAN]

(* What the proofs need of the types.                                      *)
Shapes ==
  /\ reservations \subseteq Rows
  /\ reserve \in [Reservers -> [pc : {"idle", "insert"}, id : Int, range : Ranges, raced : BOOLEAN]]
  /\ ask \in [Askers -> [pc : {"idle", "multicast?", "threshold?", "count?", "granted", "refused"},
                         user : Holders \cup {Nobodys}, port : Ports]]
  /\ reservedCount \in Nat

(* Two requests between list and insert: the later list knew of the other. *)
OneUnraced ==
  \A r, q \in Reservers :
    r # q /\ ReserveAt(r, "insert") /\ ReserveAt(q, "insert") => reserve[r].raced \/ reserve[q].raced

(* What a request that was alone at its list is going to insert meets only *)
(* rows whose requests were not.                                           *)
ListHolds ==
  \A r \in Reservers, x \in reservations :
    ReserveAt(r, "insert") /\ ~reserve[r].raced => ~Overlaps(reserve[r].range, x.range) \/ x.raced

RowsApart ==
  \A x, y \in reservations : x.id # y.id /\ Overlaps(x.range, y.range) => x.raced \/ y.raced

Grants == AllowedNow \subseteq justified /\ GrantsJustified

PortsInv == Shapes /\ OneUnraced /\ ListHolds /\ RowsApart

-----------------------------------------------------------------------------
(* Two ranges that hold one port overlap.                                  *)
LEMMA SharedPort ==
  ASSUME NEW x \in Ranges, NEW y \in Ranges, NEW p \in Ports, Covers(x, p), Covers(y, p)
  PROVE  Overlaps(x, y)
BY PortAssumption DEF Ranges, Ports, Covers, Overlaps

LEMMA OverlapsBoth ==
  ASSUME NEW x \in Ranges, NEW y \in Ranges, Overlaps(x, y)
  PROVE  Overlaps(y, x)
BY PortAssumption DEF Ranges, Ports, Overlaps

LEMMA IdleReserve ==
  NoReserve \in [pc : {"idle", "insert"}, id : Int, range : Ranges, raced : BOOLEAN]
BY PortAssumption DEF NoReserve, Range0, Ranges, Ports

LEMMA IdleAsk ==
  NoAsk \in [pc : {"idle", "multicast?", "threshold?", "count?", "granted", "refused"},
             user : Holders \cup {Nobodys}, port : Ports]
BY PortAssumption DEF NoAsk, Ports

LEMMA PortsStart == PortsInit => PortsInv
<1> SUFFICES ASSUME PortsInit PROVE PortsInv
  OBVIOUS
<1>1. Shapes
  BY IdleReserve, IdleAsk DEF PortsInit, Shapes
<1>2. \A r \in Reservers : ~ReserveAt(r, "insert")
  BY DEF PortsInit, ReserveAt, NoReserve
<1> QED BY <1>1, <1>2 DEF PortsInit, PortsInv, OneUnraced, ListHolds, RowsApart

(* A request that lists the reservations is apart from all there are.      *)
LEMMA ListKeeps ==
  ASSUME PortsInv, NEW r \in Reservers, ListReservations(r)
  PROVE  PortsInv'
<1>1. PICK u \in Holders, first \in Ports, last \in Ports :
        /\ \A x \in reservations : ~Overlaps([user |-> u, first |-> first, last |-> last], x.range)
        /\ reserve' = [q \in Reservers |->
             IF q = r THEN [pc |-> "insert", id |-> reservedCount + 1,
                            range |-> [user |-> u, first |-> first, last |-> last],
                            raced |-> \E o \in Reservers : ReserveAt(o, "insert")]
             ELSE reserve[q]]
  BY DEF ListReservations
<1> DEFINE range == [user |-> u, first |-> first, last |-> last]
           raced == \E o \in Reservers : ReserveAt(o, "insert")
<1>2. range \in Ranges /\ raced \in BOOLEAN
  BY DEF Ranges
<1>3. /\ reserve'[r] = [pc |-> "insert", id |-> reservedCount + 1, range |-> range, raced |-> raced]
      /\ \A q \in Reservers : q # r => reserve'[q] = reserve[q]
  BY <1>1
<1>4. /\ reserve'[r].pc = "insert" /\ reserve'[r].range = range /\ (reserve'[r].raced <=> raced)
      /\ reserve'[r] \in [pc : {"idle", "insert"}, id : Int, range : Ranges, raced : BOOLEAN]
  BY <1>2, <1>3 DEF PortsInv, Shapes
<1>5. Shapes'
  BY <1>1, <1>3, <1>4 DEF PortsInv, Shapes, ListReservations, Requested
<1>6. OneUnraced'
  BY <1>3, <1>4 DEF PortsInv, OneUnraced, ReserveAt
<1>7. ListHolds'
  BY <1>1, <1>3, <1>4 DEF PortsInv, ListHolds, ReserveAt, ListReservations
<1>8. RowsApart'
  BY DEF PortsInv, RowsApart, ListReservations
<1> QED BY <1>5, <1>6, <1>7, <1>8 DEF PortsInv

(* A request that inserts, or gives up, makes room; its row is raced when  *)
(* another that is still to insert is not.                                 *)
LEMMA InsertKeeps ==
  ASSUME PortsInv, NEW r \in Reservers, CreatePortReservation(r) \/ NotReserved(r)
  PROVE  PortsInv'
<1> DEFINE new == [id |-> reserve[r].id, range |-> reserve[r].range, raced |-> reserve[r].raced]
<1>1. /\ ReserveAt(r, "insert") /\ reservations' \subseteq reservations \cup {new}
      /\ reserve' = [reserve EXCEPT ![r] = NoReserve] /\ UNCHANGED <<ask, reservedCount>>
  BY DEF CreatePortReservation, NotReserved
<1>2. new \in Rows
  BY DEF PortsInv, Shapes, Rows
<1>3. /\ reserve'[r].pc = "idle"
      /\ \A q \in Reservers : q # r => reserve'[q] = reserve[q]
  BY <1>1 DEF PortsInv, Shapes, NoReserve
<1>4. Shapes'
  BY <1>1, <1>2, IdleReserve DEF PortsInv, Shapes
<1>5. OneUnraced'
  BY <1>3 DEF PortsInv, OneUnraced, ReserveAt
<1>6. ListHolds'
  <2>1. \A q \in Reservers : q # r /\ ReserveAt(q, "insert") /\ ~reserve[q].raced => new.raced
    BY <1>1 DEF PortsInv, OneUnraced
  <2> HIDE DEF new
  <2> QED BY <1>1, <1>3, <2>1 DEF PortsInv, ListHolds, ReserveAt
<1>7. RowsApart'
  <2>1. \A x \in reservations : Overlaps(new.range, x.range) => new.raced \/ x.raced
    BY <1>1 DEF PortsInv, ListHolds
  <2>2. \A x \in reservations : Overlaps(x.range, new.range) => Overlaps(new.range, x.range)
    BY <1>2, OverlapsBoth DEF PortsInv, Shapes, Rows
  <2> HIDE DEF new
  <2> QED BY <1>1, <2>1, <2>2 DEF PortsInv, RowsApart
<1> QED BY <1>4, <1>5, <1>6, <1>7 DEF PortsInv

LEMMA AskKeeps ==
  ASSUME PortsInv, NEW q \in Askers, AskStep(q)
  PROVE  PortsInv'
<1>1. UNCHANGED <<reservations, reserve, reservedCount>>
  BY DEF AskStep, Ask, AskMulticast, AskThreshold, AskReservations, AskFails, Answered, AskedFor
<1>2. ask' \in [Askers -> [pc : {"idle", "multicast?", "threshold?", "count?", "granted", "refused"},
                           user : Holders \cup {Nobodys}, port : Ports]]
  <2>1. CASE Ask(q)             BY <2>1 DEF Ask, PortsInv, Shapes
  <2>2. CASE AskMulticast(q)    BY <2>2 DEF AskMulticast, AskTo, PortsInv, Shapes
  <2>3. CASE AskThreshold(q)    BY <2>3 DEF AskThreshold, AskTo, PortsInv, Shapes
  <2>4. CASE AskReservations(q) BY <2>4 DEF AskReservations, AskTo, PortsInv, Shapes
  <2>5. CASE AskFails(q)        BY <2>5 DEF AskFails, AskTo, PortsInv, Shapes
  <2>6. CASE Answered(q)        BY <2>6, IdleAsk DEF Answered, PortsInv, Shapes
  <2> QED BY <2>1, <2>2, <2>3, <2>4, <2>5, <2>6 DEF AskStep
<1> QED BY <1>1, <1>2 DEF PortsInv, Shapes, OneUnraced, ListHolds, RowsApart, ReserveAt

LEMMA PortsKeep == PortsInv /\ [PortsNext]_portVars => PortsInv'
<1> SUFFICES ASSUME PortsInv, [PortsNext]_portVars PROVE PortsInv'
  OBVIOUS
<1>1. ASSUME NEW r \in Reservers, ListReservations(r) \/ CreatePortReservation(r) \/ NotReserved(r)
      PROVE  PortsInv'
  BY <1>1, ListKeeps, InsertKeeps
<1>2. CASE DeletePortReservation \/ SetReservedPortsThreshold \/ SwitchMulticast
  <2>1. /\ reservations' \subseteq reservations /\ reservedCount' = reservedCount + 1
        /\ UNCHANGED <<reserve, ask>>
    BY <1>2 DEF DeletePortReservation, SetReservedPortsThreshold, SwitchMulticast, Requested
  <2> QED BY <2>1 DEF PortsInv, Shapes, OneUnraced, ListHolds, RowsApart, ReserveAt
<1>3. ASSUME NEW q \in Askers, AskStep(q) PROVE PortsInv'
  BY <1>3, AskKeeps
<1>4. CASE UNCHANGED portVars
  BY <1>4 DEF portVars, PortsInv, Shapes, OneUnraced, ListHolds, RowsApart, ReserveAt
<1> QED BY <1>1, <1>2, <1>3, <1>4 DEF PortsNext, PortsStep

(* The inductive invariant: of two requests between list and insert one is *)
(* raced, and one that is not meets, when it inserts, only rows that are.  *)
THEOREM PortsInvariance == PortsSpec => []PortsInv
<1> QED BY PortsStart, PortsKeep, PTL DEF PortsSpec

(* For any number of administrators, users and ports: a port is reserved   *)
(* twice only when one of the two requests listed the reservations between *)
(* the list and the insert of another.                                     *)
THEOREM OverlapsAreRaced == PortsSpec => []OverlapOnlyByRace
<1>1. PortsInv => OverlapOnlyByRace
  BY SharedPort DEF PortsInv, Shapes, Rows, RowsApart, OverlapOnlyByRace
<1> QED BY <1>1, PortsInvariance, PTL

-----------------------------------------------------------------------------
(* Who is allowed in a state is justified in it, and stays so until the    *)
(* call is answered; a grant follows a state where it was allowed.         *)
LEMMA GrantsKeep ==
  ASSUME Shapes, Grants, [PortsNext]_portVars
  PROVE  Grants'
<1>1. CASE PortsNext
  <2>1. AllowedNow' \subseteq justified' /\ \A q \in justified : ask'[q].pc # "idle" => q \in justified'
    BY <1>1 DEF PortsNext, Justify
  <2>2. ASSUME NEW q \in Askers, ask'[q].pc = "granted" PROVE q \in justified
    <3>1. CASE ask[q] = ask'[q]
      BY <2>2, <3>1 DEF Grants, GrantsJustified, AskAt
    <3>2. CASE ask[q] # ask'[q]
      <4>1. AskStep(q)
        <5>1. ASSUME NEW p \in Askers, p # q, AskStep(p) PROVE ask'[q] = ask[q]
          BY <5>1 DEF AskStep, Ask, AskMulticast, AskThreshold, AskReservations, AskFails, Answered, AskTo, Shapes
        <5>2. ASSUME NEW r \in Reservers, ListReservations(r) \/ CreatePortReservation(r) \/ NotReserved(r)
              PROVE  ask' = ask
          BY <5>2 DEF ListReservations, CreatePortReservation, NotReserved
        <5>3. ASSUME DeletePortReservation \/ SetReservedPortsThreshold \/ SwitchMulticast
              PROVE  ask' = ask
          BY <5>3 DEF DeletePortReservation, SetReservedPortsThreshold, SwitchMulticast
        <5> QED BY <1>1, <3>2, <5>1, <5>2, <5>3 DEF PortsNext, PortsStep
      <4>2. CASE AskMulticast(q) \/ AskThreshold(q) \/ AskReservations(q)
        <5>1. ask[q].pc # "idle" /\ Allowed(ask[q].port, ask[q].user)
          BY <2>2, <4>2 DEF AskMulticast, AskThreshold, AskReservations, AskTo, AskAt, Allowed, Shapes
        <5> QED BY <5>1 DEF Grants, AllowedNow
      <4>3. CASE Ask(q) \/ AskFails(q) \/ Answered(q)
        BY <2>2, <4>3 DEF Ask, AskFails, Answered, AskTo, AskAt, NoAsk, Shapes
      <4> QED BY <4>1, <4>2, <4>3 DEF AskStep
    <3> QED BY <3>1, <3>2
  <2> QED BY <2>1, <2>2 DEF Grants, GrantsJustified, AskAt
<1>2. CASE UNCHANGED portVars
  BY <1>2 DEF portVars, Grants, GrantsJustified, AskAt, AllowedNow, Allowed
<1> QED BY <1>1, <1>2

(* Whatever is changed between the statements of a question: a port that   *)
(* is granted was allowed at some moment of the call.                      *)
THEOREM GrantsAreJustified == PortsSpec => []GrantsJustified
<1>1. PortsInit => Grants
  BY DEF PortsInit, Grants, GrantsJustified, AskAt, AllowedNow, NoAsk
<1>2. PortsInv /\ Grants /\ [PortsNext]_portVars => Grants'
  BY GrantsKeep DEF PortsInv
<1>3. Grants => GrantsJustified
  BY DEF Grants
<1> QED BY <1>1, <1>2, <1>3, PortsInvariance, PTL DEF PortsSpec

-----------------------------------------------------------------------------
(* The types of PortAllocation beyond those.                               *)

PortsBounded ==
  /\ reservedCount \in 0..MaxReserved /\ threshold \in Nat /\ multicastPorts \subseteq Ports
  /\ \A x \in reservations : x.id \in 1..MaxReserved
  /\ \A r \in Reservers : /\ reserve[r].id \in 0..MaxReserved
                          /\ ReserveAt(r, "insert") => reserve[r].id \in 1..MaxReserved

LEMMA BoundsKeep ==
  ASSUME Shapes, PortsBounded, PortsStep
  PROVE  PortsBounded'
<1>0. MaxReserved \in Nat /\ Thresholds \subseteq Nat
  BY PortAssumption
<1>1. ASSUME NEW r \in Reservers, ListReservations(r) PROVE PortsBounded'
  <2>1. PICK u \in Holders, first \in Ports, last \in Ports :
          reserve' = [q \in Reservers |->
            IF q = r THEN [pc |-> "insert", id |-> reservedCount + 1,
                           range |-> [user |-> u, first |-> first, last |-> last],
                           raced |-> \E o \in Reservers : ReserveAt(o, "insert")]
            ELSE reserve[q]]
    BY <1>1 DEF ListReservations
  <2>2. reservedCount' = reservedCount + 1 /\ reservedCount' \in 1..MaxReserved
        /\ UNCHANGED <<reservations, threshold, multicastPorts>>
    BY <1>0, <1>1 DEF ListReservations, Requested, PortsBounded
  <2>3. /\ reserve'[r].id = reservedCount'
        /\ \A q \in Reservers \ {r} : reserve'[q] = reserve[q]
    BY <2>1, <2>2
  <2> QED BY <1>0, <2>2, <2>3 DEF PortsBounded, ReserveAt
<1>2. ASSUME NEW r \in Reservers, CreatePortReservation(r) \/ NotReserved(r) PROVE PortsBounded'
  <2>1. /\ ReserveAt(r, "insert") /\ reserve' = [reserve EXCEPT ![r] = NoReserve]
        /\ UNCHANGED <<threshold, multicastPorts, reservedCount>>
        /\ \A x \in reservations' : x \in reservations \/ x.id = reserve[r].id
    BY <1>2 DEF CreatePortReservation, NotReserved
  <2>2. /\ reserve'[r].id = 0 /\ reserve'[r].pc = "idle"
        /\ \A q \in Reservers \ {r} : reserve'[q] = reserve[q]
    BY <2>1 DEF NoReserve, Shapes
  <2> QED BY <1>0, <2>1, <2>2 DEF PortsBounded, ReserveAt
<1>3. CASE DeletePortReservation \/ SetReservedPortsThreshold \/ SwitchMulticast
  <2>1. /\ reservedCount' \in 0..MaxReserved /\ reserve' = reserve
        /\ reservations' \subseteq reservations
    BY <1>0, <1>3
       DEF DeletePortReservation, SetReservedPortsThreshold, SwitchMulticast, Requested, PortsBounded
  <2>2. threshold' \in Nat /\ multicastPorts' \subseteq Ports
    BY <1>0, <1>3
       DEF DeletePortReservation, SetReservedPortsThreshold, SwitchMulticast, PortsBounded
  <2> QED BY <2>1, <2>2 DEF PortsBounded, ReserveAt
<1>4. ASSUME NEW q \in Askers, AskStep(q) PROVE PortsBounded'
  BY <1>4 DEF AskStep, Ask, AskMulticast, AskThreshold, AskReservations, AskFails, Answered, AskedFor,
              PortsBounded, ReserveAt
<1> QED BY <1>1, <1>2, <1>3, <1>4 DEF PortsStep

PortsTyped == PortsInv /\ PortsBounded /\ justified \subseteq Askers

LEMMA PortsTypedStart == PortsInit => PortsTyped
<1> SUFFICES ASSUME PortsInit PROVE PortsBounded /\ justified \subseteq Askers
  BY PortsStart DEF PortsTyped
<1> QED BY PortAssumption DEF PortsInit, PortsBounded, NoReserve, ReserveAt

LEMMA PortsTypedKeep == PortsTyped /\ [PortsNext]_portVars => PortsTyped'
<1> SUFFICES ASSUME PortsTyped, [PortsNext]_portVars PROVE PortsBounded' /\ justified' \subseteq Askers
  BY PortsKeep DEF PortsTyped
<1>1. CASE PortsNext
  BY <1>1, BoundsKeep DEF PortsNext, Justify, AllowedNow, PortsTyped, PortsInv
<1>2. CASE UNCHANGED portVars
  BY <1>2 DEF portVars, PortsTyped, PortsBounded, ReserveAt
<1> QED BY <1>1, <1>2

LEMMA PortsTypes == PortsTyped => PortsTypeOK
<1> SUFFICES ASSUME PortsTyped PROVE PortsTypeOK
  OBVIOUS
<1>1. \A x \in reservations : x.range.first \in Ports /\ x.range.last \in Ports /\ x.id \in 1..MaxReserved
  BY DEF PortsTyped, PortsInv, Shapes, Rows, Ranges, PortsBounded
<1>2. reserve \in [Reservers -> [pc : {"idle", "insert"}, id : 0..MaxReserved, range : Ranges, raced : BOOLEAN]]
  BY DEF PortsTyped, PortsInv, Shapes, PortsBounded
<1> QED BY <1>1, <1>2 DEF PortsTypeOK, PortsTyped, PortsInv, Shapes, PortsBounded, Ranges

-----------------------------------------------------------------------------
(* AIProviders.                                                            *)

ProviderRows == [key : Keys, status : {"untested", "success", "failed"}]
Proper(row) == row # NoCopy =>
  row \in ProviderRows /\ (row.status # "untested" => row.status = TestResult(row.key))

(* What a request holds is a copy of the row, so its result is of its key: *)
(* a row written back whole never joins the key of one and the result of   *)
(* another.                                                                *)
CopiesProper == Proper(provider) /\ \A r \in Testers \cup KeyEditors : Proper(held[r])

ProviderShape == CopiesProper /\ DOMAIN held = Testers \cup KeyEditors

LEMMA ProperKeeps ==
  ASSUME ProviderShape, NEW r \in Testers \cup KeyEditors, NEW row, Proper(row),
         UpdateAIProvider(r, row)
  PROVE  ProviderShape'
<1>1. held' = [held EXCEPT ![r] = NoCopy] /\ provider' \in {NoCopy, row}
  BY DEF UpdateAIProvider
<1>2. Proper(provider)'
  BY <1>1 DEF Proper
<1>3. \A q \in Testers \cup KeyEditors : Proper(held[q])'
  BY <1>1 DEF ProviderShape, CopiesProper, Proper
<1> QED BY <1>1, <1>2, <1>3 DEF ProviderShape, CopiesProper

LEMMA ProviderKeeps == ProviderShape /\ [ProvidersNext]_providerVars => ProviderShape'
<1> SUFFICES ASSUME ProviderShape, [ProvidersNext]_providerVars PROVE ProviderShape'
  OBVIOUS
<1>1. ASSUME NEW r \in Testers \cup KeyEditors, ReadProvider(r) PROVE ProviderShape'
  BY <1>1 DEF ReadProvider, ProviderShape, CopiesProper, Proper
<1>2. ASSUME NEW t \in Testers, SaveTest(t) PROVE ProviderShape'
  <2>1. held[t] # NoCopy /\ held[t] \in ProviderRows
    BY <1>2 DEF SaveTest, UpdateAIProvider, ProviderShape, CopiesProper, Proper
  <2>2. /\ [held[t] EXCEPT !.status = TestResult(held[t].key)] \in ProviderRows
        /\ [held[t] EXCEPT !.status = TestResult(held[t].key)].status = TestResult(held[t].key)
        /\ [held[t] EXCEPT !.status = TestResult(held[t].key)].key = held[t].key
    BY <2>1 DEF ProviderRows, TestResult
  <2>3. Proper([held[t] EXCEPT !.status = TestResult(held[t].key)])
    BY <2>2 DEF Proper
  <2> QED BY <1>2, <2>3, ProperKeeps DEF SaveTest
<1>3. ASSUME NEW e \in KeyEditors, SaveUpdate(e) PROVE ProviderShape'
  <2>1. CASE UpdateAIProvider(e, held[e])
    BY <2>1, ProperKeeps DEF ProviderShape, CopiesProper
  <2>2. ASSUME NEW key \in Keys, UpdateAIProvider(e, WithKey(held[e], key)) PROVE ProviderShape'
    <3>1. Proper(WithKey(held[e], key))
      BY DEF Proper, WithKey, ProviderRow, ProviderRows
    <3> QED BY <2>2, <3>1, ProperKeeps
  <2> QED BY <1>3, <2>1, <2>2 DEF SaveUpdate
<1>4. CASE DeleteAIProvider
  BY <1>4 DEF DeleteAIProvider, ProviderShape, CopiesProper, Proper
<1>5. ASSUME UNCHANGED <<provider, held>> PROVE ProviderShape'
  BY <1>5 DEF ProviderShape, CopiesProper, Proper
<1> QED BY <1>1, <1>2, <1>3, <1>4, <1>5
       DEF ProvidersNext, providerVars, ReadThread, AskProvider, WriteThread, NotSaved,
           ReadForGeneration, WriteGenerated, threadOnly

LEMMA ProviderStarts == ProvidersInit => ProviderShape
BY ProvidersAssumption
   DEF ProvidersInit, ProviderShape, CopiesProper, Proper, ProviderRow, ProviderRows

(* The result of a test that the provider's row shows is that of the key   *)
(* in the row, for any number of tests, changes of the key and requests    *)
(* that write back a copy read before others wrote (server_api_ai.go).     *)
THEOREM StatusOfKey == ProvidersSpec => []StatusIsOfKey
<1>1. ProvidersInit => ProviderShape
  BY ProviderStarts
<1>2. ProviderShape => StatusIsOfKey
  BY DEF ProviderShape, CopiesProper, Proper, StatusIsOfKey
<1> QED BY <1>1, <1>2, ProviderKeeps, PTL DEF ProvidersSpec

(* Whoever is between the read of the thread and its write has a copy.     *)
CopyOf(w) == IF w \in Chats THEN chat[w].copy ELSE generator[w]
Readers == Chats \cup Generations

(* A thread, or a copy of one: chats that were saved, each once.           *)
IsThread(s) == s \in Seq(saved) /\ IsInjective(s)

ThreadShape ==
  /\ DOMAIN chat = Chats /\ DOMAIN generator = Generations /\ DOMAIN since = Readers
  /\ \A c \in Chats : chat[c] = ChatAt(chat[c].pc, chat[c].copy)
  /\ \A c \in saved : c \in Chats /\ chat[c].pc = "done"
  /\ IsThread(thread)
  /\ \A w \in Readers : Reading(w) => IsThread(CopyOf(w))

(* Every chat that is saved and not exposed is in the thread, and whoever  *)
(* has a copy either has the chat in it or will expose it.                 *)
ThreadKept ==
  /\ saved \ exposed \subseteq ToSet(thread)
  /\ \A w \in Readers : Reading(w) => saved \ exposed \subseteq ToSet(CopyOf(w)) \cup since[w]

ThreadInv == ThreadShape /\ ThreadKept

LEMMA ThreadGrows == \A s, S : IsThread(s) /\ saved \subseteq S => s \in Seq(S)
  BY DEF IsThread

LEMMA Injects ==
  ASSUME NEW S, NEW s \in Seq(S), IsInjective(s), NEW c, c \notin S
  PROVE  IsInjective(Append(s, c)) /\ ToSet(Append(s, c)) = ToSet(s) \cup {c}
<1>1. /\ DOMAIN Append(s, c) = 1..(Len(s) + 1) /\ DOMAIN s = 1..Len(s) /\ Len(s) \in Nat
      /\ \A i \in 1..Len(s) : Append(s, c)[i] = s[i] /\ s[i] # c
      /\ Append(s, c)[Len(s) + 1] = c
  OBVIOUS
<1>2. IsInjective(Append(s, c))
  BY <1>1 DEF IsInjective
<1>3. ToSet(Append(s, c)) = ToSet(s) \cup {c}
  BY <1>1 DEF ToSet
<1> QED BY <1>2, <1>3

(* A request that ends, goes on with its copy, or takes one of the thread. *)
LEMMA AskerStep ==
  ASSUME ThreadInv, UNCHANGED <<thread, saved, exposed>>,
         DOMAIN chat' = Chats, DOMAIN generator' = Generations, DOMAIN since' = Readers,
         \A c \in Chats : chat'[c] = ChatAt(chat'[c].pc, chat'[c].copy),
         \A c \in Chats : chat[c].pc = "done" => chat'[c].pc = "done",
         \A w \in Readers : Reading(w)' =>
           \/ CopyOf(w)' = thread
           \/ Reading(w) /\ CopyOf(w)' = CopyOf(w) /\ since'[w] = since[w]
  PROVE  ThreadInv'
<1>1. ThreadShape'
  BY DEF ThreadInv, ThreadShape, IsThread
<1>2. ThreadKept'
  BY DEF ThreadInv, ThreadKept
<1> QED BY <1>1, <1>2 DEF ThreadInv

LEMMA WriteKeeps ==
  ASSUME ThreadInv, NEW c \in Chats, WriteThread(c)
  PROVE  ThreadInv'
<1>1. /\ chat[c].pc = "write" /\ chat' = [chat EXCEPT ![c].pc = "done"]
      /\ thread' = Append(chat[c].copy, c) /\ saved' = saved \cup {c}
      /\ exposed' = exposed \cup since[c] /\ since' = SeenLess(c) /\ generator' = generator
  BY DEF WriteThread, ChatGoes, Extended
<1>2. Reading(c) /\ CopyOf(c) = chat[c].copy /\ c \in Readers
  BY <1>1 DEF Reading, CopyOf, Readers
<1>3. c \notin saved
  BY <1>1 DEF ThreadInv, ThreadShape
<1>4. IsThread(chat[c].copy) /\ saved \ exposed \subseteq ToSet(chat[c].copy) \cup since[c]
  BY <1>2 DEF ThreadInv, ThreadShape, ThreadKept
<1>5. thread' \in Seq(saved') /\ IsInjective(thread') /\ ToSet(thread') = ToSet(chat[c].copy) \cup {c}
  <2>1. chat[c].copy \in Seq(saved) /\ chat[c].copy \in Seq(saved')
    BY <1>1, <1>4, ThreadGrows DEF IsThread
  <2>2. Append(chat[c].copy, c) \in Seq(saved')
    BY <1>1, <2>1
  <2> QED BY <1>1, <1>3, <1>4, <2>1, <2>2, Injects DEF IsThread
<1>6. /\ \A d \in Chats : chat'[d] = ChatAt(chat'[d].pc, chat'[d].copy)
      /\ \A d \in Chats \ {c} : chat'[d] = chat[d]
      /\ chat'[c].pc = "done" /\ DOMAIN chat' = Chats
  BY <1>1 DEF ThreadInv, ThreadShape, ChatAt
<1>7. \A w \in Readers : Reading(w)' =>
        /\ w # c /\ Reading(w) /\ CopyOf(w)' = CopyOf(w) /\ since'[w] = since[w] \cup {c}
  <2>1. \A w \in Readers : Reading(w)' => w # c
    BY <1>6 DEF Reading
  <2>2. \A w \in Readers \ {c} : Reading(w)' = Reading(w) /\ CopyOf(w)' = CopyOf(w)
    BY <1>1, <1>6 DEF Reading, CopyOf
  <2>3. \A w \in Readers \ {c} : Reading(w) => since'[w] = since[w] \cup {c}
    BY <1>1 DEF SeenLess, Readers
  <2> QED BY <2>1, <2>2, <2>3
<1>8. ThreadShape'
  <2>1. \A w \in Readers : Reading(w)' => IsThread(CopyOf(w))'
    BY <1>1, <1>7, ThreadGrows DEF ThreadInv, ThreadShape, IsThread
  <2>2. DOMAIN since' = Readers
    BY <1>1 DEF SeenLess, Readers
  <2> QED BY <1>1, <1>5, <1>6, <2>1, <2>2 DEF ThreadInv, ThreadShape, IsThread
<1>9. ThreadKept'
  BY <1>1, <1>4, <1>5, <1>7 DEF ThreadInv, ThreadKept
<1> QED BY <1>8, <1>9 DEF ThreadInv

LEMMA GeneratedKeeps ==
  ASSUME ThreadInv, NEW g \in Generations, WriteGenerated(g)
  PROVE  ThreadInv'
<1>1. /\ generator[g] # NoCopy /\ thread' = generator[g]
      /\ generator' = [generator EXCEPT ![g] = NoCopy] /\ exposed' = exposed \cup since[g]
      /\ UNCHANGED <<chat, since, saved>> /\ g \notin Chats /\ g \in Readers
  BY ProvidersAssumption DEF WriteGenerated, Readers, ProvidersAssumption
<1>2. IsThread(generator[g]) /\ saved \ exposed \subseteq ToSet(generator[g]) \cup since[g]
  BY <1>1 DEF Reading, CopyOf, ThreadInv, ThreadShape, ThreadKept
<1>3. \A w \in Readers : Reading(w)' => Reading(w) /\ CopyOf(w)' = CopyOf(w)
  BY <1>1 DEF Reading, CopyOf, Readers, ThreadInv, ThreadShape
<1>4. ThreadShape'
  BY <1>1, <1>2, <1>3 DEF ThreadInv, ThreadShape, IsThread
<1>5. ThreadKept'
  BY <1>1, <1>2, <1>3 DEF ThreadInv, ThreadKept
<1> QED BY <1>4, <1>5 DEF ThreadInv

LEMMA ThreadKeeps == ThreadInv /\ [ProvidersNext]_providerVars => ThreadInv'
<1> SUFFICES ASSUME ThreadInv, [ProvidersNext]_providerVars PROVE ThreadInv'
  OBVIOUS
<1>0. /\ DOMAIN chat = Chats /\ DOMAIN generator = Generations /\ DOMAIN since = Readers
      /\ \A c \in Chats : chat[c] = ChatAt(chat[c].pc, chat[c].copy)
      /\ \A g \in Generations : g \notin Chats
  BY ProvidersAssumption DEF ThreadInv, ThreadShape, ProvidersAssumption
<1>1. ASSUME UNCHANGED rowOnly PROVE ThreadInv'
  BY <1>0, <1>1, AskerStep DEF rowOnly, Reading, CopyOf
<1>2. ASSUME NEW c \in Chats, ReadThread(c) \/ AskProvider(c) \/ NotSaved(c) PROVE ThreadInv'
  <2>1. /\ UNCHANGED <<thread, saved, exposed, generator, since>>
        /\ \E pc \in {"provider", "write", "failed", "done"}, copy \in {thread, chat[c].copy} :
             /\ chat' = [chat EXCEPT ![c] = ChatAt(pc, copy)]
             /\ pc \in {"provider", "write"} => copy = thread \/ (Reading(c) /\ copy = chat[c].copy)
        /\ chat[c].pc # "done"
    <3>1. CASE ReadThread(c)
      <4>1. chat' = [chat EXCEPT ![c] = ChatAt("provider", thread)] /\ chat[c].pc = "new"
            /\ UNCHANGED <<thread, saved, exposed, generator, since>>
        BY <3>1 DEF ReadThread
      <4> QED BY <4>1
    <3>2. ASSUME NEW from, NEW to \in {"write", "failed", "done"}, ChatGoes(c, from, to)
          PROVE  chat' = [chat EXCEPT ![c] = ChatAt(to, chat[c].copy)] /\ chat[c].pc = from
      <4>1. [chat[c] EXCEPT !.pc = to] = ChatAt(to, chat[c].copy)
        BY <1>0 DEF ChatAt
      <4> QED BY <3>2, <4>1 DEF ChatGoes
    <3>3. CASE AskProvider(c)
      BY <3>2, <3>3 DEF AskProvider, Reading
    <3>4. CASE NotSaved(c)
      BY <3>2, <3>4 DEF NotSaved, Reading
    <3> QED BY <1>2, <3>1, <3>3, <3>4
  <2>2. \A d \in Chats \ {c} : chat'[d] = chat[d]
    BY <2>1
  <2>3. \A d \in Chats : chat'[d] = ChatAt(chat'[d].pc, chat'[d].copy)
    BY <1>0, <2>1 DEF ChatAt
  <2>4. Reading(c)' => CopyOf(c)' = thread \/ (Reading(c) /\ CopyOf(c)' = CopyOf(c))
    BY <1>0, <2>1 DEF Reading, CopyOf, ChatAt
  <2>5. \A w \in Readers \ {c} : Reading(w)' = Reading(w) /\ CopyOf(w)' = CopyOf(w)
    BY <2>1, <2>2 DEF Reading, CopyOf
  <2>6. DOMAIN chat' = Chats /\ chat[c].pc # "done"
    BY <1>0, <2>1
  <2> QED BY <1>0, <2>1, <2>2, <2>3, <2>4, <2>5, <2>6, AskerStep
<1>3. ASSUME NEW g \in Generations, ReadForGeneration(g) PROVE ThreadInv'
  <2>1. /\ UNCHANGED <<thread, saved, exposed, chat>>
        /\ generator' = [generator EXCEPT ![g] = thread] /\ since' = [since EXCEPT ![g] = {}]
    BY <1>3 DEF ReadForGeneration, threadOnly
  <2>2. CopyOf(g)' = thread
    BY <1>0, <2>1 DEF CopyOf
  <2>3. \A w \in Readers \ {g} :
          Reading(w)' = Reading(w) /\ CopyOf(w)' = CopyOf(w) /\ since'[w] = since[w]
    BY <1>0, <2>1 DEF Reading, CopyOf, Readers
  <2>4. DOMAIN generator' = Generations /\ DOMAIN since' = Readers
    BY <1>0, <2>1
  <2> QED BY <1>0, <2>1, <2>2, <2>3, <2>4, AskerStep
<1> QED BY <1>1, <1>2, <1>3, WriteKeeps, GeneratedKeeps
       DEF ProvidersNext, providerVars, rowOnly, ReadProvider, SaveTest, SaveUpdate,
           UpdateAIProvider, DeleteAIProvider

LEMMA ThreadStarts == ProvidersInit => ThreadInv
<1> SUFFICES ASSUME ProvidersInit PROVE ThreadInv
  OBVIOUS
<1>1. IsThread(thread) /\ saved = {}
  BY DEF ProvidersInit, IsThread, IsInjective
<1>2. \A w \in Readers : ~Reading(w)
  BY DEF ProvidersInit, Readers, Reading, ChatAt
<1> QED BY <1>1, <1>2 DEF ProvidersInit, ThreadInv, ThreadShape, ThreadKept, Readers, ChatAt

(* A chat that was saved stays in the conversation, and is there once: it  *)
(* can be lost only to a writer that had read the row before it was saved, *)
(* for any number of chats and generations (handleAIListenerChat).         *)
THEOREM ConversationKept == ProvidersSpec => []ChatsStay
<1>1. ProvidersInit => ThreadInv
  BY ThreadStarts
<1>2. ThreadInv => ChatsStay
  BY DEF ThreadInv, ThreadShape, ThreadKept, IsThread, ChatsStay
<1> QED BY <1>1, <1>2, ThreadKeeps, PTL DEF ProvidersSpec

(* The rest of the types: what a writer may expose was saved.              *)
ChatPlaces == {"new", "provider", "write", "failed", "done"}
SinceSaved ==
  /\ written \in 0..MaxWritten
  /\ \A c \in Chats : chat[c].pc \in ChatPlaces
  /\ exposed \subseteq saved /\ \A w \in Readers : since[w] \subseteq saved

LEMMA SinceKeeps ==
  ASSUME ThreadInv, SinceSaved, [ProvidersNext]_providerVars
  PROVE  SinceSaved'
<1>0. DOMAIN chat = Chats /\ DOMAIN since = Readers
      /\ \A c \in Chats : chat[c] = ChatAt(chat[c].pc, chat[c].copy)
  BY DEF ThreadInv, ThreadShape
<1>1. ASSUME NEW r, ReadProvider(r) \/ (\E row : UpdateAIProvider(r, row)) \/ DeleteAIProvider
      PROVE  SinceSaved'
  <2>1. UNCHANGED rowOnly /\ (written' = written \/ (written < MaxWritten /\ written' = written + 1))
    BY <1>1 DEF ReadProvider, UpdateAIProvider, DeleteAIProvider, rowOnly
  <2>2. written' \in 0..MaxWritten
    BY <2>1, ProvidersAssumption DEF SinceSaved, ProvidersAssumption
  <2> QED BY <2>1, <2>2 DEF SinceSaved, rowOnly
<1>2. ASSUME NEW c \in Chats, NEW from, NEW to \in ChatPlaces, ChatGoes(c, from, to)
      PROVE  \A d \in Chats : chat'[d].pc \in ChatPlaces
  <2>1. chat'[c].pc = to /\ \A d \in Chats \ {c} : chat'[d] = chat[d]
    BY <1>0, <1>2 DEF ChatGoes, ChatAt
  <2> QED BY <2>1 DEF SinceSaved
<1>3. ASSUME NEW c \in Chats, ReadThread(c) \/ AskProvider(c) \/ NotSaved(c) PROVE SinceSaved'
  <2>1. UNCHANGED <<written, saved, exposed, since>>
    BY <1>3 DEF ReadThread, AskProvider, NotSaved, threadOnly
  <2>2. CASE ReadThread(c)
    BY <1>0, <2>1, <2>2 DEF ReadThread, ChatAt, ChatPlaces, SinceSaved
  <2>3. CASE AskProvider(c) \/ NotSaved(c)
    <3>1. \E from, to : to \in ChatPlaces /\ ChatGoes(c, from, to)
      BY <2>3 DEF AskProvider, NotSaved, ChatPlaces
    <3> QED BY <1>2, <2>1, <3>1 DEF SinceSaved
  <2> QED BY <1>3, <2>2, <2>3
<1>4. ASSUME NEW c \in Chats, WriteThread(c) PROVE SinceSaved'
  <2>1. ChatGoes(c, "write", "done") /\ written' = written /\ saved' = saved \cup {c}
        /\ exposed' = exposed \cup since[c] /\ since' = SeenLess(c) /\ c \in Readers
    BY <1>4 DEF WriteThread, threadOnly, Readers
  <2>2. \A w \in Readers : since'[w] \subseteq since[w] \cup {c}
    BY <2>1 DEF SeenLess, Readers
  <2>3. \A d \in Chats : chat'[d].pc \in ChatPlaces
    BY <1>2, <2>1 DEF ChatPlaces
  <2> QED BY <2>1, <2>2, <2>3 DEF SinceSaved
<1>5. ASSUME NEW g \in Generations, ReadForGeneration(g) \/ WriteGenerated(g) PROVE SinceSaved'
  BY <1>0, <1>5 DEF ReadForGeneration, WriteGenerated, threadOnly, SinceSaved, Readers
<1>6. CASE UNCHANGED providerVars
  BY <1>6 DEF providerVars, SinceSaved
<1> QED BY <1>1, <1>3, <1>4, <1>5, <1>6 DEF ProvidersNext, SaveTest, SaveUpdate

ProvidersTyped == ProviderShape /\ ThreadInv /\ SinceSaved

LEMMA ProvidersTypedStart == ProvidersInit => ProvidersTyped
<1>1. ProvidersInit => SinceSaved
  BY ProvidersAssumption DEF ProvidersInit, ProvidersAssumption, SinceSaved, ChatAt, ChatPlaces, Readers
<1> QED BY <1>1, ProviderStarts, ThreadStarts DEF ProvidersTyped

LEMMA ProvidersTypedKeep == ProvidersTyped /\ [ProvidersNext]_providerVars => ProvidersTyped'
BY ProviderKeeps, ThreadKeeps, SinceKeeps DEF ProvidersTyped

LEMMA ProvidersTypes == ProvidersTyped => ProvidersTypeOK
<1> SUFFICES ASSUME ProvidersTyped PROVE ProvidersTypeOK
  OBVIOUS
<1>1. saved \subseteq Chats /\ thread \in Seq(saved)
  BY DEF ProvidersTyped, ThreadInv, ThreadShape, IsThread
<1>2. ToSet(thread) \subseteq Chats
  BY <1>1 DEF ToSet
<1> QED BY <1>1, <1>2
       DEF ProvidersTyped, ProviderShape, CopiesProper, Proper, ProviderRows, SinceSaved, ChatPlaces,
           ProvidersTypeOK

-----------------------------------------------------------------------------
(* UserFile.                                                               *)

(* A request that has changed the index and not yet written it to the file.*)
Dirty(r) == edit[r].pc \in {"range", "marshal", "truncate", "write"}

EditShape == DOMAIN edit = FileEditors /\ \A r \in FileEditors : "pc" \in DOMAIN edit[r]

(* What the watcher has read is the file when no write came since, and the *)
(* index is, when it has swapped and no request has changed it since.      *)
ReadIsFile == Up /\ loader.pc = "swap" /\ fileEvents = 0 => loader.users = authFile.users
IndexIsFile ==
  (/\ Up /\ reloads /\ fileEvents = 0 /\ loader.pc = "watch"
   /\ \A r \in FileEditors : ~Dirty(r)
   /\ Loadable(authFile))
    => userIndex.users = authFile.users

FileInv ==
  /\ EditShape /\ fileEvents \in Nat /\ (~Up => loader.pc = "watch")
  /\ ReadIsFile /\ IndexIsFile

(* A write is an event that the watcher has not dealt with.                *)
LEMMA WrittenPends ==
  ASSUME FileInv, NEW file, Written(file)
  PROVE  fileEvents' \in Nat /\ (Up => fileEvents' > 0)
  BY DEF FileInv, Written, MaxPending

LEMMA AssignShapes ==
  ASSUME EditShape, NEW r \in FileEditors, NEW pc, NEW name, NEW value, Assign(r, pc, name, value)
  PROVE  EditShape' /\ edit'[r].pc = pc
<1>1. PICK met \in SUBSET {q \in FileEditors : Marshalling(q)} :
       edit' = [q \in FileEditors |->
         IF q = r THEN [edit[r] EXCEPT !.pc = pc]
         ELSE IF Marshalling(q)
              THEN [edit[q] EXCEPT !.raced = TRUE, !.data[name] = IF q \in met THEN value ELSE @]
              ELSE edit[q]]
  BY DEF Assign
<1> QED BY <1>1 DEF EditShape

LEMMA EditKeeps ==
  ASSUME FileInv, NEW r \in FileEditors, EditStep(r)
  PROVE  FileInv'
<1>0. EditShape /\ fileEvents \in Nat /\ Up
  BY DEF FileInv, EditStep, AddUser, ChangeUser, RemoveUser, UploadFile, SetUser, BeginMarshal,
         EndMarshal, Truncate, WriteData, Answer, Received, EditAt
<1>1. CASE AddUser(r) \/ ChangeUser(r) \/ RemoveUser(r)
  <2>1. PICK name, value : Received(r, "set", name, value)
    BY <1>1 DEF AddUser, ChangeUser, RemoveUser
  <2>2. /\ edit' = [edit EXCEPT ![r] = [NoEdit EXCEPT !.pc = "set", !.name = name, !.value = value]]
        /\ UNCHANGED <<userIndex, authFile, fileEvents, loader, server, reloads>>
        /\ edit[r].pc = "idle"
    BY <2>1 DEF Received, EditAt, processVars
  <2>3. EditShape' /\ ~Dirty(r)' /\ ~Dirty(r)
    BY <1>0, <2>2 DEF EditShape, NoEdit, Dirty
  <2>4. \A q \in FileEditors : Dirty(q)' = Dirty(q)
    BY <1>0, <2>2, <2>3 DEF EditShape, Dirty
  <2> QED BY <2>2, <2>3, <2>4 DEF FileInv, ReadIsFile, IndexIsFile, Up, Loadable
<1>2. ASSUME EditShape', Dirty(r)', UNCHANGED <<authFile, fileEvents, loader, server>> PROVE FileInv'
  BY <1>2 DEF FileInv, ReadIsFile, IndexIsFile, Up
<1>3. CASE UploadFile(r)
  <2>1. EditShape' /\ Dirty(r)'
    BY <1>0, <1>3 DEF UploadFile, EditShape, Dirty, NoEdit
  <2> QED BY <1>2, <1>3, <2>1 DEF UploadFile, processVars
<1>4. CASE SetUser(r)
  <2>1. EditShape' /\ Dirty(r)'
    BY <1>0, <1>4, AssignShapes DEF SetUser, Dirty
  <2> QED BY <1>2, <1>4, <2>1 DEF SetUser, processVars
<1>5. CASE BeginMarshal(r) \/ EndMarshal(r)
  <2>1. EditShape' /\ Dirty(r)'
    BY <1>0, <1>5 DEF BeginMarshal, EndMarshal, EditShape, Dirty
  <2> QED BY <1>2, <1>5, <2>1 DEF BeginMarshal, EndMarshal, processVars
<1>6. CASE Truncate(r) \/ WriteData(r)
  <2>1. EditShape'
    BY <1>0, <1>6 DEF Truncate, WriteData, EditShape
  <2>2. fileEvents' \in Nat /\ fileEvents' > 0 /\ server' = server
    BY <1>0, <1>6, WrittenPends DEF Truncate, WriteData, processVars
  <2> QED BY <1>0, <2>1, <2>2 DEF FileInv, ReadIsFile, IndexIsFile, Up
<1>7. CASE Answer(r)
  <2>1. EditShape' /\ ~Dirty(r)' /\ ~Dirty(r)
    BY <1>0, <1>7 DEF Answer, EditAt, EditShape, NoEdit, Dirty
  <2>2. \A q \in FileEditors : Dirty(q)' = Dirty(q)
    BY <1>0, <1>7, <2>1 DEF Answer, EditShape, Dirty
  <2> QED BY <1>7, <2>1, <2>2 DEF Answer, FileInv, ReadIsFile, IndexIsFile, Up, Loadable, processVars
<1> QED BY <1>1, <1>3, <1>4, <1>5, <1>6, <1>7 DEF EditStep

LEMMA FileKeeps == FileInv /\ [UserFileNext]_userFileVars => FileInv'
<1> SUFFICES ASSUME FileInv, [UserFileNext]_userFileVars PROVE FileInv'
  OBVIOUS
<1>1. CASE EditByHand
  <2>1. fileEvents' \in Nat /\ (Up => fileEvents' > 0) /\ UNCHANGED <<server, edit, loader>>
    BY <1>1, WrittenPends DEF EditByHand
  <2> QED BY <2>1 DEF FileInv, EditShape, ReadIsFile, IndexIsFile, Up
<1>2. CASE ReadFile
  BY <1>2 DEF ReadFile, FileInv, EditShape, ReadIsFile, IndexIsFile, Up, Loadable, NotLoading,
              processVars
<1>3. CASE ReloadIndex
  BY <1>3 DEF ReloadIndex, Replaced, NotLoading, FileInv, EditShape, ReadIsFile, IndexIsFile, Up,
              processVars
<1>4. CASE Kill
  BY <1>4 DEF Kill, NotLoading, NoEdit, FileInv, EditShape, ReadIsFile, IndexIsFile, Up
<1>5. CASE Start
  BY <1>5 DEF Start, FileInv, EditShape, ReadIsFile, IndexIsFile, Up
<1>6. CASE UNCHANGED userFileVars
  BY <1>6 DEF userFileVars, processVars, FileInv, EditShape, ReadIsFile, IndexIsFile, Up, Loadable,
              Dirty
<1> QED BY <1>1, <1>2, <1>3, <1>4, <1>5, <1>6, EditKeeps DEF UserFileNext

(* At rest the index of the users is the authfile, whatever order requests *)
(* of any number of administrators, edits by hand and the watcher's reloads*)
(* took (settings.UserIndex, addWatchEvents).                              *)
THEOREM IndexFollowsFile == UserFileSpec => []QuietAgrees
<1>1. UserFileInit => FileInv
  BY DEF UserFileInit, NotLoading, NoEdit, FileInv, EditShape, ReadIsFile, IndexIsFile, Up
<1>2. FileInv => QuietAgrees
  BY DEF FileInv, IndexIsFile, QuietAgrees, Dirty
<1> QED BY <1>1, <1>2, FileKeeps, PTL DEF UserFileSpec

-----------------------------------------------------------------------------
(* The types of UserFile.                                                  *)

EditPlaces == {"idle", "set", "range", "marshal", "truncate", "write", "answer"}
Maps == 0..Cardinality(FileEditors)
Edit == [pc : EditPlaces, name : FileUsers, value : Setting, data : Content, map : Maps, raced : BOOLEAN]
FileType == [users : Content, size : 0..Cardinality(FileUsers), whole : BOOLEAN]
IndexType == [users : Content, map : Maps]
LoaderType == [pc : {"watch", "swap"}, users : Content]

FileTyped ==
  /\ userIndex \in IndexType /\ authFile \in FileType /\ loader \in LoaderType
  /\ edit \in [FileEditors -> Edit] /\ fileEvents \in 0..MaxPending /\ edited \in 0..MaxEdited
  /\ server \in {"up", "down"} /\ reloads \in BOOLEAN

LEMMA FileTypes == FileTyped <=> UserFileTypeOK
BY DEF FileTyped, UserFileTypeOK, EditPlaces, Maps, Edit, FileType, IndexType, LoaderType

LEMMA MapsCounted ==
  ASSUME IsFiniteSet(FileEditors)
  PROVE  Cardinality(FileEditors) \in Nat /\ 0 \in Maps
BY FS_CardinalityType DEF Maps

LEMMA SizeTyped ==
  ASSUME IsFiniteSet(FileUsers), NEW content \in Content
  PROVE  Size(content) \in 0..Cardinality(FileUsers)
<1>1. {n \in FileUsers : content[n] # "none"} \in SUBSET FileUsers
  OBVIOUS
<1> QED BY <1>1, FS_Subset, FS_CardinalityType DEF Size

LEMMA ContentTyped ==
  /\ Nobody \in Content
  /\ \A content \in Content, n \in FileUsers, v \in Setting : [content EXCEPT ![n] = v] \in Content
BY DEF Nobody, Content, Setting

(* There is a map that nobody ranges over: there are more maps than requests. *)
LEMMA FreshTyped ==
  ASSUME IsFiniteSet(FileEditors), edit \in [FileEditors -> Edit]
  PROVE  Fresh \in Maps
<1>1. PICK ranged : ranged = [r \in FileEditors |-> edit[r].map]
  OBVIOUS
<1>2. PICK used : used = {ranged[r] : r \in FileEditors}
  OBVIOUS
<1>3. PICK n \in Nat : n = Cardinality(FileEditors)
  BY FS_CardinalityType
<1>4. IsFiniteSet(used) /\ Cardinality(used) \in Nat /\ Cardinality(used) <= n
  <2>1. ranged \in [FileEditors -> used] /\ ranged \in Surjection(FileEditors, used)
    BY <1>1, <1>2 DEF Surjection
  <2> QED BY <1>3, <2>1, FS_Surjection, FS_CardinalityType
<1>5. \E m \in 0..n : m \notin used
  <2> SUFFICES ASSUME 0..n \subseteq used PROVE FALSE
    OBVIOUS
  <2>1. Cardinality(0..n) = n + 1
    BY FS_Interval
  <2>2. Cardinality(0..n) <= Cardinality(used)
    BY <1>4, FS_Subset
  <2> QED BY <1>4, <2>1, <2>2
<1>6. \E m \in 0..Cardinality(FileEditors) :
        \A r \in FileEditors : edit[r].pc = "marshal" => edit[r].map # m
  BY <1>1, <1>2, <1>3, <1>5
<1> QED BY <1>6 DEF Fresh, Maps

LEMMA EditTyped ==
  ASSUME IsFiniteSet(FileEditors), NEW pc \in EditPlaces, NEW name \in FileUsers, NEW value \in Setting
  PROVE  /\ NoEdit \in Edit /\ [NoEdit EXCEPT !.pc = pc] \in Edit
         /\ [NoEdit EXCEPT !.pc = pc, !.name = name, !.value = value] \in Edit
<1>1. NoEdit \in Edit
  BY UserFileAssumption, ContentTyped, MapsCounted DEF NoEdit, Edit, EditPlaces, Setting
<1> QED BY <1>1 DEF Edit

(* Set and Del may meet requests that range over the map.                  *)
LEMMA AssignTyped ==
  ASSUME FileTyped, NEW r \in FileEditors, NEW pc \in EditPlaces, NEW name \in FileUsers,
         NEW value \in Setting, Assign(r, pc, name, value)
  PROVE  userIndex' \in IndexType /\ edit' \in [FileEditors -> Edit]
<1>1. userIndex' \in IndexType
  <2>1. userIndex' = [userIndex EXCEPT !.users[name] = value] /\ userIndex \in IndexType
    BY DEF Assign, FileTyped
  <2>2. PICK content \in Content : content = [userIndex.users EXCEPT ![name] = value]
    BY <2>1, ContentTyped DEF IndexType
  <2>3. userIndex' = [userIndex EXCEPT !.users = content]
    BY <2>1, <2>2 DEF IndexType
  <2> QED BY <2>1, <2>3 DEF IndexType
<1>2. PICK met \in SUBSET {q \in FileEditors : Marshalling(q)} :
       edit' = [q \in FileEditors |->
         IF q = r THEN [edit[r] EXCEPT !.pc = pc]
         ELSE IF Marshalling(q)
              THEN [edit[q] EXCEPT !.raced = TRUE, !.data[name] = IF q \in met THEN value ELSE @]
              ELSE edit[q]]
  BY DEF Assign
<1>3. ASSUME NEW q \in FileEditors PROVE edit'[q] \in Edit
  <2>1. edit[q] \in Edit /\ edit[q].data \in Content
    BY DEF FileTyped, Edit
  <2>2. CASE q = r
    BY <1>2, <2>1, <2>2 DEF Edit
  <2>3. CASE q # r /\ Marshalling(q)
    <3>1. PICK v \in Setting : v = IF q \in met THEN value ELSE edit[q].data[name]
      BY <2>1 DEF Content
    <3>2. PICK data \in Content : data = [edit[q].data EXCEPT ![name] = v]
      BY <2>1, ContentTyped
    <3>3. edit'[q] = [edit[q] EXCEPT !.raced = TRUE, !.data = data]
      BY <1>2, <2>1, <2>3, <3>1, <3>2 DEF Edit, Content
    <3> QED BY <2>1, <3>3 DEF Edit
  <2>4. CASE q # r /\ ~Marshalling(q)
    BY <1>2, <2>1, <2>4
  <2> QED BY <2>2, <2>3, <2>4
<1>4. edit' \in [FileEditors -> Edit]
  BY <1>2, <1>3
<1> QED BY <1>1, <1>4

LEMMA WrittenTyped ==
  ASSUME FileTyped, NEW file \in FileType, Written(file)
  PROVE  authFile' \in FileType /\ reloads' \in BOOLEAN /\ fileEvents' \in 0..MaxPending
BY DEF FileTyped, Written, MaxPending

LEMMA EditsTyped ==
  ASSUME IsFiniteSet(FileEditors), IsFiniteSet(FileUsers), FileTyped, NEW r \in FileEditors, EditStep(r)
  PROVE  FileTyped'
<1>0. /\ edit \in [FileEditors -> Edit] /\ edit[r] \in Edit /\ userIndex \in IndexType
      /\ authFile \in FileType /\ edited \in 0..MaxEdited /\ MaxEdited \in Nat
  BY UserFileAssumption DEF FileTyped
<1>1. ASSUME NEW pc, NEW name, NEW value, Received(r, pc, name, value),
             pc \in EditPlaces, name \in FileUsers, value \in Setting
      PROVE  FileTyped'
  <2>1. edit' \in [FileEditors -> Edit]
    BY <1>0, <1>1, EditTyped DEF Received
  <2> QED BY <1>0, <1>1, <2>1 DEF Received, processVars, FileTyped
<1>2. CASE AddUser(r) \/ ChangeUser(r) \/ RemoveUser(r)
  BY <1>1, <1>2 DEF AddUser, ChangeUser, RemoveUser, EditPlaces, Setting
<1>3. CASE SetUser(r)
  <2>1. Assign(r, "range", edit[r].name, edit[r].value)
        /\ UNCHANGED <<authFile, fileEvents, loader, edited, processVars, reloads>>
    BY <1>3 DEF SetUser
  <2>2. edit[r].name \in FileUsers /\ edit[r].value \in Setting /\ "range" \in EditPlaces
    BY <1>0 DEF Edit, EditPlaces
  <2>3. userIndex' \in IndexType /\ edit' \in [FileEditors -> Edit]
    BY <2>1, <2>2, AssignTyped
  <2> QED BY <2>1, <2>3 DEF processVars, FileTyped
<1>4. CASE UploadFile(r)
  <2>1. PICK n \in FileUsers, v \in {"valid", "invalid"} : userIndex' = Replaced([Nobody EXCEPT ![n] = v])
    BY <1>4 DEF UploadFile
  <2>2. userIndex' \in IndexType
    <3>1. v \in Setting
      BY DEF Setting
    <3>2. [Nobody EXCEPT ![n] = v] \in Content
      BY <3>1, ContentTyped
    <3> QED BY <1>0, <2>1, <3>2, FreshTyped DEF Replaced, IndexType
  <2>3. edit' \in [FileEditors -> Edit]
    <3>1. [NoEdit EXCEPT !.pc = "range"] \in Edit
      BY EditTyped, UserFileAssumption DEF EditPlaces, Setting
    <3> QED BY <1>0, <1>4, <3>1 DEF UploadFile
  <2> QED BY <1>0, <1>4, <2>2, <2>3 DEF UploadFile, processVars, FileTyped
<1>5. CASE BeginMarshal(r) \/ EndMarshal(r)
  <2>1. edit' \in [FileEditors -> Edit]
    <3>1. CASE BeginMarshal(r)
      <4>1. PICK content \in Content, map \in Maps : content = userIndex.users /\ map = userIndex.map
        BY <1>0 DEF IndexType
      <4>2. PICK e : e = [edit[r] EXCEPT !.pc = "marshal", !.data = content, !.map = map]
        OBVIOUS
      <4>3. e \in Edit
        BY <1>0, <4>2 DEF Edit, EditPlaces
      <4>4. edit' = [edit EXCEPT ![r] = e]
        BY <1>0, <3>1, <4>1, <4>2 DEF BeginMarshal
      <4> QED BY <1>0, <4>3, <4>4
    <3>2. CASE EndMarshal(r)
      <4>1. PICK e : e = [edit[r] EXCEPT !.pc = "truncate", !.map = 0, !.raced = FALSE]
        OBVIOUS
      <4>2. e \in Edit
        BY <1>0, <4>1, MapsCounted DEF Edit, EditPlaces
      <4>3. edit' = [edit EXCEPT ![r] = e]
        BY <1>0, <3>2, <4>1 DEF EndMarshal
      <4> QED BY <1>0, <4>2, <4>3
    <3> QED BY <1>5, <3>1, <3>2
  <2> QED BY <1>5, <2>1 DEF BeginMarshal, EndMarshal, processVars, FileTyped
<1>6. ASSUME NEW pc \in EditPlaces, edit' = [edit EXCEPT ![r].pc = pc] PROVE edit' \in [FileEditors -> Edit]
  BY <1>0, <1>6 DEF Edit
<1>7. CASE Truncate(r)
  <2>1. edit' \in [FileEditors -> Edit]
    BY <1>6, <1>7 DEF Truncate, EditPlaces
  <2>2. [users |-> Nobody, size |-> 0, whole |-> FALSE] \in FileType
    BY ContentTyped, FS_CardinalityType DEF FileType
  <2> QED BY <1>7, <2>1, <2>2, WrittenTyped DEF Truncate, processVars, FileTyped
<1>8. CASE WriteData(r)
  <2>1. edit' \in [FileEditors -> Edit]
    BY <1>6, <1>8 DEF WriteData, EditPlaces
  <2>2. PICK data \in Content, n \in 0..Cardinality(FileUsers), size \in 0..Cardinality(FileUsers) :
          data = edit[r].data /\ n = Size(edit[r].data) /\ size = authFile.size
    BY <1>0, SizeTyped DEF Edit, FileType
  <2>3. PICK file : file = [users |-> data, size |-> IF n > size THEN n ELSE size, whole |-> n >= size]
    OBVIOUS
  <2>4. file \in FileType
    BY <2>3 DEF FileType
  <2>5. Written(file)
    BY <1>8, <2>2, <2>3 DEF WriteData
  <2> QED BY <1>8, <2>1, <2>4, <2>5, WrittenTyped DEF WriteData, processVars, FileTyped
<1>9. CASE Answer(r)
  <2>1. NoEdit \in Edit
    BY EditTyped, UserFileAssumption DEF EditPlaces, Setting
  <2>2. edit' \in [FileEditors -> Edit]
    BY <1>0, <1>9, <2>1 DEF Answer
  <2> QED BY <1>9, <2>2 DEF Answer, processVars, FileTyped
<1> QED BY <1>2, <1>3, <1>4, <1>5, <1>7, <1>8, <1>9 DEF EditStep

LEMMA StartedTyped ==
  ASSUME IsFiniteSet(FileEditors), NEW file \in FileType
  PROVE  Started(file) \in IndexType
<1>1. CliUser \in Setting /\ Cli \in FileUsers
  BY UserFileAssumption DEF Setting
<1>2. [file.users EXCEPT ![Cli] = CliUser] \in Content
  BY <1>1, ContentTyped DEF FileType
<1> QED BY <1>2, MapsCounted DEF Started, IndexType

LEMMA FileStaysTyped ==
  ASSUME IsFiniteSet(FileEditors), IsFiniteSet(FileUsers), FileTyped, [UserFileNext]_userFileVars
  PROVE  FileTyped'
<1>0. /\ edit \in [FileEditors -> Edit] /\ authFile \in FileType /\ loader \in LoaderType
      /\ NotLoading \in LoaderType /\ edited \in 0..MaxEdited /\ MaxEdited \in Nat
      /\ fileEvents \in 0..MaxPending
  BY UserFileAssumption, ContentTyped DEF FileTyped, NotLoading, LoaderType
<1>1. CASE EditByHand
  <2>1. PICK n \in FileUsers, v \in Setting :
          Written([users |-> [Nobody EXCEPT ![n] = v], size |-> 1, whole |-> TRUE])
    BY <1>1 DEF EditByHand, Setting
  <2>2. 1 \in 0..Cardinality(FileUsers)
    BY UserFileAssumption, FS_CardinalityType, FS_EmptySet
  <2>3. [users |-> [Nobody EXCEPT ![n] = v], size |-> 1, whole |-> TRUE] \in FileType
    BY <2>2, ContentTyped DEF FileType
  <2>4. authFile' \in FileType /\ reloads' \in BOOLEAN /\ fileEvents' \in 0..MaxPending
    BY <2>1, <2>3, WrittenTyped
  <2> QED BY <1>0, <1>1, <2>4 DEF EditByHand, FileTyped
<1>2. CASE ReadFile
  <2>1. loader' \in LoaderType
    BY <1>0, <1>2 DEF ReadFile, LoaderType, FileType
  <2>2. fileEvents' \in 0..MaxPending
    BY <1>0, <1>2 DEF ReadFile, MaxPending
  <2> QED BY <1>2, <2>1, <2>2 DEF ReadFile, processVars, FileTyped
<1>3. CASE ReloadIndex
  <2>1. userIndex' \in IndexType
    BY <1>0, <1>3, FreshTyped DEF ReloadIndex, Replaced, IndexType, LoaderType
  <2> QED BY <1>0, <1>3, <2>1 DEF ReloadIndex, processVars, FileTyped
<1>4. CASE Kill
  <2>1. NoEdit \in Edit
    BY EditTyped, UserFileAssumption DEF EditPlaces, Setting
  <2>2. userIndex' \in IndexType
    BY <1>4, ContentTyped, MapsCounted DEF Kill, IndexType
  <2> QED BY <1>0, <1>4, <2>1, <2>2 DEF Kill, FileTyped, MaxPending
<1>5. CASE Start
  <2>1. userIndex' \in IndexType
    BY <1>0, <1>5, StartedTyped DEF Start
  <2> QED BY <1>5, <2>1 DEF Start, FileTyped
<1>6. CASE UNCHANGED userFileVars
  BY <1>6 DEF userFileVars, processVars, FileTyped
<1> QED BY <1>1, <1>2, <1>3, <1>4, <1>5, <1>6, EditsTyped DEF UserFileNext

LEMMA FileTypedStart ==
  ASSUME IsFiniteSet(FileEditors), IsFiniteSet(FileUsers), UserFileInit
  PROVE  FileTyped
<1>1. authFile \in FileType
  BY ContentTyped, FS_CardinalityType DEF UserFileInit, FileType
<1>2. userIndex \in IndexType
  BY <1>1, StartedTyped DEF UserFileInit
<1>3. NoEdit \in Edit
  BY EditTyped, UserFileAssumption DEF EditPlaces, Setting
<1>4. NotLoading \in LoaderType
  BY ContentTyped DEF NotLoading, LoaderType
<1>5. edit \in [FileEditors -> Edit] /\ loader \in LoaderType
  BY <1>3, <1>4 DEF UserFileInit
<1>6. fileEvents \in 0..MaxPending /\ edited \in 0..MaxEdited
  BY UserFileAssumption DEF UserFileInit, MaxPending
<1> QED BY <1>1, <1>2, <1>5, <1>6 DEF UserFileInit, FileTyped

-----------------------------------------------------------------------------
(* Every part of the administration has its types, in every behaviour of   *)
(* any one of them and for any number of requests: the buffer of security  *)
(* events never holds more than it may (server/server.go), and a request   *)
(* that ranges over the users is told from the map that Reset puts in its  *)
(* place (share/settings/users.go).                                        *)
THEOREM AdministrationIsTyped ==
  ASSUME IsFiniteSet(FileEditors), IsFiniteSet(FileUsers)
  PROVE  AdministrationSpec => []AdministrationTypeOK
<1> DEFINE Inv ==
      /\ Shape /\ Settings /\ EventTypes /\ AccountsInv /\ FileTyped /\ PortsTyped /\ ProvidersTyped
<1>1. AdministrationInit => Inv
  BY SettingsStart, EventTypesStart, AccountsStart, FileTypedStart, PortsTypedStart, ProvidersTypedStart
     DEF AdministrationInit
<1>2. Inv /\ [AdministrationNext]_administrationVars => Inv'
  <2> SUFFICES ASSUME Inv, [AdministrationNext]_administrationVars PROVE Inv'
    OBVIOUS
  <2>1. /\ [AccessNext]_accessVars /\ [SecurityNext]_securityVars /\ [AccountsNext]_accountVars
        /\ [UserFileNext]_userFileVars /\ [PortsNext]_portVars /\ [ProvidersNext]_providerVars
    BY DEF AdministrationNext, administrationVars
  <2> QED BY <2>1, ShapeKeeps, SettingsKeep, EventTypesKeep, AccountsStep, FileStaysTyped, PortsTypedKeep,
             ProvidersTypedKeep
<1>3. Inv => AdministrationTypeOK
  BY AccessTyped, EventTypesTyped, FileTypes, PortsTypes, ProvidersTypes
     DEF AccountsInv, AdministrationTypeOK
<1> QED BY <1>1, <1>2, <1>3, PTL DEF AdministrationSpec

(* A behaviour of the whole is one of every part, so what is proved of a   *)
(* part holds of the whole that the runs check.                            *)
THEOREM PartsRun ==
  AdministrationSpec =>
    AccessSpec /\ SecuritySpec /\ AccountsSpec /\ UserFileSpec /\ PortsSpec /\ ProvidersSpec
<1>1. AdministrationInit =>
        AccessInit /\ SecurityInit /\ AccountsInit /\ UserFileInit /\ PortsInit /\ ProvidersInit
  BY DEF AdministrationInit
<1>2. [AdministrationNext]_administrationVars =>
        /\ [AccessNext]_accessVars /\ [SecurityNext]_securityVars /\ [AccountsNext]_accountVars
        /\ [UserFileNext]_userFileVars /\ [PortsNext]_portVars /\ [ProvidersNext]_providerVars
  BY DEF AdministrationNext, administrationVars
<1> QED BY <1>1, <1>2, PTL
       DEF AdministrationSpec, AccessSpec, SecuritySpec, AccountsSpec, UserFileSpec, PortsSpec, ProvidersSpec
=============================================================================
