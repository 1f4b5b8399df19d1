------------------------------ MODULE Accounts ------------------------------
(***************************************************************************)
(* Accounts in the database (server/server_rest.go, server_api_user.go,    *)
(* server.go, share/database/users.go, user_tokens.go): administrators and *)
(* users change rows of users, a deletion takes what the user owns first,  *)
(* and the SSH handshake hands its user over through the sessions map.     *)
(*                                                                         *)
(* One step is one SQL statement or one access to the map.  A request is   *)
(* authenticated before it does anything, and goes by what it read then.   *)
(* SQLite enforces no foreign key, so rows of other tables outlive a user. *)
(***************************************************************************)
EXTENDS Integers, Sequences, FiniteSets

CONSTANTS
  Names,          \* user names
  NoName,         \* none of them
  Clients,        \* SSH connections
  Requests,       \* HTTP requests at a time
  Inserts,        \* kinds of rows requests insert for their sender
  Indexed,        \* whether the index of users (--auth, authfile) has any
  MaxServed,      \* bound: HTTP requests
  MaxCalls        \* bound: SSH connections

ASSUME AccountsAssumption ==
  /\ NoName \notin Names
  /\ Inserts \subseteq {"listener", "reservation", "token", "source", "limits", "preference"}
  /\ Indexed \in BOOLEAN
  /\ MaxServed \in Nat /\ MaxCalls \in Nat

(* Variant: the tokens are forgotten.                                      *)
CleanupsButTokens == <<"session", "listener", "tunnel", "reservation", "source">>

(* What cleanupUserResources goes through, in its order.                   *)
Cleanups == <<"session", "listener", "tunnel", "reservation", "token", "source">>

(* What a user may come to own; limits and preferences are in no cleanup.  *)
CleanedKinds == {"listener", "tunnel", "reservation", "token", "source"}
Kinds == CleanedKinds \cup {"limits", "preference"}

VARIABLES
  users,      \* rows of users; id 0 is no row
  owned,      \* rows of the other tables, by kind and name; those a cleanup of
              \* their user did not find or failed to delete are missed
  sessions,   \* the sessions map: connection -> user
  client,     \* handshakes and sessions
  request,    \* the HTTP requests
  served,     \* number of requests; ids are made of it
  calls,      \* number of SSH connections
  outdated    \* history: a row was written by a request that went by an old one

accountVars == <<users, owned, sessions, client, request, served, calls, outdated>>
sshVars == <<sessions, client, calls>>

NoAccount == [id |-> 0, admin |-> FALSE]
NoClient == [pc |-> "idle", user |-> NoName]
NoRequest == [pc |-> "idle", sender |-> NoName, id |-> 0, target |-> NoName, kind |-> "none",
              read |-> NoAccount, row |-> NoAccount, next |-> 1]
Exists(u) == users[u].id # 0

(* Every user of the start is an administrator.                            *)
AccountsInit ==
  /\ users = [u \in Names |-> [id |-> -1, admin |-> TRUE]]
  /\ owned = {}
  /\ sessions = [c \in Clients |-> NoName]
  /\ client = [c \in Clients |-> NoClient]
  /\ request = [r \in Requests |-> NoRequest]
  /\ served = 0 /\ calls = 0
  /\ outdated = FALSE

-----------------------------------------------------------------------------
(* Requests.                                                               *)

(* userAuthMiddleware, combinedAuthMiddleware: the sender has a row, or    *)
(* owns a token.                                                           *)
Authenticated(s) == Exists(s) \/ \E x \in owned : x.kind = "token" /\ x.user = s

Begin(r, job) ==
  /\ request[r].pc = "idle" /\ served < MaxServed
  /\ request' = [request EXCEPT ![r] = job]
  /\ served' = served + 1
  /\ UNCHANGED <<users, owned, sshVars, outdated>>

Demand(pc, s, t, kind, row) ==
  [pc |-> pc, sender |-> s, id |-> users[s].id, target |-> t, kind |-> kind, read |-> row, row |-> row, next |-> 1]
Finish(r) == request' = [request EXCEPT ![r] = NoRequest]
Goto(r, pc) == request' = [request EXCEPT ![r].pc = pc]
IsAdmin(s) == Exists(s) /\ users[s].admin

(* Variant: an administrator may delete and demote itself.                 *)
BeginAdminAnyone(r) ==
  \E s, t \in Names, admin \in BOOLEAN, pc \in {"add?", "update?", "delete?"} :
    /\ IsAdmin(s)
    /\ Begin(r, Demand(pc, s, t, "none", [id |-> 0, admin |-> admin]))

(* handleAddUser, handleUpdateUser, handleUpdateUserAPI, handleDeleteUser: *)
(* nobody deletes or demotes oneself.                                      *)
BeginAdmin(r) ==
  \E s, t \in Names, admin \in BOOLEAN, pc \in {"add?", "update?", "delete?"} :
    /\ IsAdmin(s)
    /\ pc = "delete?" => t # s
    /\ pc = "update?" => admin \/ t # s
    /\ Begin(r, Demand(pc, s, t, "none", [id |-> 0, admin |-> admin]))

(* HandleCallback of single sign-on: whoever the provider vouches for is   *)
(* let in.                                                                 *)
BeginSSO(r) ==
  \E s \in Names : Begin(r, Demand("sso?", s, s, "source", NoAccount))

(* A row of users has been written; single sign-on goes on to its source.  *)
AfterRow(r) == IF request[r].kind = "source" THEN Goto(r, "source?") ELSE Finish(r)

(* The row that is read is checked, and is what the request goes by.       *)
CheckAbsent(r) ==
  /\ request[r].pc = "add?"
  /\ IF Exists(request[r].target) THEN Finish(r) ELSE Goto(r, "insert")
  /\ UNCHANGED <<users, owned, sshVars, served, outdated>>

(* CreateUser: names are UNIQUE.                                           *)
CreateUser(r) ==
  LET t == request[r].target IN
  /\ request[r].pc = "insert" /\ ~Exists(t)
  /\ users' = [users EXCEPT ![t] = [id |-> served, admin |-> request[r].row.admin]]
  /\ AfterRow(r)
  /\ UNCHANGED <<owned, sshVars, served, outdated>>

ReadForUpdate(r) ==
  LET t == request[r].target IN
  /\ request[r].pc = "update?"
  /\ \/ ~Exists(t) /\ Finish(r)
     \/ /\ Exists(t)
        /\ request' = [request EXCEPT ![r] = [request[r] EXCEPT
             !.pc = "write", !.read = users[t], !.row = [id |-> 0, admin |-> request[r].row.admin]]]
  /\ UNCHANGED <<users, owned, sshVars, served, outdated>>

(* createOrUpdateUser: who is new is no administrator.                     *)
ReadForSSO(r) ==
  LET t == request[r].target IN
  /\ request[r].pc = "sso?"
  /\ request' = [request EXCEPT ![r] = [request[r] EXCEPT
       !.pc = IF Exists(t) THEN "write" ELSE "insert", !.read = users[t], !.row = users[t]]]
  /\ UNCHANGED <<users, owned, sshVars, served, outdated>>

(* handleUpdateUserProfile: one's own row, read and written back with      *)
(* another address or password.                                            *)
BeginProfile(r) ==
  \E s \in Names :
    /\ Exists(s)
    /\ Begin(r, Demand("write", s, s, "none", users[s]))

(* Whoever sent this has lost its right to since, or the row has changed.  *)
Outdated(r) ==
  LET q == request[r] IN
  q.target # q.sender /\ ~(IsAdmin(q.sender) /\ users[q.sender].id = q.id)

(* UpdateUser: the whole row of the name, whoever has it by now.           *)
UpdateUser(r) ==
  LET t == request[r].target IN
  /\ request[r].pc = "write" /\ Exists(t)
  /\ users' = [users EXCEPT ![t].admin = request[r].row.admin]
  /\ outdated' = (outdated \/ Outdated(r) \/ users[t] # request[r].read)
  /\ AfterRow(r)
  /\ UNCHANGED <<owned, sshVars, served>>

CheckPresent(r) ==
  /\ request[r].pc = "delete?"
  /\ IF Exists(request[r].target) THEN Goto(r, "cleanup") ELSE Finish(r)
  /\ UNCHANGED <<users, owned, sshVars, served, outdated>>

(* cleanupUserResources, one kind at a time.  What it lists it deletes, and*)
(* what comes after the listing stays; so does what a statement fails to   *)
(* delete, which is ignored.                                               *)
Cleanup(r) ==
  LET t == request[r].target
      kind == Cleanups[request[r].next]
      found == {x \in owned : x.kind = kind /\ x.user = t}
  IN
  /\ request[r].pc = "cleanup"
  /\ \E failed \in SUBSET found :
       owned' = (owned \ found) \cup {[x EXCEPT !.missed = TRUE] : x \in failed}
  /\ sessions' = IF kind = "session"
                 THEN [c \in Clients |-> IF sessions[c] = t THEN NoName ELSE sessions[c]]
                 ELSE sessions
  /\ request' = [request EXCEPT ![r] = [request[r] EXCEPT
       !.next = request[r].next + 1, !.pc = IF request[r].next = Len(Cleanups) THEN "delete" ELSE "cleanup"]]
  /\ UNCHANGED <<users, client, calls, served, outdated>>

DeleteUser(r) ==
  /\ request[r].pc = "delete" /\ Finish(r)
  /\ users' = [users EXCEPT ![request[r].target] = NoAccount]
  /\ outdated' = (outdated \/ Outdated(r))
  /\ UNCHANGED <<owned, sshVars, served>>

(* A deletion of u that has been through a kind.                           *)
Cleaned(u, kind) ==
  \E r \in Requests :
    /\ request[r].pc \in {"cleanup", "delete"} /\ request[r].target = u
    /\ \A i \in DOMAIN Cleanups : Cleanups[i] = kind => i < request[r].next

(* A row of u is inserted by somebody who was let in as u.                 *)
Inserted(kind, u) ==
  owned' = owned \cup {[kind |-> kind, user |-> u, missed |-> ~Exists(u) \/ Cleaned(u, kind)]}

(* Requests that insert what their sender will own: handleCreateUserToken, *)
(* a listener, a reservation, a preference.                                *)
BeginInsert(r) ==
  \E s \in Names, kind \in Inserts :
    Authenticated(s) /\ Begin(r, Demand("own", s, NoName, kind, NoAccount))

(* GetUserAuthSource, an error of which is taken for none; the UPDATE of   *)
(* the one there is changes only its data.                                 *)
FindSource(r) ==
  /\ request[r].pc = "source?"
  /\ \/ Finish(r) /\ \E x \in owned : x.kind = "source" /\ x.user = request[r].target
     \/ Goto(r, "own")
  /\ UNCHANGED <<users, owned, sshVars, served, outdated>>

(* A user has one source: another is UNIQUE's error.                       *)
InsertOwned(r) ==
  LET kind == request[r].kind  s == request[r].sender IN
  /\ request[r].pc = "own" /\ Finish(r)
  /\ ~\E x \in owned : kind = "source" /\ x.kind = kind /\ x.user = s
  /\ Inserted(kind, s)
  /\ UNCHANGED <<users, sshVars, served, outdated>>

(* A statement that fails, or finds no row, ends the request.              *)
StatementFails(r) ==
  /\ request[r].pc \notin {"idle", "cleanup"} /\ Finish(r)
  /\ UNCHANGED <<users, owned, sshVars, served, outdated>>

(* handleRevokeUserToken                                                   *)
RevokeToken(r) ==
  /\ request[r].pc = "idle" /\ served < MaxServed
  /\ \E x \in owned : x.kind = "token" /\ owned' = owned \ {x}
  /\ served' = served + 1
  /\ UNCHANGED <<users, sshVars, request, outdated>>

RequestStep(r) ==
  \/ CheckAbsent(r) \/ CreateUser(r)
  \/ ReadForUpdate(r) \/ ReadForSSO(r) \/ UpdateUser(r)
  \/ CheckPresent(r) \/ Cleanup(r) \/ DeleteUser(r)
  \/ FindSource(r) \/ InsertOwned(r)
  \/ StatementFails(r)

-----------------------------------------------------------------------------
(* SSH connections: authUser, handleWebsocket.                             *)

ClientAt(c, pc) == client[c].pc = pc

(* The password of a row, or a token and the row of its user, was right.   *)
AuthUser(c) ==
  /\ ClientAt(c, "idle") /\ calls < MaxCalls
  /\ \E u \in Names : Exists(u) /\ client' = [client EXCEPT ![c] = [pc |-> "set", user |-> u]]
  /\ calls' = calls + 1
  /\ UNCHANGED <<users, owned, sessions, request, served, outdated>>

SetSession(c) ==
  /\ ClientAt(c, "set")
  /\ sessions' = [sessions EXCEPT ![c] = client[c].user]
  /\ client' = [client EXCEPT ![c].pc = "handshake"]
  /\ UNCHANGED <<users, owned, request, calls, served, outdated>>

(* The handler takes its user out of the map.  A deletion may have done so *)
(* before: "bug in ssh auth handler".  Without an index of users it neither*)
(* looks nor deletes.  A handshake that fails leaves its entry there.      *)
TakeSession(c) ==
  /\ ClientAt(c, "handshake")
  /\ \/ /\ ~Indexed \/ sessions[c] # NoName
        /\ client' = [client EXCEPT ![c].pc = "live"]
        /\ sessions' = IF Indexed THEN [sessions EXCEPT ![c] = NoName] ELSE sessions
     \/ /\ Indexed /\ sessions[c] = NoName
        /\ client' = [client EXCEPT ![c] = NoClient]
        /\ UNCHANGED sessions
  /\ UNCHANGED <<users, owned, request, calls, served, outdated>>

HandshakeFails(c) ==
  /\ ClientAt(c, "handshake")
  /\ client' = [client EXCEPT ![c] = NoClient]
  /\ UNCHANGED <<users, owned, sessions, request, calls, served, outdated>>

(* The rows of its tunnels.                                                *)
OpenTunnels(c) ==
  /\ ClientAt(c, "live")
  /\ Inserted("tunnel", client[c].user)
  /\ client' = [client EXCEPT ![c].pc = "open"]
  /\ UNCHANGED <<users, sessions, request, calls, served, outdated>>

SessionEnds(c) ==
  /\ client[c].pc \in {"live", "open"}
  /\ client' = [client EXCEPT ![c] = NoClient]
  /\ UNCHANGED <<users, owned, sessions, request, calls, served, outdated>>

ClientStep(c) ==
  \/ AuthUser(c) \/ SetSession(c) \/ TakeSession(c) \/ HandshakeFails(c)
  \/ OpenTunnels(c) \/ SessionEnds(c)

AccountsNext ==
  \/ \E r \in Requests : BeginAdmin(r) \/ BeginSSO(r) \/ BeginProfile(r) \/ BeginInsert(r) \/ RevokeToken(r) \/ RequestStep(r)
  \/ \E c \in Clients : ClientStep(c)

AccountsSpec == AccountsInit /\ [][AccountsNext]_accountVars

-----------------------------------------------------------------------------
Account == [id : -1..MaxServed, admin : BOOLEAN]
Job ==
  [pc : {"idle", "add?", "insert", "update?", "sso?", "write", "source?", "delete?", "cleanup", "delete", "own"},
   sender : Names \cup {NoName}, id : -1..MaxServed, target : Names \cup {NoName},
   kind : Kinds \cup {"none"}, read : Account, row : Account, next : 1..7]

(* Rows are of users there are or were, requests where their code is.      *)
AccountsTypeOK ==
  /\ users \in [Names -> Account]
  /\ owned \subseteq [kind : Kinds, user : Names, missed : BOOLEAN]
  /\ sessions \in [Clients -> Names \cup {NoName}]
  /\ client \in [Clients -> [pc : {"idle", "set", "handshake", "live", "open"}, user : Names \cup {NoName}]]
  /\ request \in [Requests -> Job]
  /\ served \in 0..MaxServed /\ calls \in 0..MaxCalls /\ outdated \in BOOLEAN

(* "User %s deleted and all resources cleaned up" (server/server_rest.go:  *)
(* 861): of the kinds the cleanup goes through, what is left when the row  *)
(* is gone was inserted after its kind had been cleaned, by a request, a   *)
(* callback or a session let in before, or its deletion failed.            *)
LeftoversAreMissed ==
  \A x \in owned :
    x.kind \in CleanedKinds /\ ~Exists(x.user) => x.missed

(* "Admins cannot revoke admin permission from themselves" and "Cannot     *)
(* delete your own user" keep an administrator, whatever requests overlap, *)
(* unless one goes through whose sender has itself been demoted or deleted *)
(* since, or that writes back a row which has changed since it was read.   *)
AdminRemains == outdated \/ \E u \in Names : IsAdmin(u)
=============================================================================
