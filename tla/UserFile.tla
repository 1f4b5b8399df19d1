------------------------------ MODULE UserFile ------------------------------
(***************************************************************************)
(* Users without a database (share/settings/users.go, user.go,             *)
(* server/server_rest.go): an index in memory, the authfile, requests that *)
(* change the one and write it to the other, and a watcher that reloads the*)
(* one from the other whenever the file is written, by them or by hand.    *)
(*                                                                         *)
(* What a user is does not matter, but whether ValidateUser takes it; the  *)
(* length of a file is its number of users.                                *)
(***************************************************************************)
EXTENDS Integers, FiniteSets

CONSTANTS
  FileUsers,       \* user names
  Cli,             \* the one given by --auth, in no file at first
  CliUser,         \* and its settings
  FileEditors,         \* requests at a time
  MaxEdited,       \* bound: requests and edits by hand
  MaxKilled        \* bound: ends of the process

Setting == {"none", "valid", "other", "invalid"}
Content == [FileUsers -> Setting]

ASSUME UserFileAssumption ==
  /\ Cli \in FileUsers /\ CliUser \in {"valid", "other", "invalid"}
  /\ MaxEdited \in Nat /\ MaxKilled \in Nat

VARIABLES
  userIndex,   \* the map, and which one it is: Reset makes another
  authFile,    \* users, length, and whether it is one document
  fileEvents,  \* writes the watcher has not dealt with
  loader,      \* the watcher's goroutine
  edit,        \* the requests
  edited,      \* number of them, and of edits by hand
  server,      \* "up" or "down"
  killed,      \* number of ends
  reloads      \* whether the file was written since the start

userFileVars == <<userIndex, authFile, fileEvents, loader, edit, edited, server, killed, reloads>>
processVars == <<server, killed>>

Nobody == [n \in FileUsers |-> "none"]
Size(users) == Cardinality({n \in FileUsers : users[n] # "none"})
Loadable(file) == file.whole /\ \A n \in FileUsers : file.users[n] # "invalid"
NotLoading == [pc |-> "watch", users |-> Nobody]
NoEdit == [pc |-> "idle", name |-> Cli, value |-> "none", data |-> Nobody, map |-> 0, raced |-> FALSE]

(* NewServer: the file's users, and that of --auth, which the file's       *)
(* namesake would hide from the index only until here.                     *)
Started(file) == [users |-> [file.users EXCEPT ![Cli] = CliUser], map |-> 0]

UserFileInit ==
  /\ authFile = [users |-> Nobody, size |-> 0, whole |-> TRUE]
  /\ userIndex = Started(authFile)
  /\ fileEvents = 0 /\ loader = NotLoading
  /\ edit = [r \in FileEditors |-> NoEdit] /\ edited = 0
  /\ server = "up" /\ killed = 0 /\ reloads = FALSE

-----------------------------------------------------------------------------
(* The index.                                                              *)

(* json.MarshalIndent ranges over the map without its lock.  A Set or Del  *)
(* of that same map meanwhile is a data race: the runtime may end the      *)
(* process, and the entry is met or not.                                   *)
Marshalling(r) == edit[r].pc = "marshal" /\ edit[r].map = userIndex.map

(* Set, Del, by request r, which goes on at pc.                            *)
Assign(r, pc, name, value) ==
  /\ userIndex' = [userIndex EXCEPT !.users[name] = value]
  /\ \E met \in SUBSET {q \in FileEditors : Marshalling(q)} :
       edit' = [q \in FileEditors |->
         IF q = r THEN [edit[r] EXCEPT !.pc = pc]
         ELSE IF Marshalling(q)
              THEN [edit[q] EXCEPT !.raced = TRUE, !.data[name] = IF q \in met THEN value ELSE @]
              ELSE edit[q]]

(* Reset; maps that are still ranged over are told apart.                  *)
Fresh == CHOOSE m \in 0..Cardinality(FileEditors) : \A r \in FileEditors : edit[r].pc = "marshal" => edit[r].map # m
Replaced(users) == [users |-> users, map |-> Fresh]

-----------------------------------------------------------------------------
(* Requests.                                                               *)

Up == server = "up"
EditAt(r, pc) == Up /\ edit[r].pc = pc
Received(r, pc, name, value) ==
  /\ EditAt(r, "idle") /\ edited < MaxEdited
  /\ edit' = [edit EXCEPT ![r] = [NoEdit EXCEPT !.pc = pc, !.name = name, !.value = value]]
  /\ edited' = edited + 1
  /\ UNCHANGED <<userIndex, authFile, fileEvents, loader, processVars, reloads>>

(* handleAddUser validates; handleUpdateUser and handleUpdateUserAPI do not*)
(* and need not give a password.                                           *)
AddUser(r) ==
  \E n \in FileUsers : userIndex.users[n] = "none" /\ Received(r, "set", n, "valid")

ChangeUser(r) ==
  \E n \in FileUsers, v \in {"valid", "other", "invalid"} :
    userIndex.users[n] # "none" /\ Received(r, "set", n, v)

(* handleDeleteUser                                                        *)
RemoveUser(r) ==
  \E n \in FileUsers : userIndex.users[n] # "none" /\ Received(r, "set", n, "none")

SetUser(r) ==
  /\ EditAt(r, "set") /\ Assign(r, "range", edit[r].name, edit[r].value)
  /\ UNCHANGED <<authFile, fileEvents, loader, edited, processVars, reloads>>

(* handleAuthfile: what ValidateUser does not take is answered with an     *)
(* error, and loaded all the same.                                         *)
UploadFile(r) ==
  /\ EditAt(r, "idle") /\ edited < MaxEdited
  /\ \E n \in FileUsers, v \in {"valid", "invalid"} :
       userIndex' = Replaced([Nobody EXCEPT ![n] = v])
  /\ edit' = [edit EXCEPT ![r] = [NoEdit EXCEPT !.pc = "range"]]
  /\ edited' = edited + 1
  /\ UNCHANGED <<authFile, fileEvents, loader, processVars, reloads>>

(* WriteUsers: marshal, truncate, write.                                   *)
BeginMarshal(r) ==
  /\ EditAt(r, "range")
  /\ edit' = [edit EXCEPT ![r].pc = "marshal", ![r].data = userIndex.users, ![r].map = userIndex.map]
  /\ UNCHANGED <<userIndex, authFile, fileEvents, loader, edited, processVars, reloads>>

EndMarshal(r) ==
  /\ EditAt(r, "marshal")
  /\ edit' = [edit EXCEPT ![r].pc = "truncate", ![r].map = 0, ![r].raced = FALSE]
  /\ UNCHANGED <<userIndex, authFile, fileEvents, loader, edited, processVars, reloads>>

(* The kernel merges events that are alike and not yet read.               *)
MaxPending == 2
Written(file) ==
  /\ authFile' = file /\ reloads' = TRUE
  /\ fileEvents' = IF Up /\ fileEvents < MaxPending THEN fileEvents + 1 ELSE fileEvents

Truncate(r) ==
  /\ EditAt(r, "truncate") /\ Written([users |-> Nobody, size |-> 0, whole |-> FALSE])
  /\ edit' = [edit EXCEPT ![r].pc = "write"]
  /\ UNCHANGED <<userIndex, loader, edited, processVars>>

(* Over what another request may have written since: the longer one's end  *)
(* stays.                                                                  *)
WriteData(r) ==
  LET n == Size(edit[r].data) IN
  /\ EditAt(r, "write")
  /\ Written([users |-> edit[r].data, size |-> IF n > authFile.size THEN n ELSE authFile.size,
              whole |-> n >= authFile.size])
  /\ edit' = [edit EXCEPT ![r].pc = "answer"]
  /\ UNCHANGED <<userIndex, loader, edited, processVars>>

Answer(r) ==
  /\ EditAt(r, "answer") /\ edit' = [edit EXCEPT ![r] = NoEdit]
  /\ UNCHANGED <<userIndex, authFile, fileEvents, loader, edited, processVars, reloads>>

EditStep(r) ==
  \/ AddUser(r) \/ ChangeUser(r) \/ RemoveUser(r) \/ UploadFile(r)
  \/ SetUser(r) \/ BeginMarshal(r) \/ EndMarshal(r) \/ Truncate(r) \/ WriteData(r) \/ Answer(r)

(* An administrator edits the file in place.                               *)
EditByHand ==
  /\ edited < MaxEdited /\ edited' = edited + 1
  /\ \E n \in FileUsers, v \in {"valid", "invalid"} :
       Written([users |-> [Nobody EXCEPT ![n] = v], size |-> 1, whole |-> TRUE])
  /\ UNCHANGED <<userIndex, loader, edit, server, killed>>

-----------------------------------------------------------------------------
(* The watcher, addWatchEvents; loadUserIndex reads and then swaps.        *)

ReadFile ==
  /\ Up /\ loader.pc = "watch" /\ fileEvents > 0
  /\ fileEvents' = fileEvents - 1
  /\ loader' = IF Loadable(authFile) THEN [pc |-> "swap", users |-> authFile.users] ELSE NotLoading
  /\ UNCHANGED <<userIndex, authFile, edit, edited, processVars, reloads>>

(* Variant: events that came while the file was read are taken with it.    *)
ReloadIndexTakesAll ==
  /\ Up /\ loader.pc = "swap"
  /\ userIndex' = Replaced(loader.users)
  /\ loader' = NotLoading /\ fileEvents' = 0
  /\ UNCHANGED <<authFile, edit, edited, processVars, reloads>>

ReloadIndex ==
  /\ Up /\ loader.pc = "swap"
  /\ userIndex' = Replaced(loader.users)
  /\ loader' = NotLoading
  /\ UNCHANGED <<authFile, fileEvents, edit, edited, processVars, reloads>>

(* The process ends, of itself where a map was changed while it was ranged *)
(* over.                                                                   *)
Kill ==
  /\ Up
  /\ killed < MaxKilled \/ \E r \in FileEditors : EditAt(r, "marshal") /\ edit[r].raced
  /\ server' = "down" /\ killed' = IF killed < MaxKilled THEN killed + 1 ELSE killed
  /\ fileEvents' = 0 /\ loader' = NotLoading
  /\ edit' = [r \in FileEditors |-> NoEdit]
  /\ userIndex' = [users |-> Nobody, map |-> 0]
  /\ UNCHANGED <<authFile, edited, reloads>>

(* NewServer fails with a file that it cannot load.                        *)
Start ==
  /\ ~Up /\ Loadable(authFile)
  /\ server' = "up" /\ userIndex' = Started(authFile) /\ reloads' = FALSE
  /\ UNCHANGED <<authFile, fileEvents, loader, edit, edited, killed>>

UserFileNext ==
  \/ \E r \in FileEditors : EditStep(r)
  \/ EditByHand
  \/ ReadFile \/ ReloadIndex
  \/ Kill \/ Start

UserFileSpec == UserFileInit /\ [][UserFileNext]_userFileVars

-----------------------------------------------------------------------------
(* The index, the file and the goroutines are where their code leaves them.*)
UserFileTypeOK ==
  /\ userIndex \in [users : Content, map : 0..Cardinality(FileEditors)]
  /\ authFile \in [users : Content, size : 0..Cardinality(FileUsers), whole : BOOLEAN]
  /\ fileEvents \in 0..MaxPending
  /\ loader \in [pc : {"watch", "swap"}, users : Content]
  /\ edit \in [FileEditors -> [pc : {"idle", "set", "range", "marshal", "truncate", "write", "answer"},
                           name : FileUsers, value : Setting, data : Content,
                           map : 0..Cardinality(FileEditors), raced : BOOLEAN]]
  /\ edited \in 0..MaxEdited /\ server \in {"up", "down"} /\ reloads \in BOOLEAN

(* "UserIndex is a reloadable user source" (share/settings/users.go:82):   *)
(* when no request and no reload is under way, the index is the file,      *)
(* whatever order requests, reloads and edits by hand took, provided the   *)
(* file was written since the start and can be loaded at all.              *)
QuietAgrees ==
  (/\ Up /\ reloads /\ fileEvents = 0 /\ loader.pc = "watch"
   /\ \A r \in FileEditors : edit[r].pc = "idle"
   /\ Loadable(authFile))
    => userIndex.users = authFile.users
=============================================================================
