---------------------------- MODULE CaptureStore ----------------------------
(***************************************************************************)
(* Persistence of captured events, server/capture/capture.go: one tunnel's *)
(* directory, its ring, the tap goroutines that append to the rotating     *)
(* file of their connection, the retention sweep, and the restart that     *)
(* loads the ring back.  appendJSONL holds no lock, so every file-system   *)
(* call is a step of its own.                                              *)
(*                                                                         *)
(* An event is its time stamp.  A file is an inode, a sequence of events   *)
(* all of one length; a name is <<connection, suffix>>, suffix 0 standing  *)
(* for ".log" and i for ".log.i".                                          *)
(***************************************************************************)
EXTENDS Integers, Sequences, FiniteSets, SequencesExt

CONSTANTS
  Writers,     \* tap goroutines
  Conns,       \* connection ids
  ConnOf,      \* the connection each writer captures
  StoreCap,    \* the capacity of the ring
  Rotate,      \* rotateBytes, in events
  Retention,   \* retentionDays, in ticks of the clock; 0 keeps everything
  MaxEvents    \* bound: how many events are stamped

ASSUME StoreAssumption ==
  /\ ConnOf \in [Writers -> Conns]
  /\ Rotate \in Nat /\ Retention \in Nat /\ MaxEvents \in Nat /\ StoreCap \in Nat

VARIABLES
  held,      \* the ring, as its readers see it
  now,       \* the clock: the stamp of the newest event
  dir,       \* the directory: name -> inode
  data,      \* inode -> events in it
  mtime,     \* inode -> time of its last write
  pc, ev, fd, atEnd, sfx,   \* per writer: where it is, its event, its file,
                            \* whether it appends, the suffix it chose
  victim,    \* the name the sweep has found old and will remove
  stored,    \* history: the events a writer has written
  swept,     \* history: the inodes the sweep has removed
  overlapped \* history: a file was being rotated with another writer on it

storeVars == <<held, now, dir, data, mtime, pc, ev, fd, atEnd, sfx, victim, stored, swept,
          overlapped>>
files == <<dir, data, mtime>>
writer == <<pc, ev, fd, atEnd, sfx>>

(* The ring (Ring implements it).                                          *)
Held == INSTANCE EventLog WITH Events <- 1..MaxEvents, Cap <- StoreCap, log <- held

Names == Conns \X Nat
None == <<>>
Base(w) == <<ConnOf[w], 0>>
SuffixesOf(c) == {n[2] : n \in {m \in DOMAIN dir : m[1] = c}}
InFiles(N) == UNION {ToSet(data[dir[n]]) : n \in N}

StoreInit ==
  /\ Held!Init /\ now = 0
  /\ dir = <<>> /\ data = <<>> /\ mtime = <<>>
  /\ pc = [w \in Writers |-> "idle"]
  /\ ev = [w \in Writers |-> 0]
  /\ fd = [w \in Writers |-> 0]
  /\ atEnd = [w \in Writers |-> TRUE]
  /\ sfx = [w \in Writers |-> 0]
  /\ victim = None /\ stored = {} /\ swept = {} /\ overlapped = FALSE

Goto(w, from, to) == pc[w] = from /\ pc' = [pc EXCEPT ![w] = to]

(* dirWriter.Write stamps the event before it calls AddEvent.              *)
Stamp(w) ==
  /\ Goto(w, "idle", "add")
  /\ now < MaxEvents
  /\ now' = now + 1
  /\ ev' = [ev EXCEPT ![w] = now']
  /\ UNCHANGED <<held, files, fd, atEnd, sfx, victim, stored, swept>>

(* AddEvent: the ring first, then the file.                                *)
AddEvent(w) ==
  /\ Goto(w, "add", "open")
  /\ Held!Add(ev[w])
  /\ UNCHANGED <<now, files, ev, fd, atEnd, sfx, victim, stored, swept>>

(* The inode an O_CREATE open of the base name yields.                     *)
Create(w) ==
  /\ Base(w) \notin DOMAIN dir
  /\ data' = Append(data, <<>>)
  /\ mtime' = Append(mtime, now)
  /\ dir' = [n \in DOMAIN dir \cup {Base(w)} |->
               IF n = Base(w) THEN Len(data) + 1 ELSE dir[n]]
  /\ fd' = [fd EXCEPT ![w] = Len(data) + 1]

OpenExisting(w) ==
  /\ Base(w) \in DOMAIN dir
  /\ fd' = [fd EXCEPT ![w] = dir[Base(w)]]
  /\ UNCHANGED files

Open(w) ==
  /\ Goto(w, "open", "stat")
  /\ OpenExisting(w) \/ Create(w)
  /\ atEnd' = [atEnd EXCEPT ![w] = TRUE]
  /\ UNCHANGED <<held, now, ev, sfx, victim, stored, swept>>

StatSize(w) ==
  /\ Goto(w, "stat", IF Len(data[fd[w]]) >= Rotate THEN "suffix" ELSE "write")
  /\ UNCHANGED <<held, now, files, ev, fd, atEnd, sfx, victim, stored, swept>>

(* Variant: the search for a suffix stops at the first one, free or not.   *)
FindSuffixBlind(w) ==
  /\ Goto(w, "suffix", "rename")
  /\ sfx' = [sfx EXCEPT ![w] = 1]
  /\ UNCHANGED <<held, now, files, ev, fd, atEnd, victim, stored, swept>>

(* The loop over .log.1, .log.2, ... up to the first free name; the rename *)
(* comes later, and may by then overwrite.                                 *)
FindSuffix(w) ==
  /\ Goto(w, "suffix", "rename")
  /\ LET taken == SuffixesOf(ConnOf[w]) IN
     sfx' = [sfx EXCEPT ![w] = CHOOSE i \in 1..(Cardinality(taken) + 1) :
               i \notin taken /\ \A j \in 1..(i - 1) : j \in taken]
  /\ UNCHANGED <<held, now, files, ev, fd, atEnd, victim, stored, swept>>

(* The error of the rename, when another writer moved the file away first, *)
(* is ignored.                                                             *)
Rename(w) ==
  /\ Goto(w, "rename", "reopen")
  /\ LET rot == <<ConnOf[w], sfx[w]>> IN
     dir' = IF Base(w) \in DOMAIN dir
            THEN [n \in (DOMAIN dir \ {Base(w)}) \cup {rot} |->
                    IF n = rot THEN dir[Base(w)] ELSE dir[n]]
            ELSE dir
  /\ UNCHANGED <<held, now, data, mtime, ev, fd, atEnd, sfx, victim, stored, swept>>

(* O_TRUNC empties a file that is there, and without O_APPEND this writer  *)
(* will write at its start.                                                *)
Reopen(w) ==
  /\ Goto(w, "reopen", "write")
  /\ \/ Create(w)
     \/ /\ Base(w) \in DOMAIN dir
        /\ fd' = [fd EXCEPT ![w] = dir[Base(w)]]
        /\ data' = [data EXCEPT ![dir[Base(w)]] = <<>>]
        /\ mtime' = [mtime EXCEPT ![dir[Base(w)]] = now]
        /\ UNCHANGED dir
  /\ atEnd' = [atEnd EXCEPT ![w] = FALSE]
  /\ UNCHANGED <<held, now, ev, sfx, victim, stored, swept>>

(* At the start of a file that is not empty the line lands on the first.   *)
Write(w) ==
  /\ Goto(w, "write", "idle")
  /\ data' = [data EXCEPT ![fd[w]] =
                IF atEnd[w] \/ @ = <<>> THEN Append(@, ev[w]) ELSE [@ EXCEPT ![1] = ev[w]]]
  /\ mtime' = [mtime EXCEPT ![fd[w]] = now]
  /\ stored' = stored \cup {ev[w]}
  /\ UNCHANGED <<held, now, dir, ev, fd, atEnd, sfx, victim, swept>>

(* cleanup: filepath.Walk reads a file's time, the callback removes the    *)
(* name; the file may have been written, or replaced, in between.          *)
FindOld(n) ==
  /\ Retention > 0 /\ victim = None
  /\ mtime[dir[n]] + Retention < now
  /\ victim' = n
  /\ UNCHANGED <<held, now, files, writer, stored, swept>>

RemoveOld ==
  /\ victim # None
  /\ dir' = [n \in DOMAIN dir \ {victim} |-> dir[n]]
  /\ swept' = swept \cup {dir[n] : n \in {victim} \cap DOMAIN dir}
  /\ victim' = None
  /\ UNCHANGED <<held, now, data, mtime, writer, stored>>

(* loadPersistedData: the events of the ".log" files, most recent first,   *)
(* at most as many as the new ring holds, added in that order.             *)
LiveFiles == {n \in DOMAIN dir : n[2] = 0}
NewestFirst ==
  LET loaded == InFiles(LiveFiles) IN
  [i \in 1..Cardinality(loaded) |->
     CHOOSE e \in loaded : Cardinality({d \in loaded : d > e}) = i - 1]

(* Variant: everything in the files is loaded.                             *)
LoadAll == NewestFirst

Load ==
  LET m == IF Len(NewestFirst) < StoreCap THEN Len(NewestFirst) ELSE StoreCap
  IN  SubSeq(NewestFirst, 1, m)

(* The process stops wherever its goroutines are, and starts again.        *)
Restart ==
  /\ held' = Load
  /\ pc' = [w \in Writers |-> "idle"]
  /\ ev' = [w \in Writers |-> 0]
  /\ fd' = [w \in Writers |-> 0]
  /\ atEnd' = [w \in Writers |-> TRUE]
  /\ sfx' = [w \in Writers |-> 0]
  /\ victim' = None
  /\ UNCHANGED <<now, files, stored, swept>>

Step ==
  \/ \E w \in Writers :
       \/ Stamp(w) \/ AddEvent(w) \/ Open(w) \/ StatSize(w)
       \/ FindSuffix(w) \/ Rename(w) \/ Reopen(w) \/ Write(w)
  \/ \E n \in DOMAIN dir : FindOld(n)
  \/ RemoveOld
  \/ Restart

(* A writer rotates, up to its first line in the new file, while another   *)
(* of the same connection has the file open.                               *)
Rotating(w) == pc[w] \in {"suffix", "rename", "reopen"} \/ (pc[w] = "write" /\ ~atEnd[w])
Overlap ==
  \E w, v \in Writers :
    /\ w # v /\ ConnOf[w] = ConnOf[v]
    /\ Rotating(w) /\ pc[v] \notin {"idle", "add", "open"}

StoreNext == Step /\ overlapped' = (overlapped \/ Overlap')

StoreSpec == StoreInit /\ [][StoreNext]_storeVars

(* Variant: the lowest suffix counts as the latest.                        *)
EarliestLogFile(c) == <<c, CHOOSE i \in SuffixesOf(c) : \A j \in SuffixesOf(c) : i <= j>>

LatestLogFile(c) ==
  IF 0 \in SuffixesOf(c) THEN <<c, 0>>
  ELSE <<c, CHOOSE i \in SuffixesOf(c) : \A j \in SuffixesOf(c) : j <= i>>

-----------------------------------------------------------------------------
(* Properties.                                                             *)

(* Names, files and writers are what appendJSONL and the sweep make.       *)
StoreTypeOK ==
  /\ now \in 0..MaxEvents
  /\ DOMAIN dir \subseteq Names
  /\ \A n \in DOMAIN dir : dir[n] \in DOMAIN data
  /\ Len(mtime) = Len(data)
  /\ \A i \in DOMAIN data : ToSet(data[i]) \subseteq 1..now /\ mtime[i] <= now
  /\ pc \in [Writers -> {"idle", "add", "open", "stat", "suffix", "rename",
                         "reopen", "write"}]
  /\ \A w \in Writers : fd[w] \in 0..Len(data) /\ sfx[w] \in Nat
  /\ Len(held) <= StoreCap

(* "appends event as a JSON line into per-connection rotating file": what  *)
(* a writer has written stays in one of the tunnel's files, through every  *)
(* rotation and restart, until the sweep removes that file; both           *)
(* directions of a connection may append at once, but only as long as no   *)
(* rotation meets the other writer.                                        *)
Kept ==
  overlapped \/
  stored \subseteq InFiles(DOMAIN dir) \cup UNION {ToSet(data[i]) : i \in swept}

(* LatestLogFile: "the latest file path for a given connection": no other  *)
(* file of the connection was written later.  It takes the suffixes to be  *)
(* in the order of time, which ends with the first file swept.             *)
LatestIsLatest ==
  swept = {} /\ ~overlapped =>
    \A c \in Conns : \A i \in SuffixesOf(c) :
      mtime[dir[<<c, i>>]] <= mtime[dir[LatestLogFile(c)]]
=============================================================================
