------------------------------ MODULE LogFiles ------------------------------
(***************************************************************************)
(* The server's own log (server/log_manager.go, server_api_logs.go): the   *)
(* file chissl.log, the files it is rotated to, and the recent entries in  *)
(* memory.  WriteLog holds the mutex from its first step to its last; the  *)
(* process may stop between any two, and a call of the file system may     *)
(* fail, of which the code takes no notice.                                *)
(*                                                                         *)
(* An entry is its number; a rotated file is named after the second of the *)
(* rotation, in local time, which is also set back.                        *)
(***************************************************************************)
EXTENDS Integers, Sequences, FiniteSets, Functions

CONSTANTS
  MaxLogSize,    \* of a file, in entries
  MaxLogFiles,   \* rotated files that are kept
  MaxRecent,     \* entries that are kept in memory
  Seconds,       \* what the clock may show
  MaxEntries,    \* bound: entries
  MaxFaults      \* bound: calls that fail

ASSUME LogAssumption ==
  /\ MaxLogSize \in Nat /\ MaxLogFiles \in Nat /\ MaxRecent \in Nat
  /\ Seconds # {} /\ MaxEntries \in Nat /\ MaxFaults \in Nat

VARIABLES
  logPc,         \* where WriteLog is; "none" when there is no log manager
  entries,       \* entries so far
  logFile,       \* whether the file is open
  currentLog,    \* entries in chissl.log
  rotated,       \* second -> entries in chissl-<second>.log
  recentLogs,
  clearing,      \* a request has cleared the recent entries and will log it
  second,
  logFaults,
  filed,         \* history: entries that were written to a file,
  overwritten    \* and those in a file that a rename replaced

logVars == <<logPc, entries, logFile, currentLog, rotated, recentLogs, clearing, second,
             logFaults, filed, overwritten>>
diskVars == <<currentLog, rotated, filed, overwritten>>

Entries == 1..MaxEntries
Recent == INSTANCE EventLog WITH Events <- Entries, Cap <- MaxRecent, log <- recentLogs

LogInit ==
  /\ logPc = "idle" /\ entries = 0
  /\ logFile = TRUE /\ currentLog = {} /\ rotated = <<>>
  /\ Recent!Init /\ clearing = FALSE
  /\ second \in Seconds /\ logFaults = 0
  /\ filed = {} /\ overwritten = {}

LogGoes(from, to) == logPc = from /\ logPc' = to
Works == UNCHANGED logFaults
Fails == logFaults < MaxFaults /\ logFaults' = logFaults + 1

-----------------------------------------------------------------------------
(* WriteLog, with rotateLogFile and cleanupOldLogs.                        *)

WriteLog ==
  /\ LogGoes("idle", IF logFile THEN "write" ELSE "recent")
  /\ entries < MaxEntries /\ entries' = entries + 1
  /\ clearing' \in {clearing, FALSE}
  /\ UNCHANGED <<logFile, diskVars, recentLogs, second, logFaults>>

WriteString ==
  /\ LogGoes("write", "stat")
  /\ \/ Works /\ currentLog' = currentLog \cup {entries} /\ filed' = filed \cup {entries}
     \/ Fails /\ UNCHANGED <<currentLog, filed>>
  /\ UNCHANGED <<entries, logFile, rotated, recentLogs, clearing, second, overwritten>>

StatLog ==
  /\ \/ Works /\ LogGoes("stat", IF Cardinality(currentLog) > MaxLogSize THEN "rename" ELSE "recent")
     \/ Fails /\ LogGoes("stat", "recent")
  /\ UNCHANGED <<entries, logFile, diskVars, recentLogs, clearing, second>>

(* A second rotation in the same second replaces the file of the first.    *)
RenameLog ==
  /\ LogGoes("rename", "clean")
  /\ \/ /\ Works
        /\ rotated' = [s \in DOMAIN rotated \cup {second} |-> IF s = second THEN currentLog ELSE rotated[s]]
        /\ overwritten' = overwritten \cup UNION {rotated[s] : s \in DOMAIN rotated \cap {second}}
        /\ currentLog' = {}
     \/ Fails /\ UNCHANGED <<rotated, overwritten, currentLog>>
  /\ UNCHANGED <<entries, logFile, recentLogs, clearing, second, filed>>

(* The last write to a file, which is its time.                            *)
ModTime(s) == CHOOSE e \in rotated[s] : \A d \in rotated[s] : d <= e

Excess == Cardinality(DOMAIN rotated) - MaxLogFiles

(* Variant: the files are sorted by their names.                           *)
OldestByName == {s \in DOMAIN rotated : Cardinality({t \in DOMAIN rotated : t < s}) < Excess}

Oldest == {s \in DOMAIN rotated : Cardinality({t \in DOMAIN rotated : ModTime(t) < ModTime(s)}) < Excess}

(* A file that cannot be removed stays.                                    *)
CleanupOldLogs ==
  /\ LogGoes("clean", "open")
  /\ \/ Works /\ rotated' = Restrict(rotated, DOMAIN rotated \ Oldest)
     \/ Fails /\ \E gone \in SUBSET Oldest : gone # Oldest /\ rotated' = Restrict(rotated, DOMAIN rotated \ gone)
  /\ UNCHANGED <<entries, logFile, currentLog, recentLogs, clearing, second, filed, overwritten>>

(* Without a file WriteLog goes on in memory only, until the next start.   *)
OpenLogFile ==
  /\ LogGoes("open", "recent")
  /\ \/ Works /\ logFile' = TRUE
     \/ Fails /\ logFile' = FALSE
  /\ UNCHANGED <<entries, diskVars, recentLogs, clearing, second>>

AddRecent ==
  /\ LogGoes("recent", "idle")
  /\ Recent!Add(entries)
  /\ UNCHANGED <<entries, logFile, diskVars, clearing, second, logFaults>>

(* handleClearLogs, under the mutex; that it did so it logs afterwards.    *)
ClearLogs ==
  /\ logPc = "idle" /\ ~clearing
  /\ recentLogs' = <<>> /\ clearing' = TRUE
  /\ UNCHANGED <<logPc, entries, logFile, diskVars, second, logFaults>>

CloseLog ==
  /\ logPc = "idle" /\ logFile' = FALSE
  /\ UNCHANGED <<logPc, entries, diskVars, recentLogs, clearing, second, logFaults>>

(* The process stops anywhere, and starts: without a log manager when the  *)
(* file cannot be opened.                                                  *)
NewLogManager ==
  /\ \/ Works /\ logPc' = "idle" /\ logFile' = TRUE
     \/ Fails /\ logPc' = "none" /\ logFile' = FALSE
  /\ recentLogs' = <<>> /\ clearing' = FALSE
  /\ UNCHANGED <<entries, diskVars, second>>

ClockTurns ==
  /\ second' \in Seconds
  /\ UNCHANGED <<logPc, entries, logFile, diskVars, recentLogs, clearing, logFaults>>

LogStep ==
  \/ WriteLog \/ WriteString \/ StatLog
  \/ RenameLog \/ CleanupOldLogs \/ OpenLogFile \/ AddRecent
  \/ ClearLogs \/ CloseLog

LogNext == LogStep \/ NewLogManager \/ ClockTurns

LogSpec == LogInit /\ [][LogNext]_logVars

-----------------------------------------------------------------------------
(* The file, its rotations and the recent entries hold what was logged.    *)
LogTypeOK ==
  /\ logPc \in {"idle", "write", "stat", "rename", "clean", "open", "recent", "none"}
  /\ currentLog \subseteq 1..entries /\ entries \in 0..MaxEntries
  /\ DOMAIN rotated \subseteq Seconds /\ \A s \in DOMAIN rotated : rotated[s] \subseteq 1..entries /\ rotated[s] # {}
  /\ recentLogs \in Seq(1..entries) /\ Len(recentLogs) <= MaxRecent

OnDisk == currentLog \cup UNION {rotated[s] : s \in DOMAIN rotated}

(* "Remove oldest files" (server/log_manager.go:164), through failures,    *)
(* ends of the process and a clock that is set back: an entry that was     *)
(* written and is in no file any more has as many rotated files after it as*)
(* are kept, unless a rotation of the same second replaced its file.       *)
OnlyOldestGo ==
  \A e \in filed \ (OnDisk \cup overwritten) :
    MaxLogFiles <= Cardinality({s \in DOMAIN rotated : \A d \in rotated[s] : d > e})
=============================================================================
