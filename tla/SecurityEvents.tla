--------------------------- MODULE SecurityEvents ---------------------------
(***************************************************************************)
(* Security events (server/server.go, server_api_security.go,              *)
(* share/database/security_events.go, security_webhooks.go): whoever finds *)
(* a login locked or an address banned records an event, which is a row, a *)
(* place in a bounded buffer, and a call of every enabled webhook.         *)
(*                                                                         *)
(* Events are numbered in the order in which their recording begins.  The  *)
(* recorder holds the mutex of what it has found, not that of the buffer.  *)
(***************************************************************************)
EXTENDS Integers, Sequences, FiniteSets

CONSTANTS
  Recorders,    \* backoffMu and ipRateMu: whoever records holds one of them
  Editors,      \* requests that change webhooks
  BufferCap,    \* events the buffer keeps
  MaxEvents,    \* bound: events recorded
  MaxEdits      \* bound: requests about webhooks

ASSUME SecurityAssumption == BufferCap \in Nat \ {0} /\ MaxEvents \in Nat /\ MaxEdits \in Nat

VARIABLES
  recorder,     \* where each recorder is, and its event
  begun,        \* number of events begun
  history,      \* events in the order of their inserts into security_events,
                \* which may fail and nobody looks
  buffer,       \* securityEvents
  listing,      \* events whose dispatcher has not listed the webhooks yet
  posts,        \* <<hook, event>> on their way
  hooks,        \* the table: whether each webhook there is is enabled
  editor,       \* the requests
  edits,        \* number of requests
  goneAt        \* history: a hook that was deleted -> events begun by then

securityVars == <<recorder, begun, history, buffer, listing, posts, hooks, editor, edits, goneAt>>

Events == 1..MaxEvents
NotRecording == [pc |-> "idle", event |-> 0]
NotEditing == [pc |-> "idle"]

(* What the buffer is, and how it is appended to.                          *)
BufferLog == INSTANCE EventLog WITH Cap <- BufferCap, log <- buffer

SecurityInit ==
  /\ recorder = [r \in Recorders |-> NotRecording]
  /\ begun = 0 /\ history = <<>> /\ buffer = <<>>
  /\ listing = {} /\ posts = {}
  /\ hooks = <<>> /\ goneAt = <<>>
  /\ editor = [a \in Editors |-> NotEditing]
  /\ edits = 0

-----------------------------------------------------------------------------
(* recordSecurityEvent.                                                    *)

hookVars == <<posts, hooks, editor, edits, goneAt>>

Recording(r) == recorder[r].pc # "idle"

Report(r) ==
  /\ ~Recording(r) /\ begun < MaxEvents
  /\ begun' = begun + 1
  /\ recorder' = [recorder EXCEPT ![r] = [pc |-> "insert", event |-> begun + 1]]
  /\ UNCHANGED <<history, buffer, listing, hookVars>>

InsertEvent(r) ==
  /\ recorder[r].pc = "insert"
  /\ history' = Append(history, recorder[r].event)
  /\ recorder' = [recorder EXCEPT ![r].pc = "append"]
  /\ UNCHANGED <<begun, buffer, listing, hookVars>>

(* Variant: the buffer is cut from the wrong end.                          *)
AppendOldest(r) ==
  /\ recorder[r].pc = "append"
  /\ buffer' = LET b == Append(buffer, recorder[r].event)
               IN IF Len(b) > BufferCap THEN SubSeq(b, 1, BufferCap) ELSE b
  /\ listing' = listing \cup {recorder[r].event}
  /\ recorder' = [recorder EXCEPT ![r] = NotRecording]
  /\ UNCHANGED <<begun, history, hookVars>>

(* Under the mutex of the buffer; then the dispatcher's goroutine starts.  *)
AppendEvent(r) ==
  /\ recorder[r].pc = "append"
  /\ BufferLog!Add(recorder[r].event)
  /\ listing' = listing \cup {recorder[r].event}
  /\ recorder' = [recorder EXCEPT ![r] = NotRecording]
  /\ UNCHANGED <<begun, history, hookVars>>

EnabledHooks == {h \in DOMAIN hooks : hooks[h]}

(* dispatchSecurityEvent: one goroutine for each webhook that is enabled,  *)
(* and none when they cannot be listed.                                    *)
Dispatch(e) ==
  /\ e \in listing
  /\ listing' = listing \ {e}
  /\ posts' \in {posts, posts \cup EnabledHooks \X {e}}
  /\ UNCHANGED <<recorder, begun, history, buffer, hooks, editor, edits, goneAt>>

(* sendSecurityEventToWebhook: once, answered or not within three seconds. *)
Post(p) ==
  /\ p \in posts
  /\ posts' = posts \ {p}
  /\ UNCHANGED <<recorder, begun, history, buffer, listing, hooks, editor, edits, goneAt>>

RecorderStep(r) == InsertEvent(r) \/ AppendEvent(r)
PostStep == \E p \in posts : Post(p)

-----------------------------------------------------------------------------
(* The requests about webhooks.                                            *)

Edited(a, pc) == editor[a].pc = pc /\ editor' = [editor EXCEPT ![a] = NotEditing]
eventVars == <<recorder, begun, history, buffer, listing, posts>>

(* Ids are never given twice: here, the number of the request.             *)
CreateSecurityWebhook(a) ==
  /\ editor[a].pc = "idle" /\ edits < MaxEdits
  /\ \E on \in BOOLEAN :
       hooks' = [h \in DOMAIN hooks \cup {edits + 1} |-> IF h = edits + 1 THEN on ELSE hooks[h]]
  /\ edits' = edits + 1
  /\ UNCHANGED <<eventVars, editor, goneAt>>

(* The request is merged with the row that is there: a field it leaves out *)
(* is the row's, except enabled, which is false.                           *)
ReadWebhook(a) ==
  /\ editor[a].pc = "idle" /\ edits < MaxEdits
  /\ \E h \in DOMAIN hooks, on \in BOOLEAN :
       editor' = [editor EXCEPT ![a] = [pc |-> "write", hook |-> h, enabled |-> on]]
  /\ edits' = edits + 1
  /\ UNCHANGED <<eventVars, hooks, goneAt>>

(* Variant: a row that is gone is inserted again.                          *)
UpsertSecurityWebhook(a) ==
  /\ Edited(a, "write")
  /\ hooks' = [h \in DOMAIN hooks \cup {editor[a].hook} |->
                IF h = editor[a].hook THEN editor[a].enabled ELSE hooks[h]]
  /\ UNCHANGED <<eventVars, edits, goneAt>>

(* An UPDATE of a row that is gone changes nothing.                        *)
UpdateSecurityWebhook(a) ==
  /\ Edited(a, "write")
  /\ hooks' = [h \in DOMAIN hooks |-> IF h = editor[a].hook THEN editor[a].enabled ELSE hooks[h]]
  /\ UNCHANGED <<eventVars, edits, goneAt>>

DeleteSecurityWebhook(a) ==
  /\ editor[a].pc = "idle" /\ edits < MaxEdits
  /\ \E h \in DOMAIN hooks :
       /\ hooks' = [g \in DOMAIN hooks \ {h} |-> hooks[g]]
       /\ goneAt' = [g \in DOMAIN goneAt \cup {h} |-> IF g = h THEN begun ELSE goneAt[g]]
  /\ edits' = edits + 1
  /\ UNCHANGED <<eventVars, editor>>

EditorStep(a) ==
  \/ CreateSecurityWebhook(a)
  \/ ReadWebhook(a)
  \/ UpdateSecurityWebhook(a)
  \/ DeleteSecurityWebhook(a)

SecurityNext ==
  \/ \E r \in Recorders : Report(r) \/ RecorderStep(r)
  \/ \E e \in Events : Dispatch(e)
  \/ PostStep
  \/ \E a \in Editors : EditorStep(a)

SecuritySpec == SecurityInit /\ [][SecurityNext]_securityVars

-----------------------------------------------------------------------------
(* The events are where recordSecurityEvent and its dispatcher put them.   *)
SecurityTypeOK ==
  /\ recorder \in [Recorders -> [pc : {"idle", "insert", "append"}, event : 0..MaxEvents]]
  /\ begun \in 0..MaxEvents
  /\ history \in Seq(Events) /\ buffer \in Seq(Events) /\ Len(buffer) <= BufferCap
  /\ listing \subseteq Events
  /\ posts \subseteq (1..MaxEdits) \X Events
  /\ DOMAIN hooks \subseteq 1..MaxEdits /\ \A h \in DOMAIN hooks : hooks[h] \in BOOLEAN
  /\ edits \in 0..MaxEdits

OnItsWay(e) == \E r \in Recorders : recorder[r].pc = "append" /\ recorder[r].event = e
Buffered(e) == \E i \in 1..Len(buffer) : buffer[i] = e

(* Row and place in the buffer are two critical sections, and events may   *)
(* pass each other between them.  But only one per mutex: of the newest by *)
(* their inserts, as many as the buffer holds less one for each other      *)
(* recorder, none is missing from the buffer unless it is on its way there.*)
NewestBuffered ==
  \A i \in 1..Len(history) :
    Len(history) - i < BufferCap - (Cardinality(Recorders) - 1)
      => Buffered(history[i]) \/ OnItsWay(history[i])

(* A webhook that is deleted stays deleted, whatever updates of it were    *)
(* under way (handleUpdateSecurityWebhook reads and writes apart): it hears*)
(* of nothing that is recorded after its deletion.                         *)
DeletedHookIsSilent ==
  \A p \in posts : p[1] \in DOMAIN goneAt => p[2] <= goneAt[p[1]]
=============================================================================
