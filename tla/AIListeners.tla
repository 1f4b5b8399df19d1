----------------------------- MODULE AIListeners ----------------------------
(***************************************************************************)
(* Listeners that answer with what an AI provider has generated            *)
(* (server/server_api_ai.go, share/database/ai_providers.go): the versions *)
(* of the responses, the goroutines that generate them, and the requests   *)
(* that create, regenerate and activate versions, on top of Listeners.     *)
(*                                                                         *)
(* A generation reads its version's row, calls the provider for as long as *)
(* that takes, and writes the whole row back, the column is_active too.    *)
(***************************************************************************)
EXTENDS Listeners, Sequences

CONSTANTS
  MaxVersions   \* bound: versions in the table

ASSUME VersionsAssumption == MaxVersions \in Nat

VARIABLES
  versions,   \* ai_response_versions, in the order of the inserts
  gen,        \* version -> where the goroutine that generates it is, and its
              \* copy of is_active
  byHand      \* history: a version was activated by a request

vars == <<listenerVars, versions, gen, byHand>>

Version(i, n, active) ==
  [of |-> i, number |-> n, status |-> "pending", active |-> active]

(* activates: generateAndActivateVersion, not the first generation.        *)
Generation(activates) == [pc |-> "read", active |-> FALSE, activates |-> activates]

VersionsOf(i) == {v \in DOMAIN versions : versions[v].of = i}
Highest(V) == {v \in V : \A u \in V : versions[u].number <= versions[v].number}

Init == ListenersInit /\ versions = <<>> /\ gen = <<>> /\ byHand = FALSE

-----------------------------------------------------------------------------
(* The goroutine that generates version v.                                 *)

GenGoes(v, from, to) == gen[v].pc = from /\ gen' = [gen EXCEPT ![v].pc = to]
Writes(v, status) ==
  versions' = [versions EXCEPT ![v].status = status, ![v].active = gen[v].active]

ReadVersion(v) ==
  /\ gen[v].pc = "read"
  /\ gen' = [gen EXCEPT ![v] = [pc |-> "mark", active |-> versions[v].active,
                               activates |-> gen[v].activates]]
  /\ UNCHANGED <<listenerVars, versions, byHand>>

MarkGenerating(v) ==
  /\ GenGoes(v, "mark", "ask")
  /\ Writes(v, "generating")
  /\ UNCHANGED <<listenerVars, byHand>>

(* The provider answers, or there is none, or the answer is not what it    *)
(* should be.                                                              *)
Answer(v) ==
  /\ GenGoes(v, "ask", "succeeded") \/ GenGoes(v, "ask", "failed")
  /\ UNCHANGED <<listenerVars, versions, byHand>>

StoreResponses(v) ==
  /\ GenGoes(v, "succeeded", "open")
  /\ Writes(v, "success")
  /\ UNCHANGED <<listenerVars, byHand>>

(* Variant: a generation that fails says so to the log only.               *)
FailSilently(v) ==
  /\ GenGoes(v, "failed", IF gen[v].activates THEN "check" ELSE "done")
  /\ UNCHANGED <<listenerVars, versions, byHand>>

StoreError(v) ==
  /\ GenGoes(v, "failed", IF gen[v].activates THEN "check" ELSE "done")
  /\ Writes(v, "failed")
  /\ UNCHANGED <<listenerVars, byHand>>

(* "Activate the listener now that responses are ready": the row says      *)
(* open, whether its server runs or not.                                   *)
OpenListener(v) ==
  /\ GenGoes(v, "open", IF gen[v].activates THEN "check" ELSE "done")
  /\ Save(versions[v].of, "open")
  /\ UNCHANGED <<port, manager, lock, req, ops, restarts, versions, byHand>>

(* SetActiveAIResponseVersion, one transaction: every version of listener  *)
(* i becomes inactive, then v, whichever listener it is of, active.        *)
SetActive(i, v) ==
  versions' = [u \in DOMAIN versions |->
                 [versions[u] EXCEPT !.active = u = v \/ (@ /\ versions[u].of # i)]]

(* Variant: the status of the generation is not looked at.                 *)
ActivateUnchecked(v) ==
  /\ GenGoes(v, "check", "done")
  /\ SetActive(versions[v].of, v)
  /\ UNCHANGED <<listenerVars, byHand>>

ActivateGenerated(v) ==
  /\ GenGoes(v, "check", "done")
  /\ IF versions[v].status = "success"
     THEN SetActive(versions[v].of, v)
     ELSE UNCHANGED versions
  /\ UNCHANGED <<listenerVars, byHand>>

GenerationStep(v) ==
  \/ ReadVersion(v) \/ MarkGenerating(v) \/ Answer(v)
  \/ StoreResponses(v) \/ StoreError(v) \/ OpenListener(v) \/ ActivateGenerated(v)

-----------------------------------------------------------------------------
(* Requests.                                                               *)

AddVersion(i, n, active) ==
  /\ Len(versions) < MaxVersions
  /\ versions' = Append(versions, Version(i, n, active))
  /\ gen' = Append(gen, Generation(~active))

(* The handler that creates an AI listener inserts the listener, then its  *)
(* first version, which is active from the start, and starts the server.   *)
CreateAIListener(r) == \E i \in Ids, p \in Ports : Insert(r, i, p, "first version")

CreateFirstVersion(r) ==
  /\ req[r].pc = "first version"
  /\ AddVersion(req[r].id, 1, TRUE)
  /\ Goes(r, "start")
  /\ UNCHANGED <<table, manager, lock, ops, restarts, byHand>>

(* A forced regeneration takes the next number after the highest it reads, *)
(* in a statement of its own.                                              *)
ReadVersions(r) ==
  /\ Arrives(r)
  /\ \E i \in Ids : \E v \in Highest(VersionsOf(i)) :
       req' = [req EXCEPT ![r] = At("regenerate", i, versions[v].number + 1)]
  /\ UNCHANGED <<table, manager, lock, restarts, versions, gen, byHand>>

CreateVersion(r) ==
  /\ req[r].pc = "regenerate"
  /\ AddVersion(req[r].id, req[r].arg, FALSE)
  /\ Ends(r)
  /\ UNCHANGED <<table, manager, lock, ops, restarts, byHand>>

(* The version asked for is not looked at: any id will do.                 *)
ActivateVersion(r) ==
  /\ Arrives(r)
  /\ \E i \in Ids, v \in DOMAIN versions : VersionsOf(i) # {} /\ SetActive(i, v)
  /\ byHand' = TRUE
  /\ UNCHANGED <<table, manager, lock, req, restarts, gen>>

AIRequestArrives(r) == CreateAIListener(r) /\ UNCHANGED <<versions, gen, byHand>>
AIRequestStep(r) == CreateFirstVersion(r) \/ CreateVersion(r)

(* The generations of the process that ended are not taken up again.       *)
RestartAll ==
  /\ Restart
  /\ gen' = [v \in DOMAIN gen |-> [gen[v] EXCEPT !.pc = "lost"]]
  /\ UNCHANGED <<versions, byHand>>

AIStep ==
  \/ \E v \in DOMAIN versions : GenerationStep(v)
  \/ \E r \in Requests :
       AIRequestArrives(r) \/ AIRequestStep(r) \/ ReadVersions(r) \/ ActivateVersion(r)
  \/ RestartAll

Next == AIStep \/ (ListenersStep /\ UNCHANGED <<versions, gen, byHand>>)

Spec == Init /\ [][Next]_vars

(* The goroutines of the servers, of the generations and of the requests   *)
(* run, and a call of the provider ends: its client has a timeout.         *)
Fairness ==
  /\ \A i \in Ids :
       WF_vars((Listen(i) \/ ListenFails(i) \/ SaveOpen(i) \/ SaveError(i) \/ ServeEnds(i))
                 /\ UNCHANGED <<versions, gen, byHand>>)
  /\ \A v \in 1..MaxVersions : WF_vars(v \in DOMAIN versions /\ GenerationStep(v))

FairSpec == Spec /\ Fairness

-----------------------------------------------------------------------------
(* Properties.                                                             *)

TypeOK ==
  /\ ListenersTypeOK
  /\ Len(versions) <= MaxVersions /\ DOMAIN gen = DOMAIN versions
  /\ \A v \in DOMAIN versions :
       /\ versions[v].of \in Ids
       /\ versions[v].number \in 1..MaxVersions
       /\ versions[v].status \in {"pending", "generating", "success", "failed"}
       /\ versions[v].active \in BOOLEAN

(* What GetActiveAIResponseVersion may choose for an answer of listener i. *)
Chosen(i) == Highest({v \in VersionsOf(i) : versions[v].active})
Answers(i) == Chosen(i) # {} /\ \A v \in Chosen(i) : versions[v].status = "success"

(* A listener that has answers keeps answering, through regenerations that *)
(* fail, that overtake each other or that a restart has cut short, until a *)
(* request activates a version by hand.                                    *)
KeepsAnswering == [][\A i \in Ids : Answers(i) /\ ~byHand' => Answers(i)']_vars

(* As long as the process runs, every generation that has begun ends with  *)
(* a version that says success or failed.                                  *)
GenerationSettles ==
  \A v \in 1..MaxVersions :
    (v \in DOMAIN versions) ~>
      /\ v \in DOMAIN versions
      /\ versions[v].status \in {"success", "failed"} \/ gen[v].pc = "lost"
=============================================================================
