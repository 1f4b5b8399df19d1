------------------------- MODULE AIListeners_proofs -------------------------
(***************************************************************************)
(* Answers of AI listeners, for any number of listeners, versions and      *)
(* generations, across restarts: KeepsAnswering.                           *)
(*                                                                         *)
(* A generation writes back an is_active it has read long before.  What    *)
(* makes that harmless is who can write what: a generation that activates  *)
(* its version has read FALSE and writes nothing after it has activated    *)
(* it; only the first version of a listener can be made active again by    *)
(* an old copy, and it has the lowest number.                              *)
(***************************************************************************)
EXTENDS Listeners_proofs

VersionSet == [of : Ids, number : Nat, active : BOOLEAN,
               status : {"pending", "generating", "success", "failed"}]
GenSet == [pc : {"read", "mark", "ask", "succeeded", "failed", "open", "check", "done", "lost"},
           active : BOOLEAN, activates : BOOLEAN]

VersionsTyped ==
  /\ versions \in Seq(VersionSet) /\ gen \in Seq(GenSet)
  /\ Len(gen) = Len(versions)

(* What is known of version v and its generation.                          *)
VersionShape(v) ==
  /\ versions[v].number >= 1
  /\ gen[v].activates <=> versions[v].number >= 2
  /\ port[versions[v].of] \in Ports
  /\ versions[v].status = "success" => gen[v].pc \in {"open", "check", "done", "lost"}
  /\ gen[v].pc = "check" => gen[v].activates

(* Until a request activates a version, only a generation does, last.      *)
ByGeneration(v) ==
  ~byHand /\ gen[v].activates =>
    /\ ~gen[v].active
    /\ versions[v].active => versions[v].status = "success" /\ gen[v].pc \in {"done", "lost"}

HasVersion(i) == \E v \in DOMAIN versions : versions[v].of = i

(* A listener has one first version, the request that creates it holds the *)
(* listener alone, and a regeneration adds a later one.                    *)
FirstUnique ==
  \A u, v \in DOMAIN versions :
    versions[u].of = versions[v].of /\ versions[u].number = 1 /\ versions[v].number = 1 => u = v

FirstPending(r) ==
  req[r].pc = "first version" =>
    /\ ~HasVersion(req[r].id)
    /\ \A q \in Requests : req[q].pc = "first version" /\ req[q].id = req[r].id => q = r

Regenerating(r) ==
  req[r].pc = "regenerate" =>
    req[r].arg \in Nat /\ req[r].arg >= 2 /\ HasVersion(req[r].id)

OneFirst == FirstUnique /\ \A r \in Requests : FirstPending(r) /\ Regenerating(r)

VInv ==
  /\ VersionsTyped /\ OneFirst
  /\ \A v \in DOMAIN versions : VersionShape(v) /\ ByGeneration(v)

-----------------------------------------------------------------------------
(* How the rows of the versions change.                                    *)

(* The table of the versions and the generations as sequences of one       *)
(* length.                                                                 *)
LEMMA Typed ==
  ASSUME VersionsTyped
  PROVE  /\ DOMAIN gen = DOMAIN versions /\ DOMAIN versions = 1..Len(versions)
         /\ Len(versions) \in Nat
         /\ \A v \in DOMAIN versions : versions[v] \in VersionSet /\ gen[v] \in GenSet
BY DEF VersionsTyped

(* The fields of a row of ai_response_versions.                            *)
LEMMA VersionFields ==
  \A w \in VersionSet : /\ w.of \in Ids /\ w.number \in Nat /\ w.active \in BOOLEAN
                        /\ w.status \in {"pending", "generating", "success", "failed"}
BY DEF VersionSet

(* The two flags a generation holds.                                       *)
LEMMA GenFields ==
  \A g \in GenSet : g.active \in BOOLEAN /\ g.activates \in BOOLEAN
BY DEF GenSet

(* An UPDATE of a version's row, with the old is_active.                   *)
LEMMA WritesRow ==
  ASSUME VersionsTyped, NEW v \in DOMAIN versions,
         NEW status \in {"generating", "success", "failed"}, Writes(v, status)
  PROVE  /\ versions' \in Seq(VersionSet) /\ Len(versions') = Len(versions)
         /\ DOMAIN versions' = DOMAIN versions
         /\ \A u \in DOMAIN versions : versions'[u].of = versions[u].of
                                    /\ versions'[u].number = versions[u].number
         /\ versions'[v].status = status /\ versions'[v].active = gen[v].active
         /\ \A u \in DOMAIN versions \ {v} : versions'[u] = versions[u]
<1> DEFINE w == [versions[v] EXCEPT !.status = status, !.active = gen[v].active]
<1>1. versions[v] \in VersionSet /\ gen[v] \in GenSet
  BY Typed
<1>2. /\ w \in VersionSet /\ w.of = versions[v].of /\ w.number = versions[v].number
      /\ w.status = status /\ w.active = gen[v].active
  BY <1>1, GenFields DEF VersionSet
<1>3. versions' = [versions EXCEPT ![v] = w]
  BY Typed DEF Writes
<1> HIDE DEF w
<1>4. versions' \in Seq(VersionSet) /\ Len(versions') = Len(versions)
  BY <1>2, <1>3 DEF VersionsTyped
<1>5. DOMAIN versions' = DOMAIN versions /\ versions'[v] = w
      /\ \A u \in DOMAIN versions \ {v} : versions'[u] = versions[u]
  BY <1>3
<1> QED
  BY <1>2, <1>4, <1>5

(* A generation moves on.                                                  *)
LEMMA GenRow ==
  ASSUME VersionsTyped, NEW v \in DOMAIN versions,
         NEW to \in {"read", "mark", "ask", "succeeded", "failed", "open", "check", "done", "lost"},
         NEW copy \in BOOLEAN,
         gen' = [gen EXCEPT ![v] = [pc |-> to, active |-> copy, activates |-> gen[v].activates]]
  PROVE  /\ gen' \in Seq(GenSet) /\ Len(gen') = Len(gen)
         /\ gen'[v].pc = to /\ gen'[v].active = copy /\ gen'[v].activates = gen[v].activates
         /\ \A u \in DOMAIN versions \ {v} : gen'[u] = gen[u]
<1> DEFINE g == [pc |-> to, active |-> copy, activates |-> gen[v].activates]
<1>1. g \in GenSet /\ g.pc = to /\ g.active = copy /\ g.activates = gen[v].activates
  BY Typed, GenFields DEF GenSet
<1>2. gen' = [gen EXCEPT ![v] = g] /\ v \in DOMAIN gen
  BY Typed
<1> HIDE DEF g
<1>3. gen' \in Seq(GenSet) /\ Len(gen') = Len(gen)
  BY <1>1, <1>2 DEF VersionsTyped
<1> QED
  BY <1>1, <1>2, <1>3, Typed

(* A generation moves on with the copy it has.                             *)
LEMMA GenGoesRow ==
  ASSUME VersionsTyped, NEW v \in DOMAIN versions,
         NEW from,
         NEW to \in {"read", "mark", "ask", "succeeded", "failed", "open", "check", "done", "lost"},
         GenGoes(v, from, to)
  PROVE  /\ gen' \in Seq(GenSet) /\ Len(gen') = Len(gen)
         /\ gen[v].pc = from /\ gen'[v].pc = to
         /\ gen'[v].active = gen[v].active /\ gen'[v].activates = gen[v].activates
         /\ \A u \in DOMAIN versions \ {v} : gen'[u] = gen[u]
<1>1. gen[v] \in GenSet /\ v \in DOMAIN gen /\ gen[v].active \in BOOLEAN
  BY Typed, GenFields
<1>2. [gen[v] EXCEPT !.pc = to]
        = [pc |-> to, active |-> gen[v].active, activates |-> gen[v].activates]
  BY <1>1 DEF GenSet
<1>3. /\ gen[v].pc = from
      /\ gen' = [gen EXCEPT ![v] = [pc |-> to, active |-> gen[v].active,
                                    activates |-> gen[v].activates]]
  BY <1>1, <1>2 DEF GenGoes
<1> QED
  BY <1>1, <1>3, GenRow

(* The transaction of SetActiveAIResponseVersion.                          *)
LEMMA SetActiveRows ==
  ASSUME VersionsTyped, NEW i, NEW v, SetActive(i, v)
  PROVE  /\ versions' \in Seq(VersionSet) /\ Len(versions') = Len(versions)
         /\ DOMAIN versions' = DOMAIN versions
         /\ \A u \in DOMAIN versions :
              /\ versions'[u].of = versions[u].of /\ versions'[u].number = versions[u].number
              /\ versions'[u].status = versions[u].status
              /\ versions'[u].active <=>
                   u = v \/ (versions[u].active /\ versions[u].of # i)
<1> DEFINE act(u) == u = v \/ (versions[u].active /\ versions[u].of # i)
           w(u) == [versions[u] EXCEPT !.active = act(u)]
<1>1. versions' = [u \in DOMAIN versions |-> w(u)]
  BY DEF SetActive
<1>2. ASSUME NEW u \in DOMAIN versions
      PROVE  /\ w(u) \in VersionSet /\ w(u).of = versions[u].of
             /\ w(u).number = versions[u].number /\ w(u).status = versions[u].status
             /\ w(u).active = act(u)
  <2>1. versions[u] \in VersionSet /\ act(u) \in BOOLEAN
    BY Typed
  <2> HIDE DEF act
  <2> QED
    BY <2>1 DEF VersionSet
<1> HIDE DEF w
<1>3. versions' \in Seq(VersionSet) /\ Len(versions') = Len(versions)
  <2>1. versions' \in [1..Len(versions) -> VersionSet]
    BY <1>1, <1>2, Typed
  <2> QED
    BY <2>1, Typed
<1> QED
  BY <1>1, <1>2, <1>3

-----------------------------------------------------------------------------
(* Generations.                                                            *)

(* A step that keeps every row's listener and number keeps the first       *)
(* versions unique.                                                        *)
LEMMA FirstsKept ==
  ASSUME OneFirst, UNCHANGED req, DOMAIN versions' = DOMAIN versions,
         \A u \in DOMAIN versions : versions'[u].of = versions[u].of
                                 /\ versions'[u].number = versions[u].number
  PROVE  OneFirst'
<1>1. FirstUnique'
  BY DEF OneFirst, FirstUnique
<1>2. ASSUME NEW i  PROVE HasVersion(i)' <=> HasVersion(i)
  BY DEF HasVersion
<1>3. ASSUME NEW r \in Requests  PROVE FirstPending(r)' /\ Regenerating(r)'
  <2>1. PICK i : i = req[r].id
    OBVIOUS
  <2> QED
    BY <1>2, <2>1 DEF OneFirst, FirstPending, Regenerating, HasVersion
<1> QED
  BY <1>1, <1>3 DEF OneFirst

(* A step that writes version v only and moves its generation only.        *)
LEMMA OneVersion ==
  ASSUME VInv, NEW v \in DOMAIN versions, UNCHANGED <<port, req, byHand>>,
         versions' \in Seq(VersionSet), Len(versions') = Len(versions),
         gen' \in Seq(GenSet), Len(gen') = Len(gen),
         versions'[v].of = versions[v].of, versions'[v].number = versions[v].number,
         \A u \in DOMAIN versions \ {v} : versions'[u] = versions[u] /\ gen'[u] = gen[u],
         VersionShape(v)', ByGeneration(v)'
  PROVE  VInv'
<1>1. VersionsTyped' /\ DOMAIN versions' = DOMAIN versions
  BY Typed DEF VInv, VersionsTyped
<1>2. OneFirst'
  <2>1. \A u \in DOMAIN versions : versions'[u].of = versions[u].of
                                 /\ versions'[u].number = versions[u].number
    OBVIOUS
  <2> QED
    BY <1>1, <2>1, FirstsKept DEF VInv
<1>3. ASSUME NEW u \in DOMAIN versions \ {v}  PROVE VersionShape(u)' /\ ByGeneration(u)'
  BY <1>3 DEF VInv, VersionShape, ByGeneration
<1> QED
  BY <1>1, <1>2, <1>3 DEF VInv

(* Every step of a generation keeps the invariant.                         *)
LEMMA GenerationInv ==
  ASSUME VInv, NEW v \in DOMAIN versions, GenerationStep(v)
  PROVE  VInv'
<1>0. /\ VersionsTyped /\ VersionShape(v) /\ ByGeneration(v)
      /\ versions[v] \in VersionSet /\ gen[v] \in GenSet
      /\ gen[v].active \in BOOLEAN /\ gen[v].activates \in BOOLEAN
      /\ versions[v].active \in BOOLEAN
      /\ versions \in Seq(VersionSet)
  BY Typed, VersionFields, GenFields DEF VInv, VersionsTyped
<1>1. CASE ReadVersion(v)
  <2>1. gen' = [gen EXCEPT ![v] = [pc |-> "mark", active |-> versions[v].active,
                                  activates |-> gen[v].activates]]
    BY <1>1 DEF ReadVersion
  <2>2. /\ gen' \in Seq(GenSet) /\ Len(gen') = Len(gen)
        /\ gen'[v].pc = "mark" /\ gen'[v].active = versions[v].active
        /\ gen'[v].activates = gen[v].activates
        /\ \A u \in DOMAIN versions \ {v} : gen'[u] = gen[u]
    BY <2>1, <1>0, GenRow
  <2>3. gen[v].pc = "read" /\ UNCHANGED <<port, req, versions, byHand>>
    BY <1>1 DEF ReadVersion, listenerVars, table
  <2>4. VersionShape(v)' /\ ByGeneration(v)'
    BY <1>0, <2>2, <2>3 DEF VersionShape, ByGeneration
  <2> QED
    BY <1>0, <2>2, <2>3, <2>4, OneVersion
<1>2. ASSUME NEW from \in {"mark", "succeeded", "failed"},
             NEW to \in {"ask", "open", "check", "done"},
             NEW status \in {"generating", "success", "failed"},
             GenGoes(v, from, to), Writes(v, status), UNCHANGED <<port, req, byHand>>,
             to = "check" => gen[v].activates,
             status = "success" => to = "open"
      PROVE  VInv'
  <2>1. /\ gen' \in Seq(GenSet) /\ Len(gen') = Len(gen)
        /\ gen[v].pc = from /\ gen'[v].pc = to
        /\ gen'[v].active = gen[v].active /\ gen'[v].activates = gen[v].activates
        /\ \A u \in DOMAIN versions \ {v} : gen'[u] = gen[u]
    BY <1>0, <1>2, GenGoesRow
  <2>2. /\ versions' \in Seq(VersionSet) /\ Len(versions') = Len(versions)
        /\ versions'[v].of = versions[v].of /\ versions'[v].number = versions[v].number
        /\ versions'[v].status = status /\ versions'[v].active = gen[v].active
        /\ \A u \in DOMAIN versions \ {v} : versions'[u] = versions[u]
    BY <1>0, <1>2, WritesRow
  <2>3. VersionShape(v)'
    BY <1>0, <1>2, <2>1, <2>2 DEF VersionShape
  <2>4. ByGeneration(v)'
    BY <1>0, <1>2, <2>1, <2>2 DEF ByGeneration
  <2> QED
    BY <1>2, <2>1, <2>2, <2>3, <2>4, OneVersion
<1>3. ASSUME NEW from \in {"ask", "open"},
             NEW to \in {"succeeded", "failed", "check", "done"},
             GenGoes(v, from, to), UNCHANGED <<versions, port, req, byHand>>,
             to = "check" => gen[v].activates,
             from = "open" => to \in {"check", "done"}
      PROVE  VInv'
  <2>1. /\ gen' \in Seq(GenSet) /\ Len(gen') = Len(gen)
        /\ gen[v].pc = from /\ gen'[v].pc = to
        /\ gen'[v].active = gen[v].active /\ gen'[v].activates = gen[v].activates
        /\ \A u \in DOMAIN versions \ {v} : gen'[u] = gen[u]
    BY <1>0, <1>3, GenGoesRow
  <2>2. VersionShape(v)'
    BY <1>0, <1>3, <2>1 DEF VersionShape
  <2>3. ByGeneration(v)'
    BY <1>0, <1>3, <2>1 DEF ByGeneration
  <2> QED
    BY <1>0, <1>3, <2>1, <2>2, <2>3, OneVersion
<1>4. CASE MarkGenerating(v)
  BY <1>2, <1>4 DEF MarkGenerating, listenerVars, table
<1>5. CASE Answer(v)
  BY <1>3, <1>5 DEF Answer, listenerVars, table
<1>6. CASE StoreResponses(v)
  BY <1>2, <1>6 DEF StoreResponses, listenerVars, table
<1>7. CASE StoreError(v)
  BY <1>2, <1>7 DEF StoreError, listenerVars, table
<1>8. CASE OpenListener(v)
  BY <1>3, <1>8 DEF OpenListener
<1>9. CASE ActivateGenerated(v)
  <2>1. /\ gen' \in Seq(GenSet) /\ Len(gen') = Len(gen)
        /\ gen[v].pc = "check" /\ gen'[v].pc = "done"
        /\ gen'[v].active = gen[v].active /\ gen'[v].activates = gen[v].activates
        /\ \A u \in DOMAIN versions \ {v} : gen'[u] = gen[u]
        /\ UNCHANGED <<port, req, byHand>>
    BY <1>0, <1>9, GenGoesRow DEF ActivateGenerated, listenerVars, table
  <2>2. CASE versions[v].status # "success"
    <3>1. UNCHANGED versions
      BY <1>9, <2>2 DEF ActivateGenerated
    <3>2. VersionShape(v)' /\ ByGeneration(v)'
      BY <1>0, <2>1, <3>1 DEF VersionShape, ByGeneration
    <3> QED
      BY <1>0, <2>1, <3>1, <3>2, OneVersion
  <2>3. CASE versions[v].status = "success"
    <3>1. SetActive(versions[v].of, v)
      BY <1>9, <2>3 DEF ActivateGenerated
    <3>2. /\ versions' \in Seq(VersionSet) /\ Len(versions') = Len(versions)
          /\ DOMAIN versions' = DOMAIN versions
          /\ \A u \in DOMAIN versions :
               /\ versions'[u].of = versions[u].of
               /\ versions'[u].number = versions[u].number
               /\ versions'[u].status = versions[u].status
               /\ versions'[u].active => u = v \/ versions[u].active
      BY <1>0, <3>1, SetActiveRows
    <3>3. VersionsTyped' /\ OneFirst'
      BY <2>1, <3>2, FirstsKept DEF VInv, VersionsTyped
    <3>4. ASSUME NEW u \in DOMAIN versions \ {v}  PROVE VersionShape(u)' /\ ByGeneration(u)'
      BY <2>1, <3>2, <3>4 DEF VInv, VersionShape, ByGeneration
    <3>5. VersionShape(v)' /\ ByGeneration(v)'
      BY <1>0, <2>1, <2>3, <3>2 DEF VersionShape, ByGeneration
    <3> QED
      BY <3>2, <3>3, <3>4, <3>5 DEF VInv
  <2> QED
    BY <2>2, <2>3
<1> QED
  BY <1>1, <1>4, <1>5, <1>6, <1>7, <1>8, <1>9 DEF GenerationStep

-----------------------------------------------------------------------------
(* Requests.                                                               *)

Counted == {"first version", "regenerate"}

(* What is known of a request, when it stays where it is.                  *)
LEMMA RegeneratingStays ==
  ASSUME NEW q, Regenerating(q), req'[q] = req[q],
         \A v \in DOMAIN versions : v \in DOMAIN versions' /\ versions'[v].of = versions[v].of
  PROVE  Regenerating(q)'
<1> SUFFICES ASSUME req'[q].pc = "regenerate"
             PROVE  /\ req'[q].arg \in Nat /\ req'[q].arg >= 2
                    /\ \E v \in DOMAIN versions' : versions'[v].of = req'[q].id
  BY DEF Regenerating, HasVersion
<1>1. /\ req[q].arg \in Nat /\ req[q].arg >= 2
      /\ \E v \in DOMAIN versions : versions[v].of = req[q].id
  BY DEF Regenerating, HasVersion
<1>2. PICK v \in DOMAIN versions : versions[v].of = req[q].id
  BY <1>1
<1>3. v \in DOMAIN versions' /\ versions'[v].of = req'[q].id
  BY <1>2
<1> QED
  BY <1>1, <1>3

(* ... about to insert a first version.                                    *)
LEMMA FirstPendingStays ==
  ASSUME NEW q \in Requests, FirstPending(q), req'[q] = req[q],
         req[q].pc = "first version" =>
           \A v \in DOMAIN versions' : versions'[v].of # req[q].id \/
             (v \in DOMAIN versions /\ versions'[v].of = versions[v].of),
         \A s \in Requests : s # q /\ req'[s].pc = "first version" =>
           req'[s] = req[s] \/ req'[s].id # req[q].id
  PROVE  FirstPending(q)'
<1> SUFFICES ASSUME req'[q].pc = "first version"
             PROVE  /\ \A v \in DOMAIN versions' : versions'[v].of # req'[q].id
                    /\ \A s \in Requests :
                         req'[s].pc = "first version" /\ req'[s].id = req'[q].id => s = q
  BY DEF FirstPending, HasVersion
<1>1. /\ \A v \in DOMAIN versions : versions[v].of # req[q].id
      /\ \A s \in Requests :
           req[s].pc = "first version" /\ req[s].id = req[q].id => s = q
  BY DEF FirstPending, HasVersion
<1>2. \A v \in DOMAIN versions' : versions'[v].of # req'[q].id
  BY <1>1
<1>3. \A s \in Requests : req'[s].pc = "first version" /\ req'[s].id = req'[q].id => s = q
  BY <1>1
<1> QED
  BY <1>2, <1>3

(* A step that leaves the versions alone, and starts no first version and  *)
(* no regeneration.                                                        *)
LEMMA VersionsAlone ==
  ASSUME VInv, UNCHANGED <<versions, gen, byHand>>,
         \A i \in Ids : port[i] \in Ports => port'[i] = port[i],
         \A q \in Requests : req'[q].pc \in Counted => req'[q] = req[q]
  PROVE  VInv'
<1>1. OneFirst'
  <2>1. FirstUnique'
    BY DEF VInv, OneFirst, FirstUnique
  <2>2. ASSUME NEW r \in Requests  PROVE FirstPending(r)' /\ Regenerating(r)'
    <3>1. CASE req'[r].pc \in Counted
      <4>1. \A q \in Requests : req'[q].pc = "first version" => req'[q] = req[q]
        BY DEF Counted
      <4>2. req'[r] = req[r] /\ FirstPending(r) /\ Regenerating(r)
        BY <3>1 DEF VInv, OneFirst
      <4>3. Regenerating(r)'
        BY <4>2, RegeneratingStays
      <4>4. FirstPending(r)'
        BY <4>1, <4>2, FirstPendingStays
      <4> QED
        BY <4>3, <4>4
    <3>2. CASE req'[r].pc \notin Counted
      BY <3>2 DEF Counted, FirstPending, Regenerating
    <3> QED
      BY <3>1, <3>2
  <2> QED
    BY <2>1, <2>2 DEF OneFirst
<1>2. ASSUME NEW v \in DOMAIN versions  PROVE VersionShape(v)' /\ ByGeneration(v)'
  <2>1. versions[v].of \in Ids
    BY Typed, VersionFields DEF VInv
  <2> QED
    BY <2>1 DEF VInv, VersionShape, ByGeneration
<1> QED
  BY <1>1, <1>2 DEF VInv, VersionsTyped

(* A request that arrives with something else to do than insert a          *)
(* version.                                                                *)
LEMMA ReplacedBy ==
  ASSUME IInv, NEW r \in Requests, NEW new, req' = [req EXCEPT ![r] = new],
         new.pc \notin Counted
  PROVE  \A q \in Requests : req'[q].pc \in Counted => req'[q] = req[q]
<1>1. req'[r] = new /\ \A q \in Requests \ {r} : req'[q] = req[q]
  BY Replaced DEF IInv
<1> QED
  BY <1>1

(* A request that goes on to something else than inserting a version.      *)
LEMMA MovedTo ==
  ASSUME IInv, NEW r \in Requests, NEW where, Goes(r, where), where \notin Counted
  PROVE  \A q \in Requests : req'[q].pc \in Counted => req'[q] = req[q]
<1>1. req'[r].pc = where /\ \A q \in Requests \ {r} : req'[q] = req[q]
  BY Moves DEF IInv, Goes
<1> QED
  BY <1>1

(* A request that ends.                                                    *)
LEMMA EndedBy ==
  ASSUME IInv, NEW r \in Requests, Ends(r)
  PROVE  \A q \in Requests : req'[q].pc \in Counted => req'[q] = req[q]
BY ReplacedBy, IdleShape DEF Ends, Counted

(* No port is taken away from a listener.                                  *)
LEMMA PortsStay ==
  ASSUME IInv, NEW r, NEW i \in Ids, NEW p, NEW next, Insert(r, i, p, next)
  PROVE  \A j \in Ids : port[j] \in Ports => port'[j] = port[j]
BY ListenersAssumption DEF Insert, IInv, ListenersTypeOK

(* The steps of the listeners start no version.                            *)
LEMMA ListenersStepInv ==
  ASSUME IInv, VInv, ListenersStep, UNCHANGED <<versions, gen, byHand>>
  PROVE  VInv'
<1>1. ASSUME NEW i \in Ids, ServerStep(i)  PROVE VInv'
  <2>1. UNCHANGED <<port, req>>
    BY <1>1 DEF ServerStep, Listen, ListenFails, SaveOpen, SaveError, ServeEnds, ServeFails, table
  <2> QED
    BY <2>1, VersionsAlone
<1>2. ASSUME NEW r \in Requests, CreateListener(r)  PROVE VInv'
  <2>1. PICK i \in Ids, p \in Ports : Insert(r, i, p, "start")
    BY <1>2 DEF CreateListener
  <2>2. PICK new : new = At("start", i, 0) /\ req' = [req EXCEPT ![r] = new]
    BY <2>1 DEF Insert
  <2>3. new.pc \notin Counted
    BY <2>2 DEF At, Counted
  <2> QED
    BY <2>1, <2>2, <2>3, PortsStay, ReplacedBy, VersionsAlone
<1>3. ASSUME NEW r \in Requests, ReadForUpdate(r) \/ ReadForDelete(r)  PROVE VInv'
  <2>1. PICK new : /\ req' = [req EXCEPT ![r] = new]
                   /\ \E i, s : new = At("write", i, s) \/ new = At("stop", i, s)
    <3>1. CASE ReadForUpdate(r)  BY <3>1 DEF ReadForUpdate
    <3>2. CASE ReadForDelete(r)  BY <3>2 DEF ReadForDelete
    <3> QED  BY <1>3, <3>1, <3>2
  <2>2. new.pc = "write" \/ new.pc = "stop"
    BY <2>1, AtFields
  <2>3. req' = [req EXCEPT ![r] = new] /\ new.pc \notin Counted
    BY <2>1, <2>2 DEF Counted
  <2>4. UNCHANGED port
    BY <1>3 DEF ReadForUpdate, ReadForDelete, table
  <2> QED
    BY <2>3, <2>4, ReplacedBy, VersionsAlone
<1>4. ASSUME NEW r \in Requests, RequestStep(r)  PROVE VInv'
  <2>1. UNCHANGED port
    BY <1>4 DEF RequestStep, StartListener, StartRefused, MarkError, WriteRow, StopNotFound,
                StopListener, Stopped, DeleteListener, table
  <2>2. Ends(r) \/ Goes(r, "mark") \/ Goes(r, "drop") \/ Goes(r, "stopping")
    BY <1>4 DEF RequestStep, StartListener, StartRefused, MarkError, WriteRow, StopNotFound,
                StopListener, Stopped, DeleteListener
  <2>3. \A q \in Requests : req'[q].pc \in Counted => req'[q] = req[q]
    <3>1. "mark" \notin Counted /\ "drop" \notin Counted /\ "stopping" \notin Counted
      BY DEF Counted
    <3> QED
      BY <2>2, <3>1, EndedBy, MovedTo
  <2> QED
    BY <2>1, <2>3, VersionsAlone
<1> QED
  BY <1>1, <1>2, <1>3, <1>4 DEF ListenersStep, RequestArrives

(* After a restart no generation goes on, and no request.                  *)
LEMMA RestartAllInv ==
  ASSUME VInv, RestartAll
  PROVE  VInv'
<1>1. /\ gen' = [v \in DOMAIN gen |-> [gen[v] EXCEPT !.pc = "lost"]]
      /\ UNCHANGED <<port, versions, byHand>>
      /\ \A r \in Requests : req'[r] = Idle
  BY DEF RestartAll, Restart
<1>2. ASSUME NEW g \in GenSet
      PROVE  /\ [g EXCEPT !.pc = "lost"] \in GenSet /\ [g EXCEPT !.pc = "lost"].pc = "lost"
             /\ [g EXCEPT !.pc = "lost"].active = g.active
             /\ [g EXCEPT !.pc = "lost"].activates = g.activates
  BY DEF GenSet
<1>3. \A v \in DOMAIN versions :
        /\ gen'[v] \in GenSet /\ gen'[v].pc = "lost"
        /\ gen'[v].active = gen[v].active /\ gen'[v].activates = gen[v].activates
  BY <1>1, <1>2, Typed DEF VInv
<1>4. VersionsTyped'
  <2>1. gen' \in [1..Len(gen) -> GenSet] /\ Len(gen) \in Nat
    BY <1>1, <1>3, Typed DEF VInv, VersionsTyped
  <2> QED
    BY <1>1, <2>1 DEF VInv, VersionsTyped
<1>5. OneFirst'
  BY <1>1, IdleShape DEF VInv, OneFirst, FirstUnique, FirstPending, Regenerating
<1>6. ASSUME NEW v \in DOMAIN versions  PROVE VersionShape(v)' /\ ByGeneration(v)'
  <2>1. VersionShape(v) /\ ByGeneration(v) /\ versions'[v] = versions[v]
    BY <1>1 DEF VInv
  <2> QED
    BY <1>1, <1>3, <2>1 DEF VersionShape, ByGeneration
<1> QED
  BY <1>1, <1>4, <1>5, <1>6 DEF VInv

(* The id of a new listener has no version, and no other request has it.   *)
LEMMA CreateAIListenerInv ==
  ASSUME IInv, VInv, NEW r \in Requests, AIRequestArrives(r)
  PROVE  VInv'
<1>1. PICK i \in Ids, p \in Ports : Insert(r, i, p, "first version")
  BY DEF AIRequestArrives, CreateAIListener
<1>2. /\ port[i] = NoOne /\ UNCHANGED <<versions, gen, byHand>>
      /\ req' = [req EXCEPT ![r] = At("first version", i, 0)]
  BY <1>1 DEF Insert, AIRequestArrives
<1>3. PICK new : new = At("first version", i, 0) /\ req' = [req EXCEPT ![r] = new]
  BY <1>2
<1>4. new.pc = "first version" /\ new.id = i
  BY <1>3 DEF At
<1>5. req'[r] = new /\ \A q \in Requests \ {r} : req'[q] = req[q]
  BY <1>3, Replaced DEF IInv
<1>6. \A j \in Ids : port[j] \in Ports => port'[j] = port[j] /\ j # i
  BY <1>1, <1>2, PortsStay, ListenersAssumption
<1>7. \A v \in DOMAIN versions : versions[v].of \in Ids /\ versions[v].of # i
  BY <1>6, Typed, VersionFields DEF VInv, VersionShape
<1>8. \A q \in Requests : req[q].pc = "first version" => req[q].id # i
  BY <1>6 DEF IInv, RequestsOK, RequestShape
<1>9. OneFirst'
  <2>1. FirstUnique'
    BY <1>2 DEF VInv, OneFirst, FirstUnique
  <2>2. ~HasVersion(i) /\ req'[r].pc = "first version" /\ req'[r].id = i
    BY <1>4, <1>5, <1>7 DEF HasVersion
  <2>3. \A q \in Requests \ {r} : req'[q].pc = "first version" => req'[q].id # i
    BY <1>5, <1>8
  <2>4. FirstPending(r)' /\ Regenerating(r)'
    BY <1>2, <2>2, <2>3 DEF FirstPending, Regenerating, HasVersion
  <2>5. ASSUME NEW q \in Requests \ {r}  PROVE FirstPending(q)' /\ Regenerating(q)'
    <3>1. req'[q] = req[q] /\ FirstPending(q) /\ Regenerating(q)
      BY <1>5 DEF VInv, OneFirst
    <3>2. \A s \in Requests \ {r} : req'[s] = req[s]
      BY <1>5
    <3> QED
      BY <1>2, <2>2, <2>3, <3>1, <3>2 DEF FirstPending, Regenerating, HasVersion
  <2> QED
    BY <2>1, <2>4, <2>5 DEF OneFirst
<1>10. ASSUME NEW v \in DOMAIN versions  PROVE VersionShape(v)' /\ ByGeneration(v)'
  BY <1>2, <1>6, <1>7 DEF VInv, VersionShape, ByGeneration
<1> QED
  BY <1>2, <1>9, <1>10 DEF VInv, VersionsTyped

(* A new row, at the end of the table.                                     *)
LEMMA AddedRow ==
  ASSUME VersionsTyped, NEW i \in Ids, NEW n \in Nat, NEW active \in BOOLEAN,
         AddVersion(i, n, active)
  PROVE  LET new == Len(versions) + 1 IN
         /\ VersionsTyped' /\ DOMAIN versions' = DOMAIN versions \cup {new}
         /\ new \notin DOMAIN versions
         /\ versions'[new] = Version(i, n, active) /\ gen'[new] = Generation(~active)
         /\ versions'[new].of = i /\ versions'[new].number = n
         /\ versions'[new].active = active /\ versions'[new].status = "pending"
         /\ gen'[new].pc = "read" /\ gen'[new].active = FALSE
         /\ gen'[new].activates = ~active
         /\ \A v \in DOMAIN versions : versions'[v] = versions[v] /\ gen'[v] = gen[v]
<1> DEFINE w == Version(i, n, active)
           g == Generation(~active)
<1>1. /\ w \in VersionSet /\ w.of = i /\ w.number = n /\ w.active = active
      /\ w.status = "pending"
  BY DEF Version, VersionSet
<1>2. g \in GenSet /\ g.pc = "read" /\ g.active = FALSE /\ g.activates = ~active
  BY DEF Generation, GenSet
<1>3. versions' = Append(versions, w) /\ gen' = Append(gen, g)
  BY DEF AddVersion
<1> HIDE DEF w, g
<1>4. VersionsTyped'
  BY <1>1, <1>2, <1>3 DEF VersionsTyped
<1>5. /\ versions'[Len(versions) + 1] = w /\ gen'[Len(versions) + 1] = g
      /\ DOMAIN versions' = 1..(Len(versions) + 1)
      /\ \A v \in 1..Len(versions) : versions'[v] = versions[v] /\ gen'[v] = gen[v]
  BY <1>1, <1>2, <1>3 DEF VersionsTyped
<1>6. DOMAIN versions = 1..Len(versions) /\ Len(versions) \in Nat
  BY Typed
<1>7. /\ DOMAIN versions' = DOMAIN versions \cup {Len(versions) + 1}
      /\ Len(versions) + 1 \notin DOMAIN versions
  BY <1>5, <1>6
<1> QED
  BY <1>1, <1>2, <1>4, <1>5, <1>6, <1>7 DEF w, g

(* The first version of a listener is inserted once.                       *)
LEMMA CreateFirstVersionInv ==
  ASSUME IInv, VInv, NEW r \in Requests, CreateFirstVersion(r)
  PROVE  VInv'
<1> DEFINE i == req[r].id
<1>1. /\ req[r].pc = "first version" /\ AddVersion(i, 1, TRUE) /\ Goes(r, "start")
      /\ UNCHANGED <<port, byHand>>
  BY DEF CreateFirstVersion, table
<1>2. i \in Ids /\ port[i] \in Ports
  BY <1>1 DEF IInv, RequestsOK, RequestShape
<1>0. PICK new : new = Len(versions) + 1
  OBVIOUS
<1>3. /\ VersionsTyped' /\ DOMAIN versions' = DOMAIN versions \cup {new}
      /\ new \notin DOMAIN versions
      /\ versions'[new].of = i /\ versions'[new].number = 1
      /\ versions'[new].status = "pending"
      /\ gen'[new].pc = "read" /\ ~gen'[new].activates
      /\ \A v \in DOMAIN versions : versions'[v] = versions[v] /\ gen'[v] = gen[v]
  BY <1>0, <1>1, <1>2, AddedRow DEF VInv
<1>4. req'[r].pc = "start" /\ \A q \in Requests \ {r} : req'[q] = req[q]
  BY <1>1, Moves DEF IInv, Goes
<1>5. ~HasVersion(i) /\ \A q \in Requests \ {r} :
                           req[q].pc = "first version" => req[q].id # i
  BY <1>1 DEF VInv, OneFirst, FirstPending
<1>6. OneFirst'
  <2>1. FirstUnique'
    <3>1. \A v \in DOMAIN versions : versions[v].of # i
      BY <1>5 DEF HasVersion
    <3> QED
      BY <1>3, <3>1 DEF VInv, OneFirst, FirstUnique
  <2>3. FirstPending(r)' /\ Regenerating(r)'
    BY <1>4 DEF FirstPending, Regenerating
  <2>4. ASSUME NEW q \in Requests \ {r}  PROVE FirstPending(q)' /\ Regenerating(q)'
    <3>1. req'[q] = req[q] /\ FirstPending(q) /\ Regenerating(q)
      BY <1>4 DEF VInv, OneFirst
    <3>2. Regenerating(q)'
      BY <1>3, <3>1, RegeneratingStays
    <3>3. \A s \in Requests : req'[s].pc = "first version" => req'[s] = req[s]
      BY <1>4
    <3>4. req[q].pc = "first version" =>
            \A v \in DOMAIN versions' : versions'[v].of # req[q].id \/
              (v \in DOMAIN versions /\ versions'[v].of = versions[v].of)
      BY <1>3, <1>5
    <3>5. FirstPending(q)'
      BY <3>1, <3>3, <3>4, FirstPendingStays
    <3> QED
      BY <3>2, <3>5
  <2> QED
    BY <2>1, <2>3, <2>4 DEF OneFirst
<1>7. VersionShape(new)' /\ ByGeneration(new)'
  <2>1. versions'[new].number >= 1 /\ ~(versions'[new].number >= 2)
    BY <1>3
  <2>2. versions'[new].status # "success" /\ gen'[new].pc # "check"
    BY <1>3
  <2>3. port'[versions'[new].of] \in Ports
    BY <1>1, <1>2, <1>3
  <2> QED
    BY <1>3, <2>1, <2>2, <2>3 DEF VersionShape, ByGeneration
<1>8. ASSUME NEW v \in DOMAIN versions  PROVE VersionShape(v)' /\ ByGeneration(v)'
  BY <1>1, <1>3 DEF VInv, VersionShape, ByGeneration
<1> QED
  BY <1>3, <1>6, <1>7, <1>8 DEF VInv

(* A regeneration adds a version that is not active and not the first.     *)
LEMMA CreateVersionInv ==
  ASSUME IInv, VInv, NEW r \in Requests, CreateVersion(r)
  PROVE  VInv'
<1> DEFINE i == req[r].id
           n == req[r].arg
<1>1. /\ req[r].pc = "regenerate" /\ AddVersion(i, n, FALSE) /\ Ends(r)
      /\ UNCHANGED <<port, byHand>>
  BY DEF CreateVersion, table
<1>2. i \in Ids /\ port[i] \in Ports /\ n \in Nat /\ n >= 2
  <2>1. n \in Nat /\ n >= 2 /\ \E v \in DOMAIN versions : versions[v].of = i
    BY <1>1 DEF VInv, OneFirst, Regenerating, HasVersion
  <2>2. PICK v \in DOMAIN versions : versions[v].of = i
    BY <2>1
  <2> QED
    BY <2>1, <2>2, Typed, VersionFields DEF VInv, VersionShape
<1>0. PICK new : new = Len(versions) + 1
  OBVIOUS
<1>3. /\ VersionsTyped' /\ DOMAIN versions' = DOMAIN versions \cup {new}
      /\ new \notin DOMAIN versions
      /\ versions'[new].of = i /\ versions'[new].number = n
      /\ versions'[new].status = "pending" /\ ~versions'[new].active
      /\ gen'[new].pc = "read" /\ gen'[new].activates /\ ~gen'[new].active
      /\ \A v \in DOMAIN versions : versions'[v] = versions[v] /\ gen'[v] = gen[v]
  BY <1>0, <1>1, <1>2, AddedRow DEF VInv
<1>4. \A q \in Requests : req'[q].pc \in Counted => req'[q] = req[q]
  BY <1>1, EndedBy
<1>5. OneFirst'
  <2>1. FirstUnique'
    BY <1>2, <1>3 DEF VInv, OneFirst, FirstUnique
  <2>2. \E u \in DOMAIN versions : versions[u].of = i
    BY <1>1 DEF VInv, OneFirst, Regenerating, HasVersion
  <2>3. ASSUME NEW q \in Requests  PROVE FirstPending(q)' /\ Regenerating(q)'
    <3>1. CASE req'[q].pc \notin Counted
      BY <3>1 DEF Counted, FirstPending, Regenerating
    <3>2. CASE req'[q].pc \in Counted
      <4>1. req'[q] = req[q] /\ FirstPending(q) /\ Regenerating(q)
        BY <1>4, <3>2 DEF VInv, OneFirst
      <4>2. \A s \in Requests : req'[s].pc = "first version" => req'[s] = req[s]
        BY <1>4 DEF Counted
      <4>3. Regenerating(q)'
        BY <1>3, <4>1, RegeneratingStays
      <4>4. req[q].pc = "first version" =>
              \A v \in DOMAIN versions' : versions'[v].of # req[q].id \/
                (v \in DOMAIN versions /\ versions'[v].of = versions[v].of)
        <5>1. req[q].pc = "first version" => req[q].id # i
          BY <2>2, <4>1 DEF FirstPending, HasVersion
        <5> QED
          BY <1>3, <5>1
      <4>5. FirstPending(q)'
        BY <4>1, <4>2, <4>4, FirstPendingStays
      <4> QED
        BY <4>3, <4>5
    <3> QED
      BY <3>1, <3>2
  <2> QED
    BY <2>1, <2>3 DEF OneFirst
<1>6. VersionShape(new)' /\ ByGeneration(new)'
  BY <1>1, <1>2, <1>3 DEF VersionShape, ByGeneration
<1>7. ASSUME NEW v \in DOMAIN versions  PROVE VersionShape(v)' /\ ByGeneration(v)'
  BY <1>1, <1>3 DEF VInv, VersionShape, ByGeneration
<1> QED
  BY <1>3, <1>5, <1>6, <1>7 DEF VInv

(* A regeneration has read a number that is at least 1.                    *)
LEMMA ReadVersionsInv ==
  ASSUME IInv, VInv, NEW r \in Requests, ReadVersions(r)
  PROVE  VInv'
<1>1. UNCHANGED <<port, versions, gen, byHand>>
  BY DEF ReadVersions, table
<1>2. PICK i \in Ids, v \in DOMAIN versions :
        /\ versions[v].of = i
        /\ req' = [req EXCEPT ![r] = At("regenerate", i, versions[v].number + 1)]
  BY DEF ReadVersions, Highest, VersionsOf
<1>3. PICK new : new = At("regenerate", i, versions[v].number + 1) /\ req' = [req EXCEPT ![r] = new]
  BY <1>2
<1>4. new.pc = "regenerate" /\ new.id = i /\ new.arg = versions[v].number + 1
  BY <1>3 DEF At
<1>5. new.arg \in Nat /\ new.arg >= 2 /\ versions[v].of = new.id
  BY <1>2, <1>4, Typed, VersionFields DEF VInv, VersionShape
<1>6. req'[r] = new /\ \A q \in Requests \ {r} : req'[q] = req[q]
  BY <1>3, Replaced DEF IInv
<1>7. OneFirst'
  <2>1. FirstUnique'
    BY <1>1 DEF VInv, OneFirst, FirstUnique
  <2>2. HasVersion(new.id)
    BY <1>5 DEF HasVersion
  <2>3. FirstPending(r)' /\ Regenerating(r)'
    BY <1>1, <1>4, <1>5, <1>6, <2>2 DEF FirstPending, Regenerating, HasVersion
  <2>4. ASSUME NEW q \in Requests \ {r}  PROVE FirstPending(q)' /\ Regenerating(q)'
    <3>1. req'[q] = req[q] /\ FirstPending(q) /\ Regenerating(q)
      BY <1>6 DEF VInv, OneFirst
    <3>2. \A s \in Requests : req'[s].pc = "first version" => req'[s] = req[s]
      BY <1>4, <1>6
    <3>3. Regenerating(q)'
      BY <1>1, <3>1, RegeneratingStays
    <3>4. FirstPending(q)'
      BY <1>1, <3>1, <3>2, FirstPendingStays
    <3> QED
      BY <3>3, <3>4
  <2> QED
    BY <2>1, <2>3, <2>4 DEF OneFirst
<1> QED
  BY <1>1, <1>7 DEF VInv, VersionsTyped, VersionShape, ByGeneration

(* A request that activates a version changes is_active only.              *)
LEMMA ActivateVersionInv ==
  ASSUME VInv, NEW r \in Requests, ActivateVersion(r)
  PROVE  VInv'
<1>1. byHand' /\ UNCHANGED <<port, req, gen>>
  BY DEF ActivateVersion, table
<1>2. PICK i \in Ids, v \in DOMAIN versions : SetActive(i, v)
  BY DEF ActivateVersion
<1>3. /\ versions' \in Seq(VersionSet) /\ Len(versions') = Len(versions)
      /\ DOMAIN versions' = DOMAIN versions
      /\ \A u \in DOMAIN versions :
           /\ versions'[u].of = versions[u].of /\ versions'[u].number = versions[u].number
           /\ versions'[u].status = versions[u].status
  BY <1>2, SetActiveRows DEF VInv
<1>4. VersionsTyped' /\ OneFirst'
  BY <1>1, <1>3, FirstsKept DEF VInv, VersionsTyped
<1>5. ASSUME NEW u \in DOMAIN versions  PROVE VersionShape(u)' /\ ByGeneration(u)'
  BY <1>1, <1>3 DEF VInv, VersionShape, ByGeneration
<1> QED
  BY <1>3, <1>4, <1>5 DEF VInv

-----------------------------------------------------------------------------
(* All steps.                                                              *)

(* The table is empty at first: the invariant of the versions holds.       *)
THEOREM VersionsInitially == Init => VInv
<1> SUFFICES ASSUME Init  PROVE VInv
  OBVIOUS
<1>1. versions = <<>> /\ gen = <<>> /\ DOMAIN versions = {}
  BY DEF Init
<1>2. \A r \in Requests : req[r].pc = "idle"
  BY IdleShape DEF Init, ListenersInit
<1>3. VersionsTyped
  BY <1>1 DEF VersionsTyped
<1>4. OneFirst
  BY <1>1, <1>2 DEF OneFirst, FirstUnique, FirstPending, Regenerating
<1> QED
  BY <1>1, <1>3, <1>4 DEF VInv

(* Every step, of a generation, a request, a server or a restart, keeps    *)
(* the invariant of the versions.                                          *)
THEOREM VersionsInductive == IInv /\ VInv /\ [Next]_vars => VInv'
<1> SUFFICES ASSUME IInv, VInv, [Next]_vars  PROVE VInv'
  OBVIOUS
<1>1. CASE AIStep
  BY <1>1, GenerationInv, CreateAIListenerInv, CreateFirstVersionInv, CreateVersionInv,
     ReadVersionsInv, ActivateVersionInv, RestartAllInv DEF AIStep, AIRequestStep
<1>2. CASE ListenersStep /\ UNCHANGED <<versions, gen, byHand>>
  BY <1>2, ListenersStepInv
<1>3. CASE UNCHANGED vars
  BY <1>3, VersionsAlone DEF vars, listenerVars, table
<1> QED
  BY <1>1, <1>2, <1>3 DEF Next

(* In every reachable state both invariants hold, that of the listeners    *)
(* and that of the versions.                                               *)
THEOREM VersionsInvariance == Spec => [](IInv /\ VInv)
<1>1. IInv /\ VInv /\ [Next]_vars => (IInv /\ VInv)'
  BY Inductive, VersionsInductive
<1> QED
  BY <1>1, Initially, VersionsInitially, PTL DEF Spec

-----------------------------------------------------------------------------
(* What a step does to the versions that answer.                           *)

(* What the choice of an answer depends on: version v, at the end of a     *)
(* step, has the listener and the number it had.                           *)
SameNumbers ==
  \A v \in DOMAIN versions : /\ v \in DOMAIN versions'
                             /\ versions'[v].of = versions[v].of
                             /\ versions'[v].number = versions[v].number

(* A version that has become active is a first version.                    *)
OnlyFirstActivated ==
  \A v \in DOMAIN versions' :
    versions'[v].active => \/ v \in DOMAIN versions /\ versions[v].active
                           \/ versions'[v].number = 1

(* An active version that had succeeded stays as it is.                    *)
SuccessStays ==
  \A v \in DOMAIN versions :
    versions[v].status = "success" =>
      versions'[v].status = "success" /\ (versions[v].active => versions'[v].active)

(* The numbers of the versions start at 1.                                 *)
LEMMA NumbersAreNat ==
  ASSUME VInv
  PROVE  \A v \in DOMAIN versions : versions[v].number \in Nat /\ versions[v].number >= 1
BY Typed, VersionFields DEF VInv, VersionShape

(* Such a step takes no answer away: the highest active version stays      *)
(* active, and a version that has become active has a number no higher.    *)
LEMMA AnswersStay ==
  ASSUME VInv, VInv', ~byHand', SameNumbers, OnlyFirstActivated, SuccessStays,
         NEW i, Answers(i)
  PROVE  Answers(i)'
<1>1. PICK m \in DOMAIN versions :
        /\ versions[m].of = i /\ versions[m].active /\ versions[m].status = "success"
        /\ \A u \in DOMAIN versions :
             versions[u].of = i /\ versions[u].active =>
               versions[u].number <= versions[m].number
  BY DEF Answers, Chosen, Highest, VersionsOf
<1>2. /\ m \in DOMAIN versions' /\ versions'[m].of = i /\ versions'[m].active
      /\ versions'[m].status = "success" /\ versions'[m].number = versions[m].number
  BY <1>1 DEF SameNumbers, SuccessStays
<1>3. /\ \A v \in DOMAIN versions : versions[v].number \in Nat /\ versions[v].number >= 1
      /\ \A v \in DOMAIN versions' : versions'[v].number \in Nat /\ versions'[v].number >= 1
  <2>1. versions' \in Seq(VersionSet)
    BY DEF VInv, VersionsTyped
  <2>2. \A v \in DOMAIN versions' : versions'[v] \in VersionSet
    BY <2>1
  <2>3. \A v \in DOMAIN versions' : versions'[v].number \in Nat
    BY <2>2, VersionFields
  <2> QED
    BY <2>3, NumbersAreNat DEF VInv, VersionShape
<1>4. ASSUME NEW u \in DOMAIN versions', versions'[u].of = i, versions'[u].active
      PROVE  versions'[u].number <= versions'[m].number
  <2>1. CASE versions'[u].number = 1
    BY <1>2, <1>3, <2>1
  <2>2. CASE u \in DOMAIN versions /\ versions[u].active
    BY <1>1, <1>2, <1>4, <2>2 DEF SameNumbers
  <2> QED
    BY <1>4, <2>1, <2>2 DEF OnlyFirstActivated
<1>5. ASSUME NEW u \in DOMAIN versions', versions'[u].of = i, versions'[u].active,
             versions'[m].number <= versions'[u].number
      PROVE  versions'[u].status = "success"
  <2>1. versions'[u].number = versions'[m].number
    BY <1>2, <1>3, <1>4, <1>5
  <2>2. CASE versions'[u].number = 1
    <3>1. u = m
      BY <1>2, <1>5, <2>1, <2>2 DEF VInv, OneFirst, FirstUnique
    <3> QED
      BY <1>2, <3>1
  <2>3. CASE versions'[u].number >= 2
    BY <1>5, <2>3 DEF VInv, VersionShape, ByGeneration
  <2> QED
    BY <1>3, <2>2, <2>3
<1>6. m \in Chosen(i)'
  BY <1>2, <1>4 DEF Chosen, Highest, VersionsOf
<1>7. ASSUME NEW u \in Chosen(i)'  PROVE versions'[u].status = "success"
  BY <1>2, <1>5, <1>7 DEF Chosen, Highest, VersionsOf
<1> QED
  BY <1>6, <1>7 DEF Answers

(* The last step of a generation that succeeded makes its version the only *)
(* active one of the listener.                                             *)
LEMMA AnswersFrom ==
  ASSUME VInv, NEW v \in DOMAIN versions, versions[v].status = "success",
         SetActive(versions[v].of, v), NEW i, Answers(i)
  PROVE  Answers(i)'
<1>1. /\ DOMAIN versions' = DOMAIN versions
      /\ \A u \in DOMAIN versions :
           /\ versions'[u].of = versions[u].of /\ versions'[u].number = versions[u].number
           /\ versions'[u].status = versions[u].status
           /\ versions'[u].active <=>
                u = v \/ (versions[u].active /\ versions[u].of # versions[v].of)
  BY SetActiveRows DEF VInv
<1>2. CASE i = versions[v].of
  <2>1. {u \in VersionsOf(i) : versions[u].active}' = {v}
    BY <1>1, <1>2 DEF VersionsOf
  <2>2. versions'[v].number <= versions'[v].number
    BY <1>1, NumbersAreNat
  <2>3. Chosen(i)' = {v}
    BY <2>1, <2>2 DEF Chosen, Highest
  <2> QED
    BY <1>1, <2>3 DEF Answers
<1>3. CASE i # versions[v].of
  <2>1. {u \in VersionsOf(i) : versions[u].active}'
          = {u \in VersionsOf(i) : versions[u].active}
    BY <1>1, <1>3 DEF VersionsOf
  <2>2. Chosen(i)' = Chosen(i) /\ Chosen(i) \subseteq DOMAIN versions
    BY <1>1, <2>1 DEF Chosen, Highest, VersionsOf
  <2> QED
    BY <1>1, <2>2 DEF Answers
<1> QED
  BY <1>2, <1>3

(* No step of a generation takes answers away.                             *)
LEMMA GenerationAnswers ==
  ASSUME VInv, VInv', NEW v \in DOMAIN versions, GenerationStep(v), ~byHand',
         NEW i, Answers(i)
  PROVE  Answers(i)'
<1>0. VersionsTyped /\ VersionShape(v) /\ ByGeneration(v) /\ ~byHand
  BY DEF VInv, GenerationStep, ReadVersion, MarkGenerating, Answer, StoreResponses,
         StoreError, OpenListener, ActivateGenerated
<1>1. ASSUME UNCHANGED versions  PROVE Answers(i)'
  BY <1>1 DEF Answers, Chosen, Highest, VersionsOf
<1>2. ASSUME NEW status \in {"generating", "success", "failed"}, Writes(v, status),
             versions[v].status # "success"
      PROVE  Answers(i)'
  <2>1. /\ DOMAIN versions' = DOMAIN versions
        /\ \A u \in DOMAIN versions : versions'[u].of = versions[u].of
                                   /\ versions'[u].number = versions[u].number
        /\ versions'[v].active = gen[v].active
        /\ \A u \in DOMAIN versions \ {v} : versions'[u] = versions[u]
    BY <1>0, <1>2, WritesRow
  <2>2. SameNumbers /\ SuccessStays
    BY <1>2, <2>1 DEF SameNumbers, SuccessStays
  <2>3. gen[v].active => versions[v].number = 1
    BY <1>0, NumbersAreNat DEF VersionShape, ByGeneration
  <2>4. OnlyFirstActivated
    BY <2>1, <2>3 DEF OnlyFirstActivated
  <2> QED
    BY <2>2, <2>4, AnswersStay
<1>3. ASSUME gen[v].pc \in {"mark", "succeeded", "failed"}
      PROVE  versions[v].status # "success"
  BY <1>0, <1>3 DEF VersionShape
<1>4. CASE MarkGenerating(v)
  BY <1>2, <1>3, <1>4 DEF MarkGenerating, GenGoes
<1>5. CASE StoreResponses(v)
  BY <1>2, <1>3, <1>5 DEF StoreResponses, GenGoes
<1>6. CASE StoreError(v)
  BY <1>2, <1>3, <1>6 DEF StoreError, GenGoes
<1>7. CASE ActivateGenerated(v)
  <2>1. CASE versions[v].status = "success"
    BY <1>7, <2>1, AnswersFrom DEF ActivateGenerated
  <2>2. CASE versions[v].status # "success"
    BY <1>1, <1>7, <2>2 DEF ActivateGenerated
  <2> QED
    BY <2>1, <2>2
<1>8. CASE ReadVersion(v) \/ Answer(v) \/ OpenListener(v)
  BY <1>1, <1>8 DEF ReadVersion, Answer, OpenListener
<1> QED
  BY <1>4, <1>5, <1>6, <1>7, <1>8 DEF GenerationStep

(* A new version is not active, unless it is the first of its listener.    *)
LEMMA AddedAnswers ==
  ASSUME VInv, VInv', NEW j \in Ids, NEW n \in Nat, NEW active \in BOOLEAN,
         AddVersion(j, n, active), active => n = 1, ~byHand', NEW i, Answers(i)
  PROVE  Answers(i)'
<1>1. PICK new : new = Len(versions) + 1
  OBVIOUS
<1>2. /\ DOMAIN versions' = DOMAIN versions \cup {new}
      /\ versions'[new].number = n /\ versions'[new].active = active
      /\ \A v \in DOMAIN versions : versions'[v] = versions[v]
  BY <1>1, AddedRow DEF VInv
<1>3. SameNumbers /\ SuccessStays
  BY <1>2 DEF SameNumbers, SuccessStays
<1>4. OnlyFirstActivated
  BY <1>2 DEF OnlyFirstActivated
<1> QED
  BY <1>3, <1>4, AnswersStay

(* No step takes answers away, but a request that activates a version.     *)
LEMMA StepAnswers ==
  ASSUME IInv, VInv, VInv', [Next]_vars, ~byHand', NEW i, Answers(i)
  PROVE  Answers(i)'
<1>1. ASSUME UNCHANGED versions  PROVE Answers(i)'
  BY <1>1 DEF Answers, Chosen, Highest, VersionsOf
<1>2. ASSUME NEW v \in DOMAIN versions, GenerationStep(v)  PROVE Answers(i)'
  BY <1>2, GenerationAnswers
<1>3. ASSUME NEW r \in Requests, CreateFirstVersion(r)  PROVE Answers(i)'
  <2>1. req[r].id \in Ids /\ AddVersion(req[r].id, 1, TRUE)
    BY <1>3 DEF CreateFirstVersion, IInv, RequestsOK, RequestShape
  <2> QED
    BY <2>1, AddedAnswers
<1>4. ASSUME NEW r \in Requests, CreateVersion(r)  PROVE Answers(i)'
  <2>1. /\ req[r].pc = "regenerate" /\ AddVersion(req[r].id, req[r].arg, FALSE)
        /\ req[r].arg \in Nat /\ \E v \in DOMAIN versions : versions[v].of = req[r].id
    BY <1>4 DEF CreateVersion, VInv, OneFirst, Regenerating, HasVersion
  <2>2. req[r].id \in Ids
    BY <2>1, Typed, VersionFields DEF VInv
  <2> QED
    BY <2>1, <2>2, AddedAnswers
<1>5. ASSUME NEW r \in Requests, AIRequestArrives(r) \/ ReadVersions(r)  PROVE Answers(i)'
  BY <1>1, <1>5 DEF AIRequestArrives, ReadVersions
<1>6. ASSUME NEW r \in Requests, ActivateVersion(r)  PROVE FALSE
  BY <1>6 DEF ActivateVersion
<1>7. CASE AIStep
  <2>1. CASE RestartAll
    BY <1>1, <2>1 DEF RestartAll
  <2> QED
    BY <1>2, <1>3, <1>4, <1>5, <1>6, <1>7, <2>1 DEF AIStep, AIRequestStep
<1>8. CASE UNCHANGED vars \/ (ListenersStep /\ UNCHANGED <<versions, gen, byHand>>)
  BY <1>1, <1>8 DEF vars
<1> QED
  BY <1>7, <1>8 DEF Next

(* KeepsAnswering, for every value of the constants: until a request       *)
(* activates a version, no step of a generation, no request and no restart *)
(* takes from a listener the answers it has.                               *)
THEOREM AnswersKept == Spec => KeepsAnswering
<1>1. ASSUME IInv, VInv, VInv', [Next]_vars
      PROVE  [\A i \in Ids : Answers(i) /\ ~byHand' => Answers(i)']_vars
  BY <1>1, StepAnswers
<1>2. Spec => [](IInv /\ VInv)
  BY VersionsInvariance
<1> QED
  BY <1>1, <1>2, PTL DEF Spec, KeepsAnswering
=============================================================================
