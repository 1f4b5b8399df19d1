----------------------------- MODULE AIProviders ----------------------------
(***************************************************************************)
(* An AI provider, its test and its updates, and the conversation about an *)
(* AI listener's responses (server/server_api_ai.go,                       *)
(* share/database/ai_providers.go).  Every request reads a row, may call   *)
(* the provider for as long as half a minute, and writes the whole row     *)
(* back; so does the generation of responses, to the conversation's row.   *)
(***************************************************************************)
EXTENDS Naturals, FiniteSets, Sequences, SequencesExt

CONSTANTS
  Keys,         \* API keys a provider may be given
  GoodKeys,     \* those the test of the connection accepts
  FirstKey,     \* the key the provider is created with
  Testers,      \* requests to test the provider, one at a time each
  KeyEditors,   \* requests to update it, likewise
  Chats,        \* messages of users, each sent once
  Generations,  \* generations of responses that end meanwhile
  MaxWritten,   \* bound: writes of the provider's row
  MaxUnsaved,   \* bound: chats whose UPDATE fails
  NoCopy        \* nothing was read; also: the row is gone

ASSUME ProvidersAssumption ==
  /\ GoodKeys \subseteq Keys /\ FirstKey \in Keys
  /\ Chats \cap Generations = {}
  /\ MaxWritten \in Nat /\ MaxUnsaved \in Nat

VARIABLES
  provider,  \* the row of ai_providers
  held,      \* request -> its copy of that row
  written,   \* writes of the row
  thread,    \* the conversation_thread of ai_listeners, as exchanges
  chat,      \* chat -> where its request is and the thread it has read
  generator, \* generation -> the thread it has read
  since,     \* history: chat or generation -> the chats saved since it read
  saved,     \* history: the chats whose row was written
  exposed    \* history: the chats saved between a read and a write of another

providerVars == <<provider, held, written, thread, chat, generator, since, saved, exposed>>
rowOnly == <<thread, chat, generator, since, saved, exposed>>
threadOnly == <<provider, held, written>>

ProviderRow(key, status) == [key |-> key, status |-> status]
ChatAt(pc, copy) == [pc |-> pc, copy |-> copy]

(* CreateAIProvider; handleCreateAIListener begins with an empty thread.   *)
ProvidersInit ==
  /\ provider = ProviderRow(FirstKey, "untested")
  /\ held = [r \in Testers \cup KeyEditors |-> NoCopy]
  /\ written = 0
  /\ thread = <<>>
  /\ chat = [c \in Chats |-> ChatAt("new", <<>>)]
  /\ generator = [g \in Generations |-> NoCopy]
  /\ since = [w \in Chats \cup Generations |-> {}]
  /\ saved = {} /\ exposed = {}

-----------------------------------------------------------------------------
(* The provider.                                                           *)

ReadProvider(r) ==
  /\ held[r] = NoCopy /\ provider # NoCopy /\ written < MaxWritten
  /\ held' = [held EXCEPT ![r] = provider]
  /\ UNCHANGED <<provider, written, rowOnly>>

(* An UPDATE of a row that is gone changes nothing, and is no error.       *)
UpdateAIProvider(r, row) ==
  /\ held[r] # NoCopy /\ written < MaxWritten
  /\ provider' = IF provider = NoCopy THEN NoCopy ELSE row
  /\ held' = [held EXCEPT ![r] = NoCopy]
  /\ written' = written + 1
  /\ UNCHANGED rowOnly

(* handleTestAIProviderConnection: only the form of the key is looked at.  *)
TestResult(key) == IF key \in GoodKeys THEN "success" ELSE "failed"
SaveTest(t) == UpdateAIProvider(t, [held[t] EXCEPT !.status = TestResult(held[t].key)])

(* Variant: the status stays when the key changes.                         *)
WithKeyOnly(row, key) == [row EXCEPT !.key = key]

(* "Reset test status when API key changes".                               *)
WithKey(row, key) == ProviderRow(key, "untested")

SaveUpdate(e) ==
  \/ UpdateAIProvider(e, held[e])    \* a request without a key
  \/ \E key \in Keys : UpdateAIProvider(e, WithKey(held[e], key))

DeleteAIProvider ==
  /\ provider # NoCopy /\ written < MaxWritten
  /\ provider' = NoCopy
  /\ written' = written + 1
  /\ UNCHANGED <<held, rowOnly>>

-----------------------------------------------------------------------------
(* The conversation.                                                       *)

ChatGoes(c, from, to) == chat[c].pc = from /\ chat' = [chat EXCEPT ![c].pc = to]

(* handleAIListenerChat reads the listener's row, ...                      *)
ReadThread(c) ==
  /\ chat[c].pc = "new"
  /\ chat' = [chat EXCEPT ![c] = ChatAt("provider", thread)]
  /\ UNCHANGED <<threadOnly, thread, generator, since, saved, exposed>>

(* ... then the provider's, which may be gone, and asks the provider, who  *)
(* may fail.  Either ends the request.                                     *)
AskProvider(c) ==
  /\ \/ provider # NoCopy /\ ChatGoes(c, "provider", "write")
     \/ ChatGoes(c, "provider", "failed")
  /\ UNCHANGED <<threadOnly, thread, generator, since, saved, exposed>>

(* Whoever has read, and not yet written, has not seen chat c.             *)
Reading(w) == IF w \in Chats THEN chat[w].pc \in {"provider", "write"} ELSE generator[w] # NoCopy
SeenLess(c) ==
  [w \in Chats \cup Generations |->
     IF w # c /\ Reading(w) THEN since[w] \cup {c} ELSE since[w]]

(* Variant: the thread saved is the part of it the provider was sent.      *)
ExtendedWindow(copy, c) == Append(IF Len(copy) < 2 THEN copy ELSE Tail(copy), c)

(* The message and the answer are appended.  The provider is sent no more  *)
(* than the last ten messages; the thread keeps all.                       *)
Extended(copy, c) == Append(copy, c)

(* UpdateAIListener; that it fails is logged, and the answer given.        *)
WriteThread(c) ==
  /\ ChatGoes(c, "write", "done")
  /\ thread' = Extended(chat[c].copy, c)
  /\ since' = SeenLess(c)
  /\ saved' = saved \cup {c}
  /\ exposed' = exposed \cup since[c]
  /\ UNCHANGED <<threadOnly, generator>>

NotSaved(c) ==
  /\ Cardinality({d \in Chats : chat[d].pc = "done"} \ saved) < MaxUnsaved
  /\ ChatGoes(c, "write", "done")
  /\ UNCHANGED <<threadOnly, thread, generator, since, saved, exposed>>

(* generateAIResponsesForVersion reads the same row before the provider is *)
(* asked, and writes it after; updateAIResponseVersionError reads and      *)
(* writes it when the generation has failed.                               *)
ReadForGeneration(g) ==
  /\ generator[g] = NoCopy
  /\ generator' = [generator EXCEPT ![g] = thread]
  /\ since' = [since EXCEPT ![g] = {}]
  /\ UNCHANGED <<threadOnly, thread, chat, saved, exposed>>

WriteGenerated(g) ==
  /\ generator[g] # NoCopy
  /\ thread' = generator[g]
  /\ generator' = [generator EXCEPT ![g] = NoCopy]
  /\ exposed' = exposed \cup since[g]
  /\ UNCHANGED <<threadOnly, chat, since, saved>>

ProvidersNext ==
  \/ \E r \in Testers \cup KeyEditors : ReadProvider(r)
  \/ \E t \in Testers : SaveTest(t)
  \/ \E e \in KeyEditors : SaveUpdate(e)
  \/ DeleteAIProvider
  \/ \E c \in Chats : ReadThread(c) \/ AskProvider(c) \/ WriteThread(c) \/ NotSaved(c)
  \/ \E g \in Generations : ReadForGeneration(g) \/ WriteGenerated(g)

ProvidersSpec == ProvidersInit /\ [][ProvidersNext]_providerVars

-----------------------------------------------------------------------------
(* Properties.                                                             *)

ProvidersTypeOK ==
  /\ provider \in [key : Keys, status : {"untested", "success", "failed"}] \cup {NoCopy}
  /\ written \in 0..MaxWritten
  /\ \A c \in Chats : chat[c].pc \in {"new", "provider", "write", "failed", "done"}
  /\ ToSet(thread) \subseteq Chats
  /\ saved \subseteq Chats /\ exposed \subseteq saved

(* The result of a test that the row shows is that of the key it has,      *)
(* however tests and changes of the key overlap: because the whole row is  *)
(* written, a test that is late takes the key it tested back with it.      *)
StatusIsOfKey ==
  provider # NoCopy /\ provider.status # "untested" =>
    provider.status = TestResult(provider.key)

(* A chat that was saved stays in the conversation, once, unless another   *)
(* chat or a generation had read the row before and wrote it after.        *)
ChatsStay ==
  /\ saved \ exposed \subseteq ToSet(thread)
  /\ IsInjective(thread)
=============================================================================
