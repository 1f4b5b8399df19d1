--------------------------- MODULE MCAdministration ---------------------------
(***************************************************************************)
(* Who is let in, and what administrators may change: an instance of the   *)
(* limits of logins (Access), the security events (SecurityEvents), the    *)
(* accounts in the database (Accounts) or in a file (UserFile), the ports  *)
(* (PortAllocation) and the AI providers (AIProviders).  They share        *)
(* nothing but the mutexes that Access holds while SecurityEvents records, *)
(* so a behaviour is of one of them, and the others rest.                  *)
(***************************************************************************)
EXTENDS Access, SecurityEvents, Accounts, UserFile, PortAllocation, AIProviders

Cfg(e, h, p) == [base |-> 1, maxDelay |-> 4, maxExp |-> e, hard |-> h, minutes |-> 2, perIP |-> p]
GivenBackoff == Cfg(1, 2, FALSE)
SavedBackoffs == {Cfg(1, 1, TRUE)}
GivenRate == [max |-> 2, ban |-> 2]
SavedRates == {[max |-> 1, ban |-> 1]}

VARIABLE part

administrationVars ==
  <<part, accessVars, securityVars, accountVars, userFileVars, portVars, providerVars>>

AdministrationInit ==
  /\ part \in {"access", "events", "accounts", "file", "ports", "providers"}
  /\ AccessInit /\ SecurityInit /\ AccountsInit /\ UserFileInit /\ PortsInit /\ ProvidersInit

AdministrationNext ==
  /\ UNCHANGED part
  /\ \/ /\ part = "access" /\ AccessNext
        /\ UNCHANGED <<securityVars, accountVars, userFileVars, portVars, providerVars>>
     \/ /\ part = "events" /\ SecurityNext
        /\ UNCHANGED <<accessVars, accountVars, userFileVars, portVars, providerVars>>
     \/ /\ part = "accounts" /\ AccountsNext
        /\ UNCHANGED <<accessVars, securityVars, userFileVars, portVars, providerVars>>
     \/ /\ part = "file" /\ UserFileNext
        /\ UNCHANGED <<accessVars, securityVars, accountVars, portVars, providerVars>>
     \/ /\ part = "ports" /\ PortsNext
        /\ UNCHANGED <<accessVars, securityVars, accountVars, userFileVars, providerVars>>
     \/ /\ part = "providers" /\ ProvidersNext
        /\ UNCHANGED <<accessVars, securityVars, accountVars, userFileVars, portVars>>

AdministrationSpec == AdministrationInit /\ [][AdministrationNext]_administrationVars

(* Each part's variables have their types.                                 *)
AdministrationTypeOK ==
  /\ AccessTypeOK /\ SecurityTypeOK /\ AccountsTypeOK /\ UserFileTypeOK /\ PortsTypeOK
  /\ ProvidersTypeOK
=============================================================================
