----------------------------- MODULE Workspace ------------------------------
(***************************************************************************)
(* The credentials of an organization's integrations, sealed with the      *)
(* vault's key, and its members' notifications.                            *)
(***************************************************************************)
EXTENDS Requests

VARIABLES
    envKey,     \* is AUTOMSP_VAULT_KEY set?
    keyFile,    \* .data/vault.key: None (absent, or cut short) or a key
    cachedKey   \* vault.ts cachedKey, this process's copy: None or a key

vaultVars == <<envKey, keyFile, cachedKey>>

EnvKey == 0   \* generated keys are named by the request that generates them

CredentialOf(c) ==
    {i \in ById("integrations", loc[c].target) : i.organizationId = loc[c].org}

(***************************************************************************)
(* loadVaultKey, which sealing and opening start with.  The file is read   *)
(* when neither the cache nor the environment has a key; one that is not   *)
(* there, or does not hold 32 bytes, is written anew with a fresh key.     *)
(***************************************************************************)
LoadVaultKey(c) ==
    /\ At(c, "vault.load")
    /\ IF cachedKey # None
       THEN Goto(c, loc[c].use, [key |-> cachedKey]) /\ UNCHANGED cachedKey
       ELSE IF envKey
       THEN Goto(c, loc[c].use, [key |-> EnvKey]) /\ cachedKey' = EnvKey
       ELSE Goto(c, "vault.read", Nothing) /\ UNCHANGED cachedKey
    /\ UNCHANGED <<db, envKey, keyFile>>

\* Mutant: a process makes a key of its own.
IgnoreKeyFile(c) ==
    /\ At(c, "vault.read")
    /\ Goto(c, "vault.truncate", [key |-> Number(c)])
    /\ UNCHANGED <<db, vaultVars>>

ReadKeyFile(c) ==
    /\ At(c, "vault.read")
    /\ IF keyFile # None
       THEN Goto(c, loc[c].use, [key |-> keyFile]) /\ cachedKey' = keyFile
       ELSE Goto(c, "vault.truncate", [key |-> Number(c)]) /\ UNCHANGED cachedKey
    /\ UNCHANGED <<db, envKey, keyFile>>

TruncateKeyFile(c) ==
    /\ At(c, "vault.truncate")
    /\ keyFile' = None
    /\ Goto(c, "vault.fill", Nothing)
    /\ UNCHANGED <<db, envKey, cachedKey>>

WriteKeyFile(c) ==
    /\ At(c, "vault.fill")
    /\ keyFile' = loc[c].key
    /\ cachedKey' = loc[c].key
    /\ Goto(c, loc[c].use, Nothing)
    /\ UNCHANGED <<db, envKey>>

(***************************************************************************)
(* addIntegrationAction, revokeIntegrationAction, and the use of a         *)
(* credential by an http step (loadCredentialHeader) or an agent's         *)
(* http_request (execHttpRequest), which look it up in the same way.       *)
(***************************************************************************)
AddIntegration(c) ==
    /\ \E m \in SessionContext("integrations.manage") :
           AcceptFrom(m, c, "vault.load", [op |-> "addIntegration", use |-> "vault.seal"])
    /\ UNCHANGED <<db, vaultVars>>

Sealed(c) ==
    Inserting("integrations", [id |-> Number(c), organizationId |-> loc[c].org,
                               status |-> "active", sealedWith |-> loc[c].key])

StoreCredential(c) ==
    /\ At(c, "vault.seal")
    /\ Calling(c, <<Sealed(c),
                    Auditing(c, "integration.credential_added", Number(c)),
                    Notifying(c, None)>>, "idle")
    /\ UNCHANGED <<db, vaultVars>>

RevokeIntegration(c) ==
    /\ \E m \in SessionContext("integrations.manage"), i \in db["integrations"] :
           AcceptFrom(m, c, "vault.revoke", [op |-> "revoke", target |-> i.id])
    /\ UNCHANGED <<db, vaultVars>>

RevokeCredential(c) ==
    /\ At(c, "vault.revoke")
    /\ Calling(c, IF CredentialOf(c) = {} THEN <<>>
                  ELSE <<Updating("integrations", loc[c].target,
                             [status |-> "revoked", sealedWith |-> None]),
                         Auditing(c, "integration.credential_revoked", loc[c].target)>>,
               "idle")
    /\ UNCHANGED <<db, vaultVars>>

\* By the organization of a run, for whatever id a step or a model names.
UseCredential(c) ==
    /\ \E o \in db["organizations"], i \in db["integrations"] :
           Accept(c, "credential.read", [op |-> "openSecret", org |-> o.id, target |-> i.id])
    /\ UNCHANGED <<db, vaultVars>>

ReadCredential(c) ==
    /\ At(c, "credential.read")
    /\ LET active == {i \in CredentialOf(c) : i.status = "active"}
       IN  \/ active = {} /\ Respond(c)
           \/ \E i \in active : Goto(c, "vault.load",
                                   [use |-> "vault.open", sealedWith |-> i.sealedWith])
    /\ UNCHANGED <<db, vaultVars>>

\* Under another key it cannot be unsealed.
OpenSecret(c) ==
    /\ At(c, "vault.open")
    /\ Calling(c, IF loc[c].key # loc[c].sealedWith THEN <<>>
                  ELSE <<Updating("integrations", loc[c].target, [used |-> TRUE])>>, "idle")
    /\ UNCHANGED <<db, vaultVars>>

\* The process ends, with all of its requests, and starts anew.
Restart ==
    /\ area = "vault"
    /\ cachedKey # None \/ ~Idle
    /\ Cardinality(cuts) < MaxCuts
    /\ cuts' = cuts \cup {loc[c].op : c \in {c \in Clients : InFlight(c)}}
    /\ cachedKey' = None
    /\ pc' = [c \in Clients |-> "idle"]
    /\ loc' = [c \in Clients |-> Empty]
    /\ UNCHANGED <<postgres, area, db, served, met, envKey, keyFile>>

(***************************************************************************)
(* markReadAction, markAllReadAction: any member.  A notification for all  *)
(* members is one row, read for all of them by the first.                  *)
(***************************************************************************)
Visible(n, c) ==
    /\ n.organizationId = loc[c].org
    /\ n.userId \in {None, loc[c].user}
    /\ ~n.read

MarkRead(c) ==
    /\ \E m \in db["memberships"], n \in db["notifications"] :
           /\ SignedIn(m)
           /\ AcceptFrom(m, c, "inbox.read", [op |-> "markRead", targets |-> {n.id}])
    /\ UNCHANGED <<db, vaultVars>>

MarkAllRead(c) ==
    /\ \E m \in db["memberships"] :
           /\ SignedIn(m)
           /\ AcceptFrom(m, c, "inbox.read",
                         [op |-> "markRead", targets |-> {n.id : n \in db["notifications"]}])
    /\ UNCHANGED <<db, vaultVars>>

ReadInbox(c) ==
    /\ At(c, "inbox.read")
    /\ Goto(c, "inbox.mark",
            [targets |-> {n.id : n \in {n \in db["notifications"] :
                                          Visible(n, c) /\ n.id \in loc[c].targets}}])
    /\ UNCHANGED <<db, vaultVars>>

MarkNext(c) ==
    /\ At(c, "inbox.mark")
    /\ \/ loc[c].targets = {} /\ Respond(c)
       \/ \E n \in loc[c].targets :
              Goto(c, "calling",
                   [targets |-> loc[c].targets \ {n}, next |-> "inbox.mark",
                    calls |-> <<Updating("notifications", n, [read |-> TRUE])>>])
    /\ UNCHANGED <<db, vaultVars>>

\* An agent's notify_send: to all members of the run's organization.
NotifyTool(c) ==
    /\ \E o \in db["organizations"] : Accept(c, "inbox.send", [op |-> "notify", org |-> o.id])
    /\ UNCHANGED <<db, vaultVars>>

SendNotification(c) ==
    /\ At(c, "inbox.send")
    /\ Calling(c, <<Notifying(c, None)>>, "idle")
    /\ UNCHANGED <<db, vaultVars>>

WorkspaceInit ==
    /\ envKey \in BOOLEAN
    /\ keyFile = None
    /\ cachedKey = None

WorkspaceSubmit(c) ==
    \/ area = "vault" /\ (AddIntegration(c) \/ RevokeIntegration(c) \/ UseCredential(c))
    \/ area = "inbox" /\ (MarkRead(c) \/ MarkAllRead(c) \/ NotifyTool(c))

WorkspaceStep(c) ==
    \/ /\ area = "vault"
       /\ \/ LoadVaultKey(c) \/ ReadKeyFile(c) \/ TruncateKeyFile(c) \/ WriteKeyFile(c)
          \/ StoreCredential(c) \/ RevokeCredential(c)
          \/ ReadCredential(c) \/ OpenSecret(c)
    \/ area = "inbox" /\ (SendNotification(c) \/ ReadInbox(c) \/ MarkNext(c))

(***************************************************************************)
(* Properties.                                                             *)
(***************************************************************************)
\* Sealed records survive restarts (vault.ts): every active credential is sealed
\* with the key that a process starting now would load, whenever a process ended
\* and whatever it was writing, unless two requests for the vault met.  Two that
\* both find no file both write one, and one of the two keys is nowhere any more;
\* every meeting is excused, also where the environment has a key or the file is
\* there and nothing can go wrong.
CredentialsOpen ==
    \/ Met({"addIntegration", "openSecret"})
    \/ \A i \in Table("integrations") :
          i.status = "active" => i.sealedWith = IF envKey THEN EnvKey ELSE keyFile
=============================================================================
