---------------------------- MODULE IdentityVault ----------------------------
(***************************************************************************)
(* What the backup page promises: one task at a time, which ends and is    *)
(* reported.  A backup puts into the vault, once at most, the identity and *)
(* the passphrase of the moment it was asked for; a restoration brings the *)
(* identity of a copy that the account held meanwhile and that the         *)
(* passphrase of that moment opens, whatever becomes of the stored one.    *)
(* Success is never reported for less; after an error a copy may be in the *)
(* vault all the same, but the identity is the old one.                    *)
(***************************************************************************)
CONSTANTS
  Accounts,     \* places in the vault
  Passphrases,
  Identities,
  Garbage,      \* contents of any other kind
  None          \* nothing

Copies == [identity : Identities, passphrase : Passphrases]

VARIABLES
  identity,  \* of the player, on this device
  vault,     \* vault[a]: what the account a holds
  secret,    \* the passphrase, if there is one
  task,      \* the task under way
  report     \* how the last one ended, "Idle" during a task

vars == <<identity, vault, secret, task, report>>

\* Nothing is under way.
Idle ==
  [operation |-> "None", account |-> None, key |-> None, copy |-> None, done |-> FALSE]

\* key is what a restoration has to open its copy with.  copy is what a backup brings, and what a restoration has got; done is set
\* once the vault has been asked.
Task(operation, account, key, copy) ==
  [operation |-> operation, account |-> account, key |-> key, copy |-> copy, done |-> FALSE]

Init ==
  /\ identity \in Identities \cup {Garbage, None}
  /\ vault = [a \in Accounts |-> None]
  /\ secret \in Passphrases \cup {None}
  /\ task = Idle
  /\ report = "Idle"

-----------------------------------------------------------------------------

\* Between two tasks the secrets are changed, and tasks refused.
Configure ==
  /\ task = Idle
  /\ secret' \in Passphrases \cup {None}
  /\ report' \in {"Idle", "Success", "Error"}
  /\ UNCHANGED <<identity, vault, task>>

\* The secret may be changed at any time, without a word.
OtherProgram ==
  /\ secret' \in Passphrases \cup {None}
  /\ UNCHANGED <<identity, vault, task, report>>

Begin(next) ==
  /\ task = Idle
  /\ task' = next
  /\ report' = "Idle"
  /\ UNCHANGED <<identity, vault, secret>>

Test == \E a \in Accounts : Begin(Task("TestConnection", a, None, None))

Backup ==
  /\ identity \in Identities /\ secret # None
  /\ \E a \in Accounts :
       Begin(Task("Backup", a, None, [identity |-> identity, passphrase |-> secret]))

Restore ==
  /\ secret # None
  /\ \E a \in Accounts : Begin(Task("Restore", a, secret, None))

Served(copy) ==
  [operation |-> task.operation, account |-> task.account, key |-> task.key, copy |-> copy,
   done |-> TRUE]

\* The vault deals with the task.
Serve ==
  /\ task # Idle /\ ~task.done
  /\ \/ /\ task.operation = "TestConnection"
        /\ task' = Served(task.copy)
        /\ UNCHANGED vault
     \/ /\ task.operation = "Backup"
        /\ vault' = [vault EXCEPT ![task.account] = task.copy]
        /\ task' = Served(task.copy)
     \/ /\ task.operation = "Restore" /\ vault[task.account] # None
        /\ task' = Served(vault[task.account])
        /\ UNCHANGED vault
  /\ UNCHANGED <<identity, secret, report>>

Fail ==
  /\ task # Idle
  /\ task' = Idle
  /\ report' = "Error"
  /\ UNCHANGED <<identity, vault, secret>>

Succeed ==
  /\ task # Idle /\ task.done
  /\ IF task.operation = "Restore"
       THEN /\ task.copy \in Copies /\ task.copy.passphrase = task.key
            /\ identity' = task.copy.identity
       ELSE UNCHANGED identity
  /\ task' = Idle
  /\ report' = "Success"
  /\ UNCHANGED <<vault, secret>>

Import ==
  /\ identity' \in Identities
  /\ UNCHANGED <<vault, secret, task, report>>

OtherDevice ==
  /\ \E a \in Accounts, c \in Copies \cup {Garbage, None} : vault' = [vault EXCEPT ![a] = c]
  /\ UNCHANGED <<identity, secret, task, report>>

Next ==
  \/ Configure \/ OtherProgram \/ Test \/ Backup \/ Restore \/ Serve \/ Fail \/ Succeed
  \/ Import \/ OtherDevice

Spec == Init /\ [][Next]_vars /\ WF_vars(Fail \/ Succeed)
=============================================================================
