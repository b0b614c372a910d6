---------------------------- MODULE WebDavBackup ----------------------------
(***************************************************************************)
(* WebDavBackupManager with its WebDavClient, the keyring and the identity *)
(* file: the player identity is sealed with the backup passphrase and kept *)
(* on a WebDAV server, one request at a time.  Requests end in any way a   *)
(* network request can, at any time; meanwhile the user may play, import   *)
(* an identity, back up from another device, or change the keyring with    *)
(* another program.                                                        *)
(*                                                                         *)
(* The manager is the record mgr; methods other methods call are operators *)
(* from managers to (sets of) managers.                                    *)
(***************************************************************************)
CONSTANTS
  Accounts,     \* usable pairs of a directory URL and a user name
  Passphrases,  \* backup passphrases
  Identities,   \* contents of identity.json that are JSON objects
  Garbage,      \* any other content, of identity.json or of the remote file
  None,         \* nothing stored; a URL or user name that cannot be used
  NoAnswer      \* the server has not dealt with the request

Operations == {"None", "TestConnection", "Backup", "Restore"}

\* An identity as BackupCrypto::encrypt() seals it.
Copies == [identity : Identities, passphrase : Passphrases]

Requests == [operation : Operations \ {"None"}, account : Accounts,
             body : Copies \cup {None}]

ASSUME WebDavAssumption ==
  /\ {Garbage, None, NoAnswer} \cap (Accounts \cup Passphrases \cup Identities) = {}
  /\ {Garbage, None, NoAnswer} \cap (Copies \cup Requests) = {}
  /\ Garbage # None /\ None # NoAnswer /\ Garbage # NoAnswer

VARIABLES
  mgr,       \* the WebDavBackupManager
  client,    \* the WebDavClient: request in flight, and its m_password
  keyring,   \* the secrets libsecret holds
  identity,  \* identity.json
  remote,    \* remote[a]: cubed-identity-backup.dat in the directory of a
  answer,    \* what the server answered to the request in flight
  playing,   \* CubedGame.running
  clicked    \* history: the passphrase stored when the request was clicked

vars == <<mgr, client, keyring, identity, remote, answer, playing, clicked>>

Manager ==
  [busy              : BOOLEAN,
   operation         : Operations,
   result            : {"Idle", "Success", "Error"},
   password_stored   : BOOLEAN,
   passphrase_stored : BOOLEAN,
   active_password   : BOOLEAN,                    \* not empty
   active_passphrase : Passphrases \cup {None},
   account           : Accounts \cup {None}]

Client == [request : Requests \cup {None}, password : BOOLEAN]

Keyring == [password : BOOLEAN, passphrase : Passphrases \cup {None}]

-----------------------------------------------------------------------------
(* Helpers of the manager *)

clear_active_secrets(m) ==
  [m EXCEPT !.active_password = FALSE, !.active_passphrase = None]

finish(m, result) ==
  clear_active_secrets([m EXCEPT !.busy = FALSE, !.operation = "None",
                                 !.result = result])

set_error(m) == finish(m, "Error")

\* Mutation: the None of the other enum.
begin_none(m, operation) ==
  [m EXCEPT !.busy = TRUE, !.operation = operation, !.result = "None"]

begin(m, operation) ==
  [m EXCEPT !.busy = TRUE, !.operation = operation, !.result = "Idle"]

\* A locked or absent keyring answers like an empty one, at any time.
refresh_stored_state(m, k) ==
  {[m EXCEPT !.password_stored = p, !.passphrase_stored = q] :
     p \in {FALSE, k.password}, q \in {FALSE, k.passphrase # None}}

\* The managers load_credentials() may return true with, ...
credentials_loaded(m, include_passphrase) ==
  IF ~keyring.password THEN {}
  ELSE IF ~include_passphrase THEN {[m EXCEPT !.active_password = TRUE]}
  ELSE IF keyring.passphrase = None THEN {}
  ELSE {[m EXCEPT !.active_password = TRUE,
                  !.active_passphrase = keyring.passphrase]}

\* Mutation: the flags are not read again when a secret turns out to be missing.
credentials_missing_stale(m) == {set_error(m)}

\* ... and those it may return false with.
credentials_missing(m) == {set_error(r) : r \in refresh_stored_state(m, keyring)}

-----------------------------------------------------------------------------
(* IdentityManager *)

\* Mutation: anything goes for a JSON object.
validate_identity_any(contents) == TRUE

validate_identity(contents) == contents \in Identities

\* Whether replace_identity_data() succeeds, and the file after it: QSaveFile
\* leaves the old one when a write fails.
replace_identity_data(contents) ==
  {[ok |-> FALSE, file |-> identity]} \cup
  (IF validate_identity(contents) THEN {[ok |-> TRUE, file |-> contents]} ELSE {})

\* The UI imports and exports only while the game is not running.
ImportIdentity ==
  /\ ~playing
  /\ \E contents \in Identities \cup {Garbage} :
       \E r \in replace_identity_data(contents) : identity' = r.file
  /\ UNCHANGED <<mgr, client, keyring, remote, answer, playing, clicked>>

-----------------------------------------------------------------------------
(* Settings: every control is disabled while the manager is busy *)

SetAccount ==
  /\ ~mgr.busy
  /\ \E a \in Accounts \cup {None} : mgr' = [mgr EXCEPT !.account = a]
  /\ UNCHANGED <<client, keyring, identity, remote, answer, playing, clicked>>

store_fails == mgr' = set_error(mgr) /\ UNCHANGED keyring

StorePassword ==
  /\ ~mgr.busy
  /\ \/ store_fails
     \/ /\ keyring' = [keyring EXCEPT !.password = TRUE]
        /\ \E m \in refresh_stored_state(mgr, keyring') : mgr' = finish(m, "Success")
  /\ UNCHANGED <<client, identity, remote, answer, playing, clicked>>

ClearPassword ==
  /\ ~mgr.busy
  /\ \/ store_fails
     \/ /\ keyring' = [keyring EXCEPT !.password = FALSE]
        /\ \E m \in refresh_stored_state(mgr, keyring') : mgr' = finish(m, "Idle")
  /\ UNCHANGED <<client, identity, remote, answer, playing, clicked>>

\* Mutation: the field is not disabled while a request is in flight.
StorePassphrase_always ==
  /\ \/ store_fails
     \/ \E p \in Passphrases :
          /\ keyring' = [keyring EXCEPT !.passphrase = p]
          /\ \E m \in refresh_stored_state(mgr, keyring') : mgr' = finish(m, "Success")
  /\ UNCHANGED <<client, identity, remote, answer, playing, clicked>>

StorePassphrase ==
  /\ ~mgr.busy
  /\ \/ store_fails                        \* also: fewer than 8 characters
     \/ \E p \in Passphrases :
          /\ keyring' = [keyring EXCEPT !.passphrase = p]
          /\ \E m \in refresh_stored_state(mgr, keyring') : mgr' = finish(m, "Success")
  /\ UNCHANGED <<client, identity, remote, answer, playing, clicked>>

ClearPassphrase ==
  /\ ~mgr.busy
  /\ \/ store_fails
     \/ /\ keyring' = [keyring EXCEPT !.passphrase = None]
        /\ \E m \in refresh_stored_state(mgr, keyring') : mgr' = finish(m, "Idle")
  /\ UNCHANGED <<client, identity, remote, answer, playing, clicked>>

-----------------------------------------------------------------------------
(* Requests *)

\* begin(), then WebDavClient::start(), which refuses a second request.
send(m, operation, body) ==
  IF client.request # None
    THEN mgr' = set_error(begin(m, operation)) /\ UNCHANGED <<client, clicked>>
    ELSE /\ mgr' = begin(m, operation)
         /\ client' = [request |-> [operation |-> operation,
                                    account |-> m.account, body |-> body],
                       password |-> m.active_password]
         /\ clicked' = keyring.passphrase

\* The URL or the user name is rejected, or a secret cannot be had.
not_sent ==
  /\ \/ mgr.account = None /\ mgr' = set_error(mgr)
     \/ mgr.account # None /\ mgr' \in credentials_missing(mgr)
  /\ UNCHANGED <<client, clicked>>

TestConnection ==
  /\ ~mgr.busy /\ mgr.password_stored
  /\ \/ not_sent
     \/ /\ mgr.account # None
        /\ \E m \in credentials_loaded(mgr, FALSE) : send(m, "TestConnection", None)
  /\ UNCHANGED <<keyring, identity, remote, answer, playing>>

configuration_ready == mgr.password_stored /\ mgr.passphrase_stored

\* Mutation: the passphrase is kept after the identity is sealed.
seal_keeping(m) == m

\* encrypt() has returned: the passphrase is no longer needed.
seal(m) == [m EXCEPT !.active_passphrase = None]

BackupIdentity ==
  /\ ~mgr.busy /\ configuration_ready /\ ~playing
  /\ \/ not_sent
     \/ /\ mgr.account # None
        /\ \E m \in credentials_loaded(mgr, TRUE) :
             \/ /\ mgr' = set_error(m)  \* read or encrypt fails
                /\ UNCHANGED <<client, clicked>>
             \/ /\ validate_identity(identity)
                /\ send(seal(m), "Backup",
                        [identity |-> identity, passphrase |-> m.active_passphrase])
  /\ UNCHANGED <<keyring, identity, remote, answer, playing>>

RestoreIdentity ==
  /\ ~mgr.busy /\ configuration_ready /\ ~playing
  /\ \/ not_sent
     \/ /\ mgr.account # None
        /\ \E m \in credentials_loaded(mgr, TRUE) : send(m, "Restore", None)
  /\ UNCHANGED <<keyring, identity, remote, answer, playing>>

\* The server deals with the request; a file it does not have it answers with
\* an error.
ServerAnswers ==
  /\ client.request # None /\ answer = NoAnswer
  /\ LET r == client.request
     IN  \/ /\ r.operation = "TestConnection"
            /\ answer' = None
            /\ UNCHANGED remote
         \/ /\ r.operation = "Backup"
            /\ remote' = [remote EXCEPT ![r.account] = r.body]
            /\ answer' = r.body
         \/ /\ r.operation = "Restore" /\ remote[r.account] # None
            /\ answer' = remote[r.account]
            /\ UNCHANGED remote
  /\ UNCHANGED <<mgr, client, keyring, identity, playing, clicked>>

\* Mutation: any passphrase opens the copy.
decrypt_unauthenticated(contents, passphrase) ==
  IF contents \in Copies THEN {contents.identity} ELSE {}

\* The plaintext, unless the envelope is not one of ours or its tag does not
\* verify under this passphrase.
decrypt(contents, passphrase) ==
  IF contents \in Copies /\ contents.passphrase = passphrase
    THEN {contents.identity} ELSE {}

completed_error == mgr' = set_error(mgr) /\ UNCHANGED identity

\* Mutation: whether the file could be written is not asked.
restore_completed_unchecked ==
  \/ /\ decrypt(answer, mgr.active_passphrase) = {}
     /\ mgr' = set_error(mgr)
     /\ UNCHANGED identity
  \/ \E plain \in decrypt(answer, mgr.active_passphrase) :
       \E r \in replace_identity_data(plain) :
         identity' = r.file /\ mgr' = finish(mgr, "Success")

\* The contents decrypt and replace the file, or nothing happens to it.
restore_completed ==
  \/ /\ decrypt(answer, mgr.active_passphrase) = {}
     /\ mgr' = set_error(mgr)
     /\ UNCHANGED identity
  \/ \E plain \in decrypt(answer, mgr.active_passphrase) :
       \E r \in replace_identity_data(plain) :
         /\ identity' = r.file
         /\ mgr' = IF r.ok THEN finish(mgr, "Success") ELSE set_error(mgr)

\* on_finished() clears the client and calls on_client_completed().  A request
\* may also fail after the server has dealt with it: 30 s without a byte, an
\* oversized response, a lost connection.
RequestFinished ==
  /\ client.request # None
  /\ client' = [request |-> None, password |-> FALSE]
  /\ answer' = NoAnswer
  /\ clicked' = None
  /\ \/ completed_error
     \/ /\ answer # NoAnswer
        /\ IF client.request.operation = "Restore" THEN restore_completed
           ELSE mgr' = finish(mgr, "Success") /\ UNCHANGED identity
  /\ UNCHANGED <<keyring, remote, playing>>

-----------------------------------------------------------------------------
(* The world around *)

\* The Launch page starts the game whatever the backup manager does.
StartGame ==
  /\ ~playing /\ playing' = TRUE
  /\ UNCHANGED <<mgr, client, keyring, identity, remote, answer, clicked>>

GameExits ==
  /\ playing /\ playing' = FALSE
  /\ UNCHANGED <<mgr, client, keyring, identity, remote, answer, clicked>>

\* Another device backs up, or something else writes the remote file.
OtherDevice ==
  /\ \E a \in Accounts, c \in Copies \cup {Garbage, None} :
       remote' = [remote EXCEPT ![a] = c]
  /\ UNCHANGED <<mgr, client, keyring, identity, answer, playing, clicked>>

\* The keyring belongs to the desktop: its own tools, or a second launcher, may
\* store, replace and remove secrets, and tell nobody.
OtherProgram ==
  /\ keyring' \in Keyring
  /\ UNCHANGED <<mgr, client, identity, remote, answer, playing, clicked>>

Init ==
  /\ keyring \in Keyring
  /\ \E a \in Accounts \cup {None} :
       mgr \in refresh_stored_state(
                 [busy |-> FALSE, operation |-> "None", result |-> "Idle",
                  password_stored |-> FALSE, passphrase_stored |-> FALSE,
                  active_password |-> FALSE, active_passphrase |-> None,
                  account |-> a], keyring)
  /\ client = [request |-> None, password |-> FALSE]
  /\ identity \in Identities \cup {Garbage, None}
  /\ remote = [a \in Accounts |-> None]
  /\ answer = NoAnswer
  /\ playing = FALSE
  /\ clicked = None

Next ==
  \/ ImportIdentity \/ SetAccount
  \/ StorePassword \/ ClearPassword \/ StorePassphrase \/ ClearPassphrase
  \/ TestConnection \/ BackupIdentity \/ RestoreIdentity
  \/ ServerAnswers \/ RequestFinished
  \/ StartGame \/ GameExits \/ OtherDevice \/ OtherProgram

\* WebDavClient sets a transfer timeout: every request ends.
Fairness == WF_vars(RequestFinished)

Spec == Init /\ [][Next]_vars /\ Fairness

-----------------------------------------------------------------------------

TypeOK ==
  /\ mgr \in Manager
  /\ client \in Client
  /\ keyring \in Keyring
  /\ identity \in Identities \cup {Garbage, None}
  /\ remote \in [Accounts -> Copies \cup {Garbage, None}]
  /\ answer \in Copies \cup {Garbage, None, NoAnswer}
  /\ playing \in BOOLEAN
  /\ clicked \in Passphrases \cup {None}

\* The manager is busy exactly while its client has a request in flight, and
\* with that request: no call refused, no answer is taken for another one's.
BusyMeansRequest ==
  /\ mgr.busy <=> client.request # None
  /\ mgr.busy => /\ mgr.operation = client.request.operation
                 /\ mgr.account = client.request.account
  /\ ~mgr.busy => mgr.operation = "None"

\* A secret stays in memory only as long as it is needed: the password while
\* a request may have to authenticate, the passphrase while a copy that is on
\* its way has to be opened.  Every early return wipes what was loaded.
SecretsOnlyWhileNeeded ==
  /\ mgr.active_password \/ client.password => mgr.busy
  /\ mgr.active_passphrase # None => mgr.operation = "Restore"

\* What the page says is stored is there.
FlagsTrue ==
  /\ mgr.password_stored => keyring.password
  /\ mgr.passphrase_stored => keyring.passphrase # None

\* The page shows flags that are cached, and goes on saying "stored" when
\* another program has removed the secret.  Nothing is done in that belief: no
\* operation begins without the secrets it needs, which are read anew; one that
\* does not find them corrects the flags; and nothing the launcher does by
\* itself makes flags wrong that were right.
StaleFlagsAreHarmless ==
  [][/\ ~mgr.busy /\ mgr'.busy =>
          /\ keyring.password
          /\ mgr'.operation # "TestConnection" => keyring.passphrase # None
     /\ mgr.account # None /\ ~mgr'.busy =>
          (TestConnection \/ BackupIdentity \/ RestoreIdentity => FlagsTrue')
     /\ FlagsTrue /\ mgr' # mgr => FlagsTrue']_vars

\* A usable identity is only ever replaced by a usable identity, whatever was
\* selected for import or came from the server.
IdentityStaysUsable ==
  [][(identity \in Identities) => (identity' \in Identities)]_vars

\* A restoration brings what the configured account held, sealed with the
\* passphrase that was stored when the user clicked: the account has not changed
\* since, and what another program has done to the keyring makes no difference.
RestoreIsFaithful ==
  [][/\ client.request # None /\ client'.request = None
     /\ identity' # identity
     => /\ client.request.operation = "Restore"
        /\ client.request.account = mgr.account
        /\ answer = [identity |-> identity', passphrase |-> clicked]]_vars

\* The operation under way and what the server has answered to it.
vault_task ==
  IF ~mgr.busy THEN [operation |-> "None", account |-> None, key |-> None, copy |-> None,
                     done |-> FALSE]
  ELSE [operation |-> mgr.operation,
        account |-> mgr.account,
        key |-> mgr.active_passphrase,
        copy |-> IF mgr.operation = "Backup" THEN client.request.body
                 ELSE IF answer = NoAnswer THEN None ELSE answer,
        done |-> answer # NoAnswer]

Vault == INSTANCE IdentityVault WITH vault <- remote, secret <- keyring.passphrase,
                                     task <- vault_task, report <- mgr.result

\* Whatever the keyring, the server and the network do, the page keeps the
\* promises of the vault: what is reported has happened, with the identity, the
\* account and the passphrase of the click, and every operation ends.
ImplementsVault == Vault!Spec

\* "Exit Cubed before backing up or restoring the player identity."
\* (qml/Tab/Setting.qml:345): the identity is not replaced under a running game.
IdentityFixedWhilePlaying == [][playing => identity' = identity]_vars
=============================================================================
