------------------------- MODULE WebDavBackupProofs -------------------------
(***************************************************************************)
(* What holds of WebDavBackup for any accounts, passphrases and            *)
(* identities.                                                             *)
(***************************************************************************)
EXTENDS WebDavBackup, TLAPS

\* A manager between two operations: it holds no secret.
Quiet(m) ==
  /\ ~m.busy
  /\ m.operation = "None"
  /\ ~m.active_password
  /\ m.active_passphrase = None

\* The manager during the request r.  A restoration holds the passphrase the
\* keyring had when it was clicked, whatever the keyring holds now: without
\* this the step that opens the copy says nothing about the click.
InFlight(r) ==
  /\ mgr.busy
  /\ mgr.operation = r.operation
  /\ mgr.account = r.account
  /\ mgr.active_passphrase =
       IF r.operation = "Restore" THEN clicked ELSE None

Paired ==
  \/ /\ client.request = None /\ ~client.password
     /\ Quiet(mgr)
  \/ /\ client.request \in Requests
     /\ InFlight(client.request)

WebDavInv == TypeOK /\ Paired

LEMMA NoneIsNoRequest == None \notin Requests
BY WebDavAssumption

-----------------------------------------------------------------------------
(* The helpers of the manager *)

LEMMA FinishQuiet ==
  ASSUME NEW m \in Manager, NEW result \in {"Idle", "Success", "Error"}
  PROVE  /\ finish(m, result) \in Manager
         /\ Quiet(finish(m, result))
         /\ finish(m, result).password_stored = m.password_stored
         /\ finish(m, result).passphrase_stored = m.passphrase_stored
         /\ finish(m, result).account = m.account
BY DEF finish, clear_active_secrets, Manager, Quiet, Operations

LEMMA SetErrorQuiet ==
  ASSUME NEW m \in Manager
  PROVE  /\ set_error(m) \in Manager
         /\ Quiet(set_error(m))
         /\ set_error(m).password_stored = m.password_stored
         /\ set_error(m).passphrase_stored = m.passphrase_stored
         /\ set_error(m).account = m.account
BY FinishQuiet DEF set_error

\* Flags read from a keyring claim nothing it does not hold.
FlagsOf(m, k) ==
  /\ m.password_stored => k.password
  /\ m.passphrase_stored => k.passphrase # None

LEMMA Refreshed ==
  ASSUME NEW m \in Manager, NEW k \in Keyring,
         NEW r \in refresh_stored_state(m, k)
  PROVE  r \in Manager /\ FlagsOf(r, k) /\ (Quiet(m) => Quiet(r))
<1>1. PICK p \in {FALSE, k.password}, q \in {FALSE, k.passphrase # None} :
        r = [m EXCEPT !.password_stored = p, !.passphrase_stored = q]
  BY DEF refresh_stored_state
<1>2. p \in BOOLEAN /\ q \in BOOLEAN
  BY DEF Keyring
<1>3. r \in Manager
  BY <1>1, <1>2 DEF Manager
<1>4. r.password_stored = p /\ r.passphrase_stored = q
  BY <1>1 DEF Manager
<1>5. Quiet(m) => Quiet(r)
  BY <1>1 DEF Manager, Quiet
<1> QED
  BY <1>3, <1>4, <1>5 DEF FlagsOf

\* What load_credentials() returns true with: one secret, or both.
LEMMA Loaded ==
  ASSUME TypeOK, NEW include \in BOOLEAN,
         NEW m \in credentials_loaded(mgr, include)
  PROVE  /\ m \in Manager
         /\ m.active_password
         /\ m.active_passphrase =
              IF include THEN keyring.passphrase ELSE mgr.active_passphrase
         /\ m.password_stored = mgr.password_stored
         /\ m.passphrase_stored = mgr.passphrase_stored
         /\ m.account = mgr.account
         /\ include => keyring.passphrase \in Passphrases
<1>1. mgr \in Manager /\ keyring \in Keyring
  BY DEF TypeOK
<1>2. CASE include
  <2>1. /\ keyring.passphrase \in Passphrases
        /\ m = [mgr EXCEPT !.active_password = TRUE,
                           !.active_passphrase = keyring.passphrase]
    BY <1>1, <1>2 DEF credentials_loaded, Keyring
  <2> QED
    BY <1>1, <1>2, <2>1 DEF Manager
<1>3. CASE ~include
  <2>1. m = [mgr EXCEPT !.active_password = TRUE]
    BY <1>3 DEF credentials_loaded
  <2> QED
    BY <1>1, <1>3, <2>1 DEF Manager
<1> QED
  BY <1>2, <1>3

\* The invariant of a step that leaves the manager between two operations.
LEMMA QuietAgain ==
  ASSUME TypeOK', client'.request = None, ~client'.password, Quiet(mgr')
  PROVE  WebDavInv'
BY DEF WebDavInv, Paired, Quiet

LEMMA QuietNow ==
  ASSUME WebDavInv, ~mgr.busy
  PROVE  client.request = None /\ ~client.password /\ Quiet(mgr)
BY DEF WebDavInv, Paired, InFlight

LEMMA BusyNow ==
  ASSUME WebDavInv, client.request # None
  PROVE  client.request \in Requests /\ InFlight(client.request)
BY DEF WebDavInv, Paired

-----------------------------------------------------------------------------
(* The settings *)

\* Every setter and every refused operation ends in finish(): the manager is
\* quiet before and after.
LEMMA FinishesQuiet ==
  ASSUME WebDavInv, ~mgr.busy, keyring' \in Keyring,
         NEW m \in Manager,
         NEW result \in {"Idle", "Success", "Error"},
         mgr' = finish(m, result),
         UNCHANGED <<client, identity, remote, answer, playing, clicked>>
  PROVE  WebDavInv'
<1>1. mgr' \in Manager /\ Quiet(mgr')
  BY FinishQuiet
<1>2. TypeOK'
  BY <1>1 DEF WebDavInv, TypeOK
<1>3. client'.request = None /\ ~client'.password
  BY QuietNow
<1> QED
  BY <1>1, <1>2, <1>3, QuietAgain

LEMMA StoreFails ==
  ASSUME WebDavInv, ~mgr.busy, store_fails,
         UNCHANGED <<client, identity, remote, answer, playing, clicked>>
  PROVE  WebDavInv'
<1>1. mgr \in Manager /\ keyring' \in Keyring
  BY DEF WebDavInv, TypeOK, store_fails
<1>2. mgr' = finish(mgr, "Error")
  BY DEF store_fails, set_error
<1> QED
  BY <1>1, <1>2, FinishesQuiet

\* A secret is saved or removed, the flags are read again.
LEMMA Stored ==
  ASSUME WebDavInv, ~mgr.busy, keyring' \in Keyring,
         NEW result \in {"Idle", "Success", "Error"},
         NEW m \in refresh_stored_state(mgr, keyring'),
         mgr' = finish(m, result),
         UNCHANGED <<client, identity, remote, answer, playing, clicked>>
  PROVE  WebDavInv'
<1>1. mgr \in Manager
  BY DEF WebDavInv, TypeOK
<1>2. m \in Manager
  BY <1>1, Refreshed
<1> QED
  BY <1>2, FinishesQuiet

LEMMA SettingsStep ==
  ASSUME WebDavInv,
         StorePassword \/ ClearPassword \/ StorePassphrase \/ ClearPassphrase
  PROVE  WebDavInv'
<1>1. keyring \in Keyring /\ ~mgr.busy
      /\ UNCHANGED <<client, identity, remote, answer, playing, clicked>>
  BY DEF WebDavInv, TypeOK, StorePassword, ClearPassword, StorePassphrase,
         ClearPassphrase
<1>2. CASE store_fails
  BY <1>1, <1>2, StoreFails
<1>3. ASSUME ~store_fails
      PROVE  /\ keyring' \in Keyring
             /\ \E result \in {"Idle", "Success", "Error"},
                   m \in refresh_stored_state(mgr, keyring') :
                  mgr' = finish(m, result)
  <2>1. CASE StorePassword
    BY <1>1, <1>3, <2>1 DEF StorePassword, Keyring
  <2>2. CASE ClearPassword
    BY <1>1, <1>3, <2>2 DEF ClearPassword, Keyring
  <2>3. CASE StorePassphrase
    BY <1>1, <1>3, <2>3 DEF StorePassphrase, Keyring
  <2>4. CASE ClearPassphrase
    BY <1>1, <1>3, <2>4 DEF ClearPassphrase, Keyring
  <2> QED
    BY <2>1, <2>2, <2>3, <2>4
<1>4. CASE ~store_fails
  <2>1. PICK result \in {"Idle", "Success", "Error"},
             m \in refresh_stored_state(mgr, keyring') :
          mgr' = finish(m, result)
    BY <1>3, <1>4
  <2> QED
    BY <1>1, <1>3, <1>4, <2>1, Stored
<1> QED
  BY <1>2, <1>4

LEMMA SetAccountStep ==
  ASSUME WebDavInv, SetAccount
  PROVE  WebDavInv'
<1>1. PICK a \in Accounts \cup {None} : mgr' = [mgr EXCEPT !.account = a]
  BY DEF SetAccount
<1>2. mgr \in Manager /\ Quiet(mgr) /\ client.request = None /\ ~client.password
  BY QuietNow DEF WebDavInv, TypeOK, SetAccount
<1>3. mgr' \in Manager /\ Quiet(mgr')
  BY <1>1, <1>2 DEF Manager, Quiet
<1>4. TypeOK'
  BY <1>3 DEF WebDavInv, TypeOK, SetAccount
<1>5. client'.request = None /\ ~client'.password
  BY <1>2 DEF SetAccount
<1> QED
  BY <1>3, <1>4, <1>5, QuietAgain

-----------------------------------------------------------------------------
(* Starting an operation *)

LEMMA NotSent ==
  ASSUME WebDavInv, ~mgr.busy, not_sent,
         UNCHANGED <<keyring, identity, remote, answer, playing>>
  PROVE  WebDavInv'
<1>1. mgr \in Manager /\ keyring \in Keyring /\ keyring' = keyring
      /\ UNCHANGED <<client, clicked>>
  BY DEF WebDavInv, TypeOK, not_sent
<1>2. PICK m \in {mgr} \cup refresh_stored_state(mgr, keyring) :
        mgr' = set_error(m)
  BY DEF not_sent, credentials_missing
<1>3. m \in Manager
  BY <1>1, <1>2, Refreshed
<1>4. mgr' = finish(m, "Error")
  BY <1>2 DEF set_error
<1> QED
  BY <1>1, <1>3, <1>4, FinishesQuiet

\* A request that goes out holds the password, and the passphrase only if it
\* is a restoration.
LEMMA Sent ==
  ASSUME WebDavInv, ~mgr.busy,
         NEW m \in Manager, m.account \in Accounts,
         NEW operation \in {"TestConnection", "Backup", "Restore"},
         m.active_passphrase =
           IF operation = "Restore" THEN keyring.passphrase ELSE None,
         NEW body \in Copies \cup {None},
         send(m, operation, body),
         UNCHANGED <<keyring, identity, remote, answer, playing>>
  PROVE  WebDavInv'
<1> DEFINE r == [operation |-> operation, account |-> m.account, body |-> body]
<1>1. mgr' = begin(m, operation)
      /\ client' = [request |-> r, password |-> m.active_password]
      /\ clicked' = keyring.passphrase
  BY QuietNow DEF send
<1>2. r \in Requests
  BY DEF Requests, Operations
<1>3. mgr' \in Manager
  BY <1>1 DEF begin, Manager, Operations
<1>4. client' \in Client /\ client'.request = r
  BY <1>1, <1>2 DEF Client, Manager
<1>5. TypeOK'
  BY <1>1, <1>3, <1>4 DEF WebDavInv, TypeOK, Keyring
<1>6. /\ mgr'.busy /\ mgr'.operation = operation
      /\ mgr'.account = m.account
      /\ mgr'.active_passphrase = m.active_passphrase
  BY <1>1 DEF begin, Manager
<1>7. Paired'
  BY <1>1, <1>2, <1>4, <1>6 DEF Paired, InFlight
<1> QED
  BY <1>5, <1>7 DEF WebDavInv

LEMMA TestConnectionStep ==
  ASSUME WebDavInv, TestConnection
  PROVE  WebDavInv'
<1>1. ~mgr.busy /\ UNCHANGED <<keyring, identity, remote, answer, playing>>
  BY DEF TestConnection
<1>2. CASE not_sent
  BY <1>1, <1>2, NotSent
<1>3. CASE ~not_sent
  <2>1. PICK m \in credentials_loaded(mgr, FALSE) :
          mgr.account # None /\ send(m, "TestConnection", None)
    BY <1>3 DEF TestConnection
  <2>2. m \in Manager /\ m.account = mgr.account
        /\ m.active_passphrase = mgr.active_passphrase
    BY <2>1, Loaded DEF WebDavInv
  <2>3. m.account \in Accounts /\ m.active_passphrase = None
    BY <1>1, <2>1, <2>2, QuietNow DEF WebDavInv, TypeOK, Manager, Quiet
  <2> QED
    BY <1>1, <2>1, <2>2, <2>3, Sent
<1> QED
  BY <1>2, <1>3

LEMMA BackupIdentityStep ==
  ASSUME WebDavInv, BackupIdentity
  PROVE  WebDavInv'
<1>1. ~mgr.busy /\ UNCHANGED <<keyring, identity, remote, answer, playing>>
  BY DEF BackupIdentity
<1>2. CASE not_sent
  BY <1>1, <1>2, NotSent
<1>3. CASE ~not_sent
  <2>1. PICK m \in credentials_loaded(mgr, TRUE) :
          /\ mgr.account # None
          /\ \/ mgr' = set_error(m) /\ UNCHANGED <<client, clicked>>
             \/ /\ validate_identity(identity)
                /\ send(seal(m), "Backup",
                        [identity |-> identity,
                         passphrase |-> m.active_passphrase])
    BY <1>3 DEF BackupIdentity
  <2>2. m \in Manager /\ m.account = mgr.account
        /\ m.active_passphrase \in Passphrases
    BY <2>1, Loaded DEF WebDavInv
  <2>3. CASE mgr' = set_error(m) /\ UNCHANGED <<client, clicked>>
    <3>1. mgr' = finish(m, "Error") /\ keyring' \in Keyring
      BY <1>1, <2>2, <2>3 DEF set_error, WebDavInv, TypeOK
    <3> QED
      BY <1>1, <2>2, <2>3, <3>1, FinishesQuiet
  <2>4. CASE /\ validate_identity(identity)
             /\ send(seal(m), "Backup",
                     [identity |-> identity,
                      passphrase |-> m.active_passphrase])
    <3>1. [identity |-> identity, passphrase |-> m.active_passphrase] \in Copies
      BY <2>2, <2>4 DEF validate_identity, Copies
    <3>2. seal(m) \in Manager /\ seal(m).active_passphrase = None
          /\ seal(m).account = m.account
      BY <2>2 DEF seal, Manager
    <3>3. seal(m).account \in Accounts
      BY <2>1, <2>2, <3>2 DEF WebDavInv, TypeOK, Manager
    <3> QED
      BY <1>1, <2>4, <3>1, <3>2, <3>3, Sent
  <2> QED
    BY <2>1, <2>3, <2>4
<1> QED
  BY <1>2, <1>3

LEMMA RestoreIdentityStep ==
  ASSUME WebDavInv, RestoreIdentity
  PROVE  WebDavInv'
<1>1. ~mgr.busy /\ UNCHANGED <<keyring, identity, remote, answer, playing>>
  BY DEF RestoreIdentity
<1>2. CASE not_sent
  BY <1>1, <1>2, NotSent
<1>3. CASE ~not_sent
  <2>1. PICK m \in credentials_loaded(mgr, TRUE) :
          mgr.account # None /\ send(m, "Restore", None)
    BY <1>3 DEF RestoreIdentity
  <2>2. m \in Manager /\ m.account = mgr.account
        /\ m.active_passphrase = keyring.passphrase
    BY <2>1, Loaded DEF WebDavInv
  <2>3. m.account \in Accounts
    BY <2>1, <2>2 DEF WebDavInv, TypeOK, Manager
  <2> QED
    BY <1>1, <2>1, <2>2, <2>3, Sent
<1> QED
  BY <1>2, <1>3

-----------------------------------------------------------------------------
(* Ending one, and the rest *)

LEMMA ReplacedFile ==
  ASSUME NEW contents, NEW r \in replace_identity_data(contents)
  PROVE  r.file = identity \/ (r.file = contents /\ contents \in Identities)
BY DEF replace_identity_data, validate_identity

LEMMA ServerAnswersStep ==
  ASSUME WebDavInv, ServerAnswers
  PROVE  WebDavInv'
<1>1. client.request \in Requests
  BY BusyNow DEF ServerAnswers
<1>2. /\ answer' \in Copies \cup {Garbage, None, NoAnswer}
      /\ remote' \in [Accounts -> Copies \cup {Garbage, None}]
  BY <1>1 DEF WebDavInv, TypeOK, ServerAnswers, Requests
<1> QED
  BY <1>2 DEF WebDavInv, TypeOK, Paired, InFlight, ServerAnswers

\* What a finished request does to the identity file.
LEMMA RequestFinishedIdentity ==
  ASSUME WebDavInv, RequestFinished
  PROVE  \/ identity' = identity
         \/ /\ client.request.operation = "Restore"
            /\ identity' \in Identities
            /\ answer = [identity |-> identity', passphrase |-> clicked]
<1>1. client.request \in Requests /\ InFlight(client.request)
  BY BusyNow DEF RequestFinished
<1>2. CASE client.request.operation = "Restore" /\ restore_completed
  <2>1. CASE UNCHANGED identity
    BY <2>1
  <2>2. CASE ~UNCHANGED identity
    <3>1. PICK plain \in decrypt(answer, mgr.active_passphrase) :
            \E r \in replace_identity_data(plain) : identity' = r.file
      BY <1>2, <2>2 DEF restore_completed
    <3>2. answer \in Copies /\ answer.passphrase = mgr.active_passphrase
          /\ plain = answer.identity
      BY <3>1 DEF decrypt
    <3>3. identity' = plain /\ plain \in Identities
      BY <2>2, <3>1, ReplacedFile
    <3>4. answer.passphrase = clicked
      BY <1>1, <1>2, <3>2 DEF InFlight
    <3> QED
      BY <1>2, <3>2, <3>3, <3>4 DEF Copies
  <2> QED
    BY <2>1, <2>2
<1>3. CASE UNCHANGED identity
  BY <1>3
<1> QED
  BY <1>2, <1>3 DEF RequestFinished, completed_error

LEMMA RequestFinishedStep ==
  ASSUME WebDavInv, RequestFinished
  PROVE  WebDavInv'
<1>1. mgr \in Manager /\ keyring' = keyring
  BY DEF WebDavInv, TypeOK, RequestFinished
<1>2. mgr' \in {finish(mgr, "Success"), finish(mgr, "Error")}
  BY DEF RequestFinished, completed_error, restore_completed, set_error
<1>3. mgr' \in Manager /\ Quiet(mgr')
  BY <1>1, <1>2, FinishQuiet
<1>4. client' = [request |-> None, password |-> FALSE]
  BY DEF RequestFinished
<1>5. identity' \in Identities \cup {Garbage, None}
  BY RequestFinishedIdentity DEF WebDavInv, TypeOK
<1>6. TypeOK'
  BY <1>1, <1>3, <1>4, <1>5 DEF WebDavInv, TypeOK, RequestFinished, Client
<1> QED
  BY <1>3, <1>4, <1>6, QuietAgain

LEMMA WorldStep ==
  ASSUME WebDavInv,
         \/ ImportIdentity \/ StartGame \/ GameExits \/ OtherDevice \/ OtherProgram
         \/ UNCHANGED vars
  PROVE  WebDavInv'
<1>1. UNCHANGED <<mgr, client, answer, clicked>> /\ keyring' \in Keyring
  BY DEF ImportIdentity, StartGame, GameExits, OtherDevice, OtherProgram, vars,
         WebDavInv, TypeOK
<1>2. identity' \in Identities \cup {Garbage, None}
  <2>1. CASE ImportIdentity
    BY <2>1, ReplacedFile DEF ImportIdentity, WebDavInv, TypeOK
  <2>2. CASE UNCHANGED identity
    BY <2>2 DEF WebDavInv, TypeOK
  <2> QED
    BY <2>1, <2>2 DEF StartGame, GameExits, OtherDevice, OtherProgram, vars
<1>3. remote' \in [Accounts -> Copies \cup {Garbage, None}] /\ playing' \in BOOLEAN
  BY DEF WebDavInv, TypeOK, ImportIdentity, StartGame, GameExits, OtherDevice, OtherProgram,
         vars
<1> QED
  BY <1>1, <1>2, <1>3 DEF WebDavInv, TypeOK, Paired, InFlight, Quiet

-----------------------------------------------------------------------------

LEMMA WebDavInit == Init => WebDavInv
<1> SUFFICES ASSUME Init PROVE WebDavInv
  OBVIOUS
<1> DEFINE fresh(a) ==
      [busy |-> FALSE, operation |-> "None", result |-> "Idle",
       password_stored |-> FALSE, passphrase_stored |-> FALSE,
       active_password |-> FALSE, active_passphrase |-> None, account |-> a]
<1>1. PICK a \in Accounts \cup {None} :
        mgr \in refresh_stored_state(fresh(a), keyring)
  BY DEF Init
<1>2. fresh(a) \in Manager /\ Quiet(fresh(a)) /\ keyring \in Keyring
  BY DEF Init, Manager, Operations, Quiet
<1>3. mgr \in Manager /\ Quiet(mgr)
  BY <1>1, <1>2, Refreshed
<1>4. TypeOK
  BY <1>2, <1>3 DEF Init, TypeOK, Client
<1>5. client.request = None /\ ~client.password
  BY DEF Init
<1> QED
  BY <1>3, <1>4, <1>5 DEF WebDavInv, Paired

LEMMA WebDavStep == WebDavInv /\ [Next]_vars => WebDavInv'
BY SettingsStep, SetAccountStep, TestConnectionStep, BackupIdentityStep,
   RestoreIdentityStep, ServerAnswersStep, RequestFinishedStep, WorldStep
DEF Next

LEMMA WebDavAlways == Spec => []WebDavInv
BY WebDavInit, WebDavStep, PTL DEF Spec

\* Which steps touch the identity file.
LEMMA IdentityTouched ==
  ASSUME WebDavInv, [Next]_vars, identity' # identity
  PROVE  \/ ImportIdentity /\ identity' \in Identities
         \/ RequestFinished
<1>1. ImportIdentity \/ RequestFinished
  BY DEF Next, vars, SetAccount, StorePassword, ClearPassword, StorePassphrase,
     ClearPassphrase, TestConnection, BackupIdentity, RestoreIdentity,
     ServerAnswers, StartGame, GameExits, OtherDevice, OtherProgram
<1>2. CASE ImportIdentity
  BY <1>2, ReplacedFile DEF ImportIdentity
<1> QED
  BY <1>1, <1>2

-----------------------------------------------------------------------------
(* The flags of the stored secrets *)

\* What becomes of a click: it is not sent, or the secrets it needs are there and
\* the flags stay, even if a backup then fails on its way.
LEMMA Clicked ==
  ASSUME WebDavInv, TestConnection \/ BackupIdentity \/ RestoreIdentity
  PROVE  /\ ~mgr.busy /\ UNCHANGED keyring
         /\ \/ not_sent
            \/ /\ keyring.password
               /\ \E m \in Manager :
                    /\ m.password_stored = mgr.password_stored
                    /\ m.passphrase_stored = mgr.passphrase_stored
                    /\ \/ mgr' = begin(m, "TestConnection")
                       \/ /\ keyring.passphrase # None
                          /\ mgr' \in {set_error(m), begin(m, "Backup"), begin(m, "Restore")}
<1>1. ~mgr.busy /\ UNCHANGED keyring /\ client.request = None
  BY QuietNow DEF TestConnection, BackupIdentity, RestoreIdentity
<1>2. ASSUME NEW include \in BOOLEAN, NEW m \in credentials_loaded(mgr, include)
      PROVE  /\ keyring.password
             /\ include => keyring.passphrase # None
             /\ m \in Manager
             /\ m.password_stored = mgr.password_stored
             /\ m.passphrase_stored = mgr.passphrase_stored
  BY <1>2, Loaded DEF WebDavInv, credentials_loaded
<1>3. ASSUME NEW m, NEW operation, NEW body, send(m, operation, body)
      PROVE  mgr' = begin(m, operation)
  BY <1>1, <1>3 DEF send
<1>4. CASE TestConnection /\ ~not_sent
  <2>1. PICK m \in credentials_loaded(mgr, FALSE) : send(m, "TestConnection", None)
    BY <1>4 DEF TestConnection
  <2> QED
    BY <1>1, <1>2, <1>3, <1>4, <2>1
<1>5. CASE BackupIdentity /\ ~not_sent
  <2>1. PICK m \in credentials_loaded(mgr, TRUE) :
          \/ mgr' = set_error(m)
          \/ send(seal(m), "Backup",
                  [identity |-> identity, passphrase |-> m.active_passphrase])
    BY <1>5 DEF BackupIdentity
  <2>2. /\ seal(m) \in Manager
        /\ seal(m).password_stored = m.password_stored
        /\ seal(m).passphrase_stored = m.passphrase_stored
    BY <1>2, <2>1 DEF seal, Manager
  <2>3. mgr' = set_error(m) \/ mgr' = begin(seal(m), "Backup")
    BY <1>3, <2>1
  <2> QED
    BY <1>1, <1>2, <1>5, <2>1, <2>2, <2>3
<1>6. CASE RestoreIdentity /\ ~not_sent
  <2>1. PICK m \in credentials_loaded(mgr, TRUE) : send(m, "Restore", None)
    BY <1>6 DEF RestoreIdentity
  <2> QED
    BY <1>1, <1>2, <1>3, <1>6, <2>1
<1> QED
  BY <1>1, <1>4, <1>5, <1>6

LEMMA NotSentFlags ==
  ASSUME WebDavInv, not_sent
  PROVE  /\ mgr.account # None => FlagsOf(mgr', keyring)
         /\ FlagsOf(mgr, keyring) => FlagsOf(mgr', keyring)
<1>1. mgr \in Manager /\ keyring \in Keyring
  BY DEF WebDavInv, TypeOK
<1>2. CASE mgr.account = None /\ mgr' = set_error(mgr)
  BY <1>1, <1>2, SetErrorQuiet DEF FlagsOf
<1>3. CASE mgr' \in credentials_missing(mgr)
  <2>1. PICK m \in refresh_stored_state(mgr, keyring) : mgr' = set_error(m)
    BY <1>3 DEF credentials_missing
  <2>2. m \in Manager /\ FlagsOf(m, keyring)
    BY <1>1, Refreshed
  <2> QED
    BY <2>1, <2>2, SetErrorQuiet DEF FlagsOf
<1> QED
  BY <1>2, <1>3 DEF not_sent

LEMMA BeginKeepsFlags ==
  ASSUME NEW m \in Manager, NEW operation \in Operations
  PROVE  /\ begin(m, operation).busy
         /\ begin(m, operation).operation = operation
         /\ begin(m, operation).password_stored = m.password_stored
         /\ begin(m, operation).passphrase_stored = m.passphrase_stored
BY DEF begin, Manager

-----------------------------------------------------------------------------
(* The promises of the vault *)

VaultStep == Vault!Next \/ UNCHANGED Vault!vars

\* What the page shows is the vault's task, with the fields of the request.
LEMMA TaskIdle ==
  ASSUME ~mgr.busy
  PROVE  vault_task = Vault!Idle
BY DEF vault_task, Vault!Idle

LEMMA TaskUnderWay ==
  ASSUME WebDavInv, client.request # None
  PROVE  /\ vault_task = [operation |-> client.request.operation,
                          account |-> client.request.account,
                          key |-> IF client.request.operation = "Restore"
                                    THEN clicked ELSE None,
                          copy |-> IF client.request.operation = "Backup"
                                     THEN client.request.body
                                   ELSE IF answer = NoAnswer THEN None ELSE answer,
                          done |-> answer # NoAnswer]
         /\ vault_task # Vault!Idle
<1>1. client.request \in Requests /\ InFlight(client.request)
  BY BusyNow
<1>2. client.request.operation # "None"
  BY <1>1 DEF Requests
<1> QED
  BY <1>1, <1>2 DEF vault_task, InFlight, Vault!Idle

\* A step that leaves the manager idle between two operations.
LEMMA ConfigureStep ==
  ASSUME WebDavInv, WebDavInv', ~mgr.busy, ~mgr'.busy,
         UNCHANGED <<identity, remote>>
  PROVE  Vault!Configure
<1>1. vault_task = Vault!Idle /\ vault_task' = Vault!Idle
  BY DEF vault_task, Vault!Idle
<1>2. /\ (keyring.passphrase)' \in Passphrases \cup {None}
      /\ (mgr.result)' \in {"Idle", "Success", "Error"}
  BY DEF WebDavInv, TypeOK, Keyring, Manager
<1> QED
  BY <1>1, <1>2 DEF Vault!Configure

\* Nothing that stops an operation before its request leaves it busy.
LEMMA NotSentIdle ==
  ASSUME WebDavInv, not_sent
  PROVE  ~mgr'.busy
<1>1. PICK m \in {mgr} \cup refresh_stored_state(mgr, keyring) : mgr' = set_error(m)
  BY DEF not_sent, credentials_missing
<1>2. m \in Manager
  BY <1>1, Refreshed DEF WebDavInv, TypeOK
<1> QED
  BY <1>1, <1>2, SetErrorQuiet DEF Quiet

\* Only a click makes the manager busy, and only with the secrets it needs.
LEMMA BeginsWithSecrets ==
  ASSUME WebDavInv, WebDavInv', [Next]_vars, ~mgr.busy, mgr'.busy
  PROVE  /\ keyring.password
         /\ mgr'.operation # "TestConnection" => keyring.passphrase # None
<1>1. client.request = None /\ client'.request # None
  BY QuietNow, NoneIsNoRequest DEF WebDavInv, Paired, Quiet
<1>2. TestConnection \/ BackupIdentity \/ RestoreIdentity
  BY <1>1 DEF Next, vars, ImportIdentity, SetAccount, StorePassword, ClearPassword,
     StorePassphrase, ClearPassphrase, ServerAnswers, RequestFinished, StartGame,
     GameExits, OtherDevice, OtherProgram
<1>3. ~not_sent
  BY NotSentIdle
<1>4. PICK m \in Manager : mgr' = begin(m, "TestConnection") \/ keyring.passphrase # None
  BY <1>2, <1>3, Clicked
<1>5. mgr' = begin(m, "TestConnection") => mgr'.operation = "TestConnection"
  BY BeginKeepsFlags DEF Operations
<1> QED
  BY <1>2, <1>3, <1>4, <1>5, Clicked

\* An operation that is clicked and does not begin leaves no wrong flag.
LEMMA FlagsCorrected ==
  ASSUME WebDavInv, TestConnection \/ BackupIdentity \/ RestoreIdentity,
         mgr.account # None, ~mgr'.busy
  PROVE  FlagsTrue'
<1>1. CASE not_sent
  BY <1>1, Clicked, NotSentFlags DEF FlagsOf, FlagsTrue
<1>2. CASE ~not_sent
  <2>1. PICK m \in Manager : mgr' = begin(m, "TestConnection") \/ keyring.passphrase # None
    BY <1>2, Clicked
  <2>2. mgr' # begin(m, "TestConnection")
    BY BeginKeepsFlags DEF Operations
  <2>3. keyring.password /\ UNCHANGED keyring
    BY <1>2, Clicked
  <2> QED
    BY <2>1, <2>2, <2>3 DEF FlagsTrue
<1> QED
  BY <1>1, <1>2

\* The flags follow what the launcher does to the keyring.
LEMMA FlagsStayTrue ==
  ASSUME WebDavInv, WebDavInv', [Next]_vars, FlagsTrue, mgr' # mgr
  PROVE  FlagsTrue'
<1>1. mgr \in Manager /\ keyring \in Keyring /\ keyring' \in Keyring /\ FlagsOf(mgr, keyring)
  BY DEF WebDavInv, TypeOK, FlagsTrue, FlagsOf
<1>2. CASE TestConnection \/ BackupIdentity \/ RestoreIdentity
  <2>1. CASE not_sent
    BY <1>1, <1>2, <2>1, Clicked, NotSentFlags DEF FlagsOf, FlagsTrue
  <2>2. CASE ~not_sent
    <3>1. PICK m \in Manager :
            /\ m.password_stored = mgr.password_stored
            /\ m.passphrase_stored = mgr.passphrase_stored
            /\ mgr' \in {set_error(m), begin(m, "TestConnection"), begin(m, "Backup"),
                         begin(m, "Restore")}
      BY <1>2, <2>2, Clicked
    <3>2. /\ mgr'.password_stored = mgr.password_stored
          /\ mgr'.passphrase_stored = mgr.passphrase_stored
      BY <3>1, SetErrorQuiet, BeginKeepsFlags DEF Operations
    <3>3. keyring' = keyring
      BY <1>2, Clicked
    <3> QED
      BY <3>2, <3>3 DEF FlagsTrue
  <2> QED
    BY <2>1, <2>2
<1>3. CASE StorePassword \/ ClearPassword \/ StorePassphrase \/ ClearPassphrase
  <2>1. \/ store_fails
        \/ \E result \in {"Idle", "Success", "Error"}, m \in refresh_stored_state(mgr, keyring') :
             mgr' = finish(m, result)
    BY <1>3 DEF StorePassword, ClearPassword, StorePassphrase, ClearPassphrase
  <2>2. CASE store_fails
    BY <1>1, <2>2, SetErrorQuiet DEF store_fails, FlagsTrue
  <2>3. ASSUME NEW result \in {"Idle", "Success", "Error"},
               NEW m \in refresh_stored_state(mgr, keyring'), mgr' = finish(m, result)
        PROVE  FlagsTrue'
    <3>1. m \in Manager /\ FlagsOf(m, keyring')
      BY <1>1, Refreshed
    <3> QED
      BY <2>3, <3>1, FinishQuiet DEF FlagsOf, FlagsTrue
  <2> QED
    BY <2>1, <2>2, <2>3
<1>4. CASE SetAccount
  BY <1>1, <1>4 DEF SetAccount, Manager, FlagsTrue
<1>5. CASE RequestFinished
  <2>1. mgr' \in {finish(mgr, "Success"), finish(mgr, "Error")} /\ keyring' = keyring
    BY <1>5 DEF RequestFinished, completed_error, restore_completed, set_error
  <2> QED
    BY <1>1, <2>1, FinishQuiet DEF FlagsTrue
<1> QED
  BY <1>2, <1>3, <1>4, <1>5 DEF Next, vars, ImportIdentity, ServerAnswers, StartGame,
     GameExits, OtherDevice, OtherProgram

\* A request that goes out begins the task it asks for.
LEMMA SendStep ==
  ASSUME WebDavInv, ~mgr.busy, answer = NoAnswer,
         NEW m \in Manager, m.account \in Accounts,
         NEW operation \in {"TestConnection", "Backup", "Restore"},
         NEW body \in Copies \cup {None}, operation # "Backup" => body = None,
         send(m, operation, body),
         UNCHANGED <<keyring, identity, remote, answer, playing>>
  PROVE  Vault!Begin(Vault!Task(operation, m.account, m.active_passphrase, body))
<1> DEFINE r == [operation |-> operation, account |-> m.account, body |-> body]
<1>1. mgr' = begin(m, operation)
      /\ client' = [request |-> r, password |-> m.active_password]
  BY QuietNow DEF send
<1>2. /\ mgr'.busy /\ mgr'.operation = operation /\ mgr'.account = m.account
      /\ mgr'.active_passphrase = m.active_passphrase /\ mgr'.result = "Idle"
  BY <1>1 DEF begin, Manager
<1>3. client'.request.body = body
  BY <1>1
<1>4. vault_task' = Vault!Task(operation, m.account, m.active_passphrase, body)
  BY <1>2, <1>3 DEF vault_task, Vault!Task
<1> QED
  BY <1>2, <1>4, TaskIdle DEF Vault!Begin

LEMMA TestConnectionVault ==
  ASSUME WebDavInv, WebDavInv', answer = NoAnswer, TestConnection
  PROVE  VaultStep
<1>1. ~mgr.busy /\ UNCHANGED <<keyring, identity, remote, answer, playing>>
  BY DEF TestConnection
<1>2. CASE ~mgr'.busy
  BY <1>1, <1>2, ConfigureStep DEF VaultStep, Vault!Next
<1>3. CASE mgr'.busy
  <2>1. ~not_sent
    BY <1>3, NotSentIdle
  <2>2. PICK m \in credentials_loaded(mgr, FALSE) :
          mgr.account # None /\ send(m, "TestConnection", None)
    BY <2>1 DEF TestConnection
  <2>3. m \in Manager /\ m.account \in Accounts /\ m.active_passphrase = None
    BY <1>1, <2>2, Loaded, QuietNow DEF WebDavInv, TypeOK, Manager, Quiet
  <2>4. Vault!Begin(Vault!Task("TestConnection", m.account, None, None))
    BY <1>1, <2>2, <2>3, SendStep
  <2> QED
    BY <2>3, <2>4 DEF VaultStep, Vault!Next, Vault!Test
<1> QED
  BY <1>2, <1>3

LEMMA BackupIdentityVault ==
  ASSUME WebDavInv, WebDavInv', answer = NoAnswer, BackupIdentity
  PROVE  VaultStep
<1>1. ~mgr.busy /\ UNCHANGED <<keyring, identity, remote, answer, playing>>
  BY DEF BackupIdentity
<1>2. CASE ~mgr'.busy
  BY <1>1, <1>2, ConfigureStep DEF VaultStep, Vault!Next
<1>3. CASE mgr'.busy
  <2> DEFINE copy == [identity |-> identity, passphrase |-> keyring.passphrase]
  <2>1. ~not_sent
    BY <1>3, NotSentIdle
  <2>2. PICK m \in credentials_loaded(mgr, TRUE) :
          /\ mgr.account # None
          /\ \/ mgr' = set_error(m) /\ UNCHANGED <<client, clicked>>
             \/ /\ validate_identity(identity)
                /\ send(seal(m), "Backup",
                        [identity |-> identity, passphrase |-> m.active_passphrase])
    BY <2>1 DEF BackupIdentity
  <2>3. /\ m \in Manager /\ m.account \in Accounts
        /\ m.active_passphrase = keyring.passphrase
        /\ keyring.passphrase \in Passphrases
    BY <2>2, Loaded DEF WebDavInv, TypeOK, Manager
  <2>4. mgr' # set_error(m)
    BY <1>3, <2>3, SetErrorQuiet DEF Quiet
  <2>5. /\ identity \in Identities
        /\ send(seal(m), "Backup", copy)
    BY <2>2, <2>3, <2>4 DEF validate_identity
  <2>6. copy \in Copies
    BY <2>3, <2>5 DEF Copies
  <2>7. seal(m) \in Manager /\ seal(m).account = m.account
        /\ seal(m).active_passphrase = None
    BY <2>3 DEF seal, Manager
  <2>8. Vault!Begin(Vault!Task("Backup", m.account, None, copy))
    BY <1>1, <2>3, <2>5, <2>6, <2>7, SendStep
  <2>9. keyring.passphrase # None
    BY <2>3, WebDavAssumption
  <2> QED
    BY <2>3, <2>5, <2>8, <2>9 DEF VaultStep, Vault!Next, Vault!Backup
<1> QED
  BY <1>2, <1>3

LEMMA RestoreIdentityVault ==
  ASSUME WebDavInv, WebDavInv', answer = NoAnswer, RestoreIdentity
  PROVE  VaultStep
<1>1. ~mgr.busy /\ UNCHANGED <<keyring, identity, remote, answer, playing>>
  BY DEF RestoreIdentity
<1>2. CASE ~mgr'.busy
  BY <1>1, <1>2, ConfigureStep DEF VaultStep, Vault!Next
<1>3. CASE mgr'.busy
  <2>1. ~not_sent
    BY <1>3, NotSentIdle
  <2>2. PICK m \in credentials_loaded(mgr, TRUE) :
          mgr.account # None /\ send(m, "Restore", None)
    BY <2>1 DEF RestoreIdentity
  <2>3. /\ m \in Manager /\ m.account \in Accounts
        /\ m.active_passphrase = keyring.passphrase /\ keyring.passphrase # None
    BY <2>2, Loaded, WebDavAssumption DEF WebDavInv, TypeOK, Manager
  <2>4. Vault!Begin(Vault!Task("Restore", m.account, keyring.passphrase, None))
    BY <1>1, <2>2, <2>3, SendStep
  <2> QED
    BY <2>3, <2>4 DEF VaultStep, Vault!Next, Vault!Restore
<1> QED
  BY <1>2, <1>3

\* The server deals with the request that is the task.
LEMMA ServerAnswersVault ==
  ASSUME WebDavInv, WebDavInv', ServerAnswers
  PROVE  Vault!Serve
<1> DEFINE r == client.request
           key == IF r.operation = "Restore" THEN clicked ELSE None
           before == [operation |-> r.operation, account |-> r.account, key |-> key,
                      copy |-> IF r.operation = "Backup" THEN r.body ELSE None,
                      done |-> FALSE]
           after == [operation |-> r.operation, account |-> r.account, key |-> key,
                     copy |-> IF r.operation = "Backup" THEN r.body ELSE answer',
                     done |-> TRUE]
<1>1. /\ r \in Requests /\ InFlight(r) /\ answer = NoAnswer
      /\ UNCHANGED <<mgr, client, keyring, identity, playing, clicked>>
  BY BusyNow DEF ServerAnswers
<1>2. vault_task = before /\ vault_task # Vault!Idle
  BY <1>1, TaskUnderWay DEF ServerAnswers
<1>3. answer' # NoAnswer
  BY <1>1, WebDavAssumption DEF ServerAnswers, WebDavInv, TypeOK, Requests
<1>4. vault_task' = after
  BY <1>1, <1>3 DEF vault_task, InFlight
<1>5. UNCHANGED <<identity, keyring.passphrase, mgr.result>>
  BY <1>1
<1>6. /\ vault_task.operation = r.operation /\ vault_task.account = r.account
      /\ ~vault_task.done /\ vault_task.key = key
      /\ vault_task.copy = IF r.operation = "Backup" THEN r.body ELSE None
  BY <1>2
<1>7. /\ r.operation \in {"TestConnection", "Backup"} /\ (r.operation = "Backup" \/ answer' = None)
           => vault_task' = Vault!Served(vault_task.copy)
      /\ r.operation = "Restore" => vault_task' = Vault!Served(answer')
  BY <1>4, <1>6 DEF Vault!Served
<1> HIDE DEF before, after
<1>8. CASE r.operation = "TestConnection" /\ answer' = None /\ UNCHANGED remote
  BY <1>2, <1>4, <1>5, <1>6, <1>7, <1>8 DEF Vault!Serve
<1>9. CASE r.operation = "Backup" /\ remote' = [remote EXCEPT ![r.account] = r.body]
  BY <1>2, <1>4, <1>5, <1>6, <1>7, <1>9 DEF Vault!Serve
<1>10. CASE /\ r.operation = "Restore" /\ remote[r.account] # None
            /\ answer' = remote[r.account] /\ UNCHANGED remote
  BY <1>2, <1>4, <1>5, <1>6, <1>7, <1>10 DEF Vault!Serve
<1> QED
  BY <1>8, <1>9, <1>10 DEF ServerAnswers

\* The request ends, and with it the task: in vain, or with all it was for.
LEMMA RequestFinishedVault ==
  ASSUME WebDavInv, WebDavInv', RequestFinished
  PROVE  Vault!Fail \/ Vault!Succeed
<1> DEFINE r == client.request
<1>1. /\ r \in Requests /\ InFlight(r) /\ mgr \in Manager
      /\ UNCHANGED <<keyring, remote, playing>>
  BY BusyNow DEF RequestFinished, WebDavInv, TypeOK
<1>2. /\ vault_task # Vault!Idle
      /\ vault_task.operation = r.operation
      /\ vault_task.done = (answer # NoAnswer)
      /\ r.operation = "Restore" => vault_task.key = clicked
      /\ r.operation = "Restore" /\ answer # NoAnswer => vault_task.copy = answer
  BY TaskUnderWay DEF RequestFinished
<1>3. ASSUME NEW result \in {"Success", "Error"}, mgr' = finish(mgr, result)
      PROVE  vault_task' = Vault!Idle /\ mgr'.result = result
  BY <1>1, <1>3 DEF finish, clear_active_secrets, Manager, vault_task, Vault!Idle
<1>4. UNCHANGED <<remote, keyring.passphrase>>
  BY <1>1
<1>5. CASE mgr' = set_error(mgr) /\ UNCHANGED identity
  BY <1>2, <1>3, <1>4, <1>5 DEF set_error, Vault!Fail
<1>6. CASE /\ answer # NoAnswer /\ r.operation # "Restore"
           /\ mgr' = finish(mgr, "Success") /\ UNCHANGED identity
  BY <1>2, <1>3, <1>4, <1>6 DEF Vault!Succeed
<1>7. CASE answer # NoAnswer /\ r.operation = "Restore" /\ restore_completed
  <2>1. CASE mgr' = set_error(mgr) /\ UNCHANGED identity
    BY <1>5, <2>1
  <2>2. CASE ~(mgr' = set_error(mgr) /\ UNCHANGED identity)
    <3>1. PICK plain \in decrypt(answer, mgr.active_passphrase) :
            \E f \in replace_identity_data(plain) :
              /\ identity' = f.file
              /\ mgr' = IF f.ok THEN finish(mgr, "Success") ELSE set_error(mgr)
      BY <1>7, <2>2 DEF restore_completed
    <3>2. identity' = plain /\ mgr' = finish(mgr, "Success")
      BY <2>2, <3>1 DEF replace_identity_data
    <3>3. /\ answer \in Copies /\ plain = answer.identity
          /\ answer.passphrase = clicked
      BY <1>1, <1>7, <3>1 DEF decrypt, InFlight
    <3>4. answer \in Vault!Copies
      BY <3>3 DEF Copies, Vault!Copies
    <3> QED
      BY <1>2, <1>3, <1>4, <1>7, <3>2, <3>3, <3>4 DEF Vault!Succeed
  <2> QED
    BY <2>1, <2>2
<1> QED
  BY <1>5, <1>6, <1>7 DEF RequestFinished, completed_error

\* Another program changes the passphrase, or nothing the vault is about.
LEMMA OtherProgramVault ==
  ASSUME WebDavInv', OtherProgram
  PROVE  VaultStep
<1>1. UNCHANGED <<identity, remote, mgr.result, vault_task>>
  BY DEF OtherProgram, vault_task
<1>2. (keyring.passphrase)' \in Passphrases \cup {None}
  BY DEF WebDavInv, TypeOK, Keyring
<1> QED
  BY <1>1, <1>2 DEF VaultStep, Vault!Next, Vault!OtherProgram

\* The world changes the identity or the vault, or nothing the vault is about.
LEMMA WorldVault ==
  ASSUME WebDavInv, WebDavInv',
         ImportIdentity \/ StartGame \/ GameExits \/ OtherDevice \/ UNCHANGED vars
  PROVE  VaultStep
<1>1. UNCHANGED <<mgr, client, keyring, answer>>
  BY DEF ImportIdentity, StartGame, GameExits, OtherDevice, vars
<1>2. UNCHANGED <<keyring.passphrase, vault_task, mgr.result>>
  BY <1>1 DEF vault_task
<1>3. CASE UNCHANGED <<identity, remote>>
  BY <1>2, <1>3 DEF VaultStep, Vault!vars
<1>4. CASE identity' # identity
  <2>1. ImportIdentity /\ identity' \in Identities
    BY <1>4, ReplacedFile DEF ImportIdentity, StartGame, GameExits, OtherDevice, vars
  <2> QED
    BY <1>2, <2>1 DEF ImportIdentity, VaultStep, Vault!Next, Vault!Import
<1>5. CASE UNCHANGED identity /\ remote' # remote
  <2>1. OtherDevice
    BY <1>5 DEF ImportIdentity, StartGame, GameExits, OtherDevice, vars
  <2>2. Vault!OtherDevice
    BY <1>2, <2>1 DEF OtherDevice, Vault!OtherDevice, Copies, Vault!Copies
  <2> QED
    BY <2>2 DEF VaultStep, Vault!Next
<1> QED
  BY <1>3, <1>4, <1>5

LEMMA SettingsVault ==
  ASSUME WebDavInv, WebDavInv',
         \/ SetAccount \/ StorePassword \/ ClearPassword
         \/ StorePassphrase \/ ClearPassphrase
  PROVE  VaultStep
<1>1. ~mgr.busy /\ UNCHANGED <<client, identity, remote>>
  BY DEF SetAccount, StorePassword, ClearPassword, StorePassphrase, ClearPassphrase
<1>2. ~mgr'.busy
  BY <1>1, QuietNow, NoneIsNoRequest DEF WebDavInv, Paired, Quiet
<1> QED
  BY <1>1, <1>2, ConfigureStep DEF VaultStep, Vault!Next

\* No answer waits for a request that has ended: a task begins unanswered.
Unanswered == client.request = None => answer = NoAnswer

LEMMA UnansweredStep ==
  ASSUME WebDavInv, Unanswered, [Next]_vars
  PROVE  Unanswered'
<1>1. CASE ServerAnswers
  BY <1>1 DEF ServerAnswers, Unanswered
<1>2. CASE RequestFinished
  BY <1>2 DEF RequestFinished, Unanswered
<1>3. CASE UNCHANGED answer /\ (client'.request = None => client.request = None)
  BY <1>3 DEF Unanswered
<1>4. ASSUME NEW m, NEW operation, NEW body, send(m, operation, body)
      PROVE  client'.request = None => client.request = None
  BY <1>4 DEF send
<1>5. CASE UNCHANGED answer /\ (TestConnection \/ BackupIdentity \/ RestoreIdentity)
  <2>1. client'.request = None => client.request = None
    BY <1>4, <1>5 DEF TestConnection, BackupIdentity, RestoreIdentity, not_sent
  <2> QED
    BY <1>3, <1>5, <2>1
<1> QED
  BY <1>1, <1>2, <1>3, <1>5
  DEF Next, vars, ImportIdentity, SetAccount, StorePassword, ClearPassword,
      StorePassphrase, ClearPassphrase, TestConnection, BackupIdentity,
      RestoreIdentity, StartGame, GameExits, OtherDevice, OtherProgram

LEMMA VaultSteps ==
  ASSUME WebDavInv, WebDavInv', Unanswered, [Next]_vars
  PROVE  [Vault!Next]_(Vault!vars)
<1>1. CASE TestConnection \/ BackupIdentity \/ RestoreIdentity
  <2>1. answer = NoAnswer
    BY <1>1, QuietNow DEF Unanswered, TestConnection, BackupIdentity, RestoreIdentity
  <2> QED
    BY <1>1, <2>1, TestConnectionVault, BackupIdentityVault, RestoreIdentityVault DEF VaultStep
<1>2. CASE ServerAnswers \/ RequestFinished
  BY <1>2, ServerAnswersVault, RequestFinishedVault DEF Vault!Next
<1> QED
  BY <1>1, <1>2, SettingsVault, WorldVault, OtherProgramVault DEF Next, VaultStep

LEMMA VaultInit == Init => Vault!Init
<1> SUFFICES ASSUME Init PROVE Vault!Init
  OBVIOUS
<1>1. WebDavInv /\ client.request = None
  BY WebDavInit DEF Init
<1>2. ~mgr.busy /\ keyring.passphrase \in Passphrases \cup {None}
  BY <1>1, NoneIsNoRequest DEF WebDavInv, Paired, Quiet, TypeOK, Keyring
<1>3. mgr.result = "Idle"
  <2> DEFINE fresh(a) ==
        [busy |-> FALSE, operation |-> "None", result |-> "Idle",
         password_stored |-> FALSE, passphrase_stored |-> FALSE,
         active_password |-> FALSE, active_passphrase |-> None, account |-> a]
  <2>1. PICK a \in Accounts \cup {None} : mgr \in refresh_stored_state(fresh(a), keyring)
    BY DEF Init
  <2>2. PICK p \in {FALSE, keyring.password}, q \in {FALSE, keyring.passphrase # None} :
          mgr = [fresh(a) EXCEPT !.password_stored = p, !.passphrase_stored = q]
    BY <2>1 DEF refresh_stored_state
  <2> QED
    BY <2>2
<1> QED
  BY <1>2, <1>3, TaskIdle DEF Init, Vault!Init

-----------------------------------------------------------------------------
(* Theorems *)

\* Every variable of WebDavBackup keeps its type.
THEOREM WebDavTypeOK == Spec => []TypeOK
<1>1. WebDavInv => TypeOK
  BY DEF WebDavInv
<1> QED
  BY <1>1, WebDavAlways, PTL

\* The manager is busy exactly while its client has a request in flight, and
\* with that request.
THEOREM WebDavBusy == Spec => []BusyMeansRequest
<1>1. WebDavInv => BusyMeansRequest
  BY NoneIsNoRequest DEF WebDavInv, Paired, InFlight, Quiet, BusyMeansRequest
<1> QED
  BY <1>1, WebDavAlways, PTL

\* No secret outlives the operation it was loaded for, on any path.
THEOREM WebDavSecrets == Spec => []SecretsOnlyWhileNeeded
<1>1. WebDavInv => SecretsOnlyWhileNeeded
  BY DEF WebDavInv, Paired, InFlight, Quiet, SecretsOnlyWhileNeeded
<1> QED
  BY <1>1, WebDavAlways, PTL

\* A flag that another program has made wrong does no harm: an operation begins
\* only with its secrets in the keyring, one that does not find them corrects
\* the flags, and no step of the launcher makes right ones wrong.
THEOREM WebDavStaleFlags == Spec => StaleFlagsAreHarmless
<1> DEFINE Harmless ==
      /\ ~mgr.busy /\ mgr'.busy =>
           /\ keyring.password
           /\ mgr'.operation # "TestConnection" => keyring.passphrase # None
      /\ mgr.account # None /\ ~mgr'.busy =>
           (TestConnection \/ BackupIdentity \/ RestoreIdentity => FlagsTrue')
      /\ FlagsTrue /\ mgr' # mgr => FlagsTrue'
<1>1. WebDavInv /\ WebDavInv' /\ [Next]_vars => Harmless
  BY BeginsWithSecrets, FlagsCorrected, FlagsStayTrue
<1>2. WebDavInv /\ WebDavInv' /\ [Next]_vars => [Harmless]_vars
  BY <1>1
<1> QED
  BY <1>2, WebDavAlways, PTL DEF Spec, StaleFlagsAreHarmless

\* No import, answer or failed write replaces a usable identity by anything
\* else.
THEOREM WebDavIdentityUsable == Spec => IdentityStaysUsable
<1>1. WebDavInv /\ [Next]_vars => 
        [(identity \in Identities) => (identity' \in Identities)]_vars
  BY IdentityTouched, RequestFinishedIdentity
<1> QED
  BY <1>1, WebDavAlways, PTL DEF Spec, IdentityStaysUsable

\* A restoration brings what the configured account held, sealed with the
\* passphrase that was in the keyring when it was clicked.
THEOREM WebDavRestoreFaithful == Spec => RestoreIsFaithful
<1> DEFINE Faithful ==
      /\ client.request # None /\ client'.request = None
      /\ identity' # identity
      => /\ client.request.operation = "Restore"
         /\ client.request.account = mgr.account
         /\ answer = [identity |-> identity', passphrase |-> clicked]
<1>1. WebDavInv /\ [Next]_vars => Faithful
  <2> SUFFICES ASSUME WebDavInv, [Next]_vars, client.request # None,
                      client'.request = None, identity' # identity
               PROVE  /\ client.request.operation = "Restore"
                      /\ client.request.account = mgr.account
                      /\ answer = [identity |-> identity', passphrase |-> clicked]
    OBVIOUS
  <2>1. RequestFinished
    BY IdentityTouched DEF ImportIdentity
  <2>2. client.request.account = mgr.account
    BY BusyNow DEF InFlight
  <2> QED
    BY <2>1, <2>2, RequestFinishedIdentity
<1>2. WebDavInv /\ [Next]_vars => [Faithful]_vars
  BY <1>1
<1> QED
  BY <1>2, WebDavAlways, PTL DEF Spec, RestoreIsFaithful

\* The safety half of ImplementsVault: whatever fails or changes meanwhile,
\* what the page reports is what has happened to the identity and the copies.
THEOREM WebDavRefinesVault == Spec => Vault!Init /\ [][Vault!Next]_(Vault!vars)
<1>1. Init => Vault!Init /\ Unanswered
  BY VaultInit DEF Init, Unanswered
<1>2. WebDavInv /\ Unanswered /\ [Next]_vars => Unanswered'
  BY UnansweredStep
<1>3. WebDavInv /\ WebDavInv' /\ Unanswered /\ [Next]_vars => [Vault!Next]_(Vault!vars)
  BY VaultSteps
<1> QED
  BY <1>1, <1>2, <1>3, WebDavAlways, PTL DEF Spec

=============================================================================
