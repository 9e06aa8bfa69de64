------------------------------ MODULE LocalStore ------------------------------
(***************************************************************************)
(* What MatrixRuntime (crates/backend-matrix/src/lib.rs) keeps on disk and *)
(* in the keyring for one homeserver: in each data directory a passphrase  *)
(* file and the SDK's encrypted store, beside it a device-id hint, in the  *)
(* keyring a passphrase and a session shared by all directories.  A handler*)
(* writes them one after the other; each write may fail and the process    *)
(* may stop between any two, which is what this module is about.  The SDK, *)
(* the homeserver and the keyring are external: each answer is a choice.   *)
(***************************************************************************)
CONSTANTS Dirs,    \* data directories
          Keys,    \* store passphrases
          Users,   \* accounts of the homeserver
          Ids,     \* device ids; a device is an account and an id
          None, Torn

Devices == [user : Users, id : Ids]
Stores == [key : Keys, owner : Devices \cup {None}]

ASSUME LocalStoreAssumption ==
    /\ None \notin Dirs \cup Keys \cup Users \cup Ids \cup Devices \cup Stores \cup {Torn}
    /\ Torn \notin Keys

VARIABLES
    file,      \* passphrase file of each directory; Torn: created, still empty
    store,     \* SDK store: the passphrase that opens it and its device
    hint,      \* device-id hint
    secret,    \* passphrase in the keyring
    session,   \* device of the persisted session
    home,      \* the directory that session was saved from; not in the code
    damaged,   \* directories half removed and not opened since; not in the code
    task,      \* the handler being run; "retry" is a login after a recovery
    pc,        \* its next write
    dir,       \* data_dir of init_state
    backend,   \* is a MatrixBackend installed, with dir's store open?
    client,    \* device of session()
    signedIn,  \* is the lifecycle Authenticated or Syncing?
    target,    \* the directory being opened
    key,       \* the passphrase it is opened with
    user,      \* the account that logs in
    preferred  \* the device id it asks for

durableVars == <<file, store, hint, secret, session, home, damaged>>
backendVars == <<dir, backend, client, signedIn>>
localVars == <<target, key, user, preferred>>
vars == <<durableVars, task, pc, backendVars, localVars>>

WipePcs == {"wipeSession", "wipeSecret", "wipeHint", "wipeDir"}
OpenPcs == {"passphrase", "fill", "open"}
LoginPcs == {"login", "save", "hint"}
Pcs == {"idle"} \cup WipePcs \cup OpenPcs \cup LoginPcs

Init ==
    /\ file = [d \in Dirs |-> None] /\ store = [d \in Dirs |-> None]
    /\ hint = [d \in Dirs |-> None]
    /\ secret = None /\ session = None
    /\ home = None /\ damaged = {}
    /\ task = "none" /\ pc = "idle"
    /\ dir = None /\ backend = FALSE /\ client = None /\ signedIn = FALSE
    /\ target = None /\ key = None /\ user = None /\ preferred = None

\* The handler returns, with its work done or given up.
Return ==
    /\ task' = "none" /\ pc' = "idle"
    /\ target' = None /\ key' = None /\ user' = None /\ preferred' = None

DropBackend ==
    dir' = None /\ backend' = FALSE /\ client' = None /\ signedIn' = FALSE

GoTo(stage) == pc' = stage /\ UNCHANGED task

\* The process stops at any point and is started again.
Restart ==
    /\ Return /\ DropBackend
    /\ UNCHANGED durableVars

-----------------------------------------------------------------------------
(* Init: get_or_create_store_passphrase, then the store is opened.         *)

BeginInit(d) ==
    /\ pc = "idle" /\ ~signedIn
    /\ task' = "init" /\ pc' = "passphrase" /\ target' = d
    /\ UNCHANGED <<durableVars, backendVars, key, user, preferred>>

ReadPassphrase ==
    /\ pc = "passphrase" /\ file[target] \in Keys
    /\ key' = file[target]
    /\ GoTo("open")
    /\ UNCHANGED <<durableVars, backendVars, target, user, preferred>>

\* Mutant: what the keyring holds is used without a copy in the directory.
TakePassphraseUncopied(k) ==
    /\ pc = "passphrase" /\ file[target] = None
    /\ key' = k /\ secret' \in {secret, k}
    /\ GoTo("open")
    /\ UNCHANGED <<file, store, hint, session, home, damaged, backendVars,
                   target, user, preferred>>

\* The passphrase k comes from the keyring or, when it has none or fails, is
\* generated and offered to the keyring, whose error is ignored.  fs::write
\* creates the file before it fills it.
TakePassphrase(k) ==
    /\ pc = "passphrase" /\ file[target] = None
    /\ key' = k /\ secret' \in {secret, k}
    /\ file' = [file EXCEPT ![target] = Torn]
    /\ GoTo("fill")
    /\ UNCHANGED <<store, hint, session, home, damaged, backendVars,
                   target, user, preferred>>

FillPassphrase ==
    /\ pc = "fill"
    /\ file' = [file EXCEPT ![target] = key]
    /\ GoTo("open")
    /\ UNCHANGED <<store, hint, secret, session, home, damaged, backendVars, localVars>>

\* An empty file is refused (store_passphrase_file_empty); the file cannot be
\* read, created, which leaves a new passphrase in the keyring, or filled.
PassphraseFails ==
    /\ pc \in {"passphrase", "fill"}
    /\ secret' \in {secret} \cup
          (IF pc = "passphrase" /\ file[target] = None THEN Keys ELSE {})
    /\ Return
    /\ UNCHANGED <<file, store, hint, session, home, damaged, backendVars>>

NewStore == [store EXCEPT ![target] = [key |-> key, owner |-> None]]

\* MatrixBackend::new with a new store or one its passphrase opens; after a
\* recovery the login is tried again.
OpenStore ==
    /\ pc = "open"
    /\ \/ store[target] = None /\ store' = NewStore
       \/ store[target] # None /\ store[target].key = key /\ UNCHANGED store
    /\ damaged' = damaged \ {target}
    /\ dir' = target /\ backend' = TRUE /\ client' = None /\ signedIn' = FALSE
    /\ \/ task = "init" /\ Return
       \/ /\ task = "login" /\ task' = "retry" /\ pc' = "login"
          /\ target' = None /\ key' = None /\ UNCHANGED <<user, preferred>>
    /\ UNCHANGED <<file, hint, secret, session, home>>

\* The passphrase is another store's, or any other error; a new store may have
\* been created all the same.
OpenFails ==
    /\ pc = "open"
    /\ store' \in {store} \cup (IF store[target] = None THEN {NewStore} ELSE {})
    /\ Return
    /\ UNCHANGED <<file, hint, secret, session, home, damaged, backendVars>>

-----------------------------------------------------------------------------
(* The SDK puts a device in the open store.                                *)

\* The store has no device yet, or this one, or was removed under the backend.
Matches(device) == store[dir] # None => store[dir].owner \in {None, device}

Installed(device) ==
    IF store[dir] = None THEN store ELSE [store EXCEPT ![dir].owner = device]

\* An attempt that errs or times out may have done none, the first or both of
\* the SDK's steps: the device in the store, the session in the client.
InstalledInPart(device) ==
    \/ UNCHANGED <<store, client>>
    \/ /\ client = None /\ Matches(device)
       /\ store' = Installed(device) /\ client' \in {None, device}

\* A hint whose write may fail, truncate the file or succeed, all only logged.
HintTried(id) ==
    hint' \in {hint} \cup {[hint EXCEPT ![dir] = h] : h \in {None, id}}

RestoreSession ==
    /\ pc = "idle" /\ ~signedIn /\ backend
    /\ session # None /\ client = None /\ Matches(session)
    /\ store' = Installed(session) /\ client' = session /\ signedIn' = TRUE
    /\ HintTried(session.id)
    /\ UNCHANGED <<file, secret, session, home, damaged, task, pc,
                   dir, backend, localVars>>

RestoreFails ==
    /\ pc = "idle" /\ ~signedIn /\ backend
    /\ session # None /\ InstalledInPart(session)
    /\ UNCHANGED <<file, hint, secret, session, home, damaged, task, pc,
                   dir, backend, signedIn, localVars>>

-----------------------------------------------------------------------------
(* LoginPassword                                                           *)

\* preferred_login_device_id: the persisted session's, else the hint; what
\* cannot be read counts as missing.
PreferredIds ==
    {hint[dir], None} \cup (IF session = None THEN {} ELSE {session.id})

BeginLogin(u) ==
    /\ pc = "idle" /\ ~signedIn /\ backend
    /\ task' = "login" /\ pc' = "login"
    /\ user' = u /\ preferred' \in PreferredIds
    /\ UNCHANGED <<durableVars, backendVars, target, key>>

\* The devices the homeserver may answer with.
Granted == {device \in Devices :
                device.user = user /\ preferred \in {None, device.id}}

LoginSucceeds ==
    /\ pc = "login" /\ client = None
    /\ \E device \in Granted :
          /\ Matches(device)
          /\ store' = Installed(device) /\ client' = device
    /\ GoTo("save")
    /\ UNCHANGED <<file, hint, secret, session, home, damaged,
                   dir, backend, signedIn, localVars>>

\* Mutant: the error is excused without asking for an existing session.
LoginErrsBlindly ==
    /\ pc = "login"
    /\ \E device \in Granted : InstalledInPart(device)
    /\ signedIn' = FALSE \/ (task = "login" /\ signedIn' = TRUE)
    /\ Return
    /\ UNCHANGED <<file, hint, secret, session, home, damaged, dir, backend>>

\* In the first login an existing session excuses some errors.
LoginErrs ==
    /\ pc = "login"
    /\ \E device \in Granted : InstalledInPart(device)
    /\ signedIn' = FALSE \/ (task = "login" /\ client' # None /\ signedIn' = TRUE)
    /\ Return
    /\ UNCHANGED <<file, hint, secret, session, home, damaged, dir, backend>>

\* The store has another device, which the SDK's message names: it becomes the
\* hint and the preferred id, the backend is dropped and the wipe begins.
LoginFindsMismatch ==
    /\ pc = "login" /\ task = "login" /\ client = None
    /\ \E device \in Granted : ~Matches(device)
    /\ HintTried(store[dir].owner.id)
    /\ preferred' = store[dir].owner.id
    /\ backend' = FALSE
    /\ GoTo("wipeSession")
    /\ UNCHANGED <<file, store, secret, session, home, damaged,
                   dir, client, signedIn, target, key, user>>

\* finalize_successful_password_login: the session is stored, or cleared, ...
SaveSession ==
    /\ pc = "save"
    /\ \/ session' = client /\ home' = IF dir \in damaged THEN None ELSE dir
       \/ session' = None /\ home' = None
    /\ GoTo("hint")
    /\ UNCHANGED <<file, store, hint, secret, damaged, backendVars, localVars>>

\* ... then the hint is written, and the login succeeds.
WriteHint ==
    /\ pc = "hint"
    /\ hint' = [hint EXCEPT ![dir] = client.id]
    /\ signedIn' = TRUE
    /\ Return
    /\ UNCHANGED <<file, store, secret, session, home, damaged, dir, backend, client>>

\* The login fails with a session in the client.
FinalizeFails ==
    /\ pc \in {"save", "hint"}
    /\ hint' \in {hint} \cup (IF pc = "hint" THEN {[hint EXCEPT ![dir] = None]} ELSE {})
    /\ Return
    /\ UNCHANGED <<file, store, secret, session, home, damaged, backendVars>>

-----------------------------------------------------------------------------
(* wipe_local_persistence, of a Logout or of a login's recovery.           *)

\* Mutant: neither a backend nor an init_state is required.
BeginLogoutUninitialised ==
    /\ pc = "idle"
    /\ task' = "logout" /\ pc' = "wipeSession"
    /\ UNCHANGED <<durableVars, backendVars, localVars>>

BeginLogout ==
    /\ pc = "idle" /\ backend
    /\ task' = "logout" /\ pc' = "wipeSession"
    /\ UNCHANGED <<durableVars, backendVars, localVars>>

\* Mutant: a session that cannot be deleted does not stop the wipe.
WipeSessionOrNot ==
    /\ pc = "wipeSession"
    /\ \/ session' = None /\ home' = None
       \/ UNCHANGED <<session, home>>
    /\ GoTo("wipeSecret")
    /\ UNCHANGED <<file, store, hint, secret, damaged, backendVars, localVars>>

WipeSession ==
    /\ pc = "wipeSession"
    /\ session' = None /\ home' = None
    /\ GoTo("wipeSecret")
    /\ UNCHANGED <<file, store, hint, secret, damaged, backendVars, localVars>>

WipeSecret ==
    /\ pc = "wipeSecret"
    /\ secret' = None
    /\ GoTo("wipeHint")
    /\ UNCHANGED <<file, store, hint, session, home, damaged, backendVars, localVars>>

WipeHint ==
    /\ pc = "wipeHint"
    /\ hint' = [hint EXCEPT ![dir] = None]
    /\ GoTo("wipeDir")
    /\ UNCHANGED <<file, store, secret, session, home, damaged, backendVars, localVars>>

\* The directory is gone; a recovery opens it anew, a Logout is done.
WipeDir ==
    /\ pc = "wipeDir"
    /\ file' = [file EXCEPT ![dir] = None]
    /\ store' = [store EXCEPT ![dir] = None]
    /\ damaged' = damaged \ {dir}
    /\ \/ /\ task = "login" /\ target' = dir
          /\ GoTo("passphrase")
          /\ UNCHANGED <<backendVars, key, user, preferred>>
       \/ task = "logout" /\ DropBackend /\ Return
    /\ UNCHANGED <<hint, secret, session, home>>

\* remove_dir_all stops half-way.
WipeDirStops ==
    /\ pc = "wipeDir"
    /\ file' \in {file, [file EXCEPT ![dir] = None]}
    /\ store' \in {store, [store EXCEPT ![dir] = None]}
    /\ damaged' = damaged \cup {dir}
    /\ Return
    /\ UNCHANGED <<hint, secret, session, home, backendVars>>

WipeFails ==
    /\ pc \in {"wipeSession", "wipeSecret", "wipeHint"}
    /\ Return
    /\ UNCHANGED <<durableVars, backendVars>>

-----------------------------------------------------------------------------
OpenNext ==
    \/ \E d \in Dirs : BeginInit(d)
    \/ ReadPassphrase
    \/ \E k \in Keys : TakePassphrase(k)
    \/ FillPassphrase \/ PassphraseFails
    \/ OpenStore \/ OpenFails

LoginNext ==
    \/ RestoreSession \/ RestoreFails
    \/ \E u \in Users : BeginLogin(u)
    \/ LoginSucceeds \/ LoginErrs \/ LoginFindsMismatch
    \/ SaveSession \/ WriteHint \/ FinalizeFails

WipeNext ==
    \/ BeginLogout
    \/ WipeSession \/ WipeSecret \/ WipeHint \/ WipeDir
    \/ WipeDirStops \/ WipeFails

Next == OpenNext \/ LoginNext \/ WipeNext \/ Restart

Spec == Init /\ [][Next]_vars

-----------------------------------------------------------------------------
(* Properties                                                              *)

\* Every variable keeps its type.
TypeOK ==
    /\ file \in [Dirs -> Keys \cup {None, Torn}]
    /\ store \in [Dirs -> Stores \cup {None}]
    /\ hint \in [Dirs -> Ids \cup {None}]
    /\ secret \in Keys \cup {None}
    /\ session \in Devices \cup {None}
    /\ home \in Dirs \cup {None}
    /\ damaged \subseteq Dirs
    /\ task \in {"none", "init", "login", "retry", "logout"}
    /\ pc \in Pcs
    /\ dir \in Dirs \cup {None}
    /\ backend \in BOOLEAN /\ signedIn \in BOOLEAN
    /\ client \in Devices \cup {None}
    /\ target \in Dirs \cup {None}
    /\ key \in Keys \cup {None}
    /\ user \in Users \cup {None}
    /\ preferred \in Ids \cup {None}

\* The key of a store is never lost: whatever write failed and wherever the
\* process stopped, and whichever account of the homeserver was logged out, a
\* directory with a store has the file with its passphrase.  The exception is a
\* directory whose removal stopped half-way.
KeyOfStoreKept ==
    \A d \in Dirs \ damaged : store[d] # None => file[d] = store[d].key

\* A session that can be restored has its store: the directory it was saved from
\* has the store of that very device, and the passphrase to open it.  A wipe that
\* removed the store before the session would break this at a crash.
SessionHasStore ==
    home # None =>
        /\ session # None
        /\ store[home] # None
        /\ store[home].owner = session
        /\ file[home] = store[home].key

\* Who is signed in works with the store of the own device, also after a login
\* that was excused, a recovery, a restore of a session saved from another
\* directory and a Logout that failed before it touched the directory.
SignedInOwnsStore ==
    signedIn =>
        /\ backend /\ client # None
        /\ dir \notin damaged =>
              store[dir] # None /\ store[dir].owner = client
=============================================================================
