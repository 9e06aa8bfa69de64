--------------------------- MODULE LocalStoreProofs ---------------------------
(***************************************************************************)
(* Theorems about LocalStore, for every set of directories, accounts,      *)
(* device ids and passphrases.                                             *)
(***************************************************************************)
EXTENDS LocalStore, TLAPS

\* Where a directory is being opened, its passphrase is in hand and, once it is
\* written, in the file; a store that is there has that passphrase already.
OpeningKnowsKey ==
    /\ pc \in OpenPcs => target \in Dirs /\ task \in {"init", "login"} /\ ~signedIn
    /\ pc \in {"fill", "open"} => key \in Keys
    /\ pc = "fill" => file[target] = Torn
    /\ pc = "open" => file[target] = key

\* A login works with an installed backend; its recovery has none.
LoginHasBackend ==
    /\ pc \in LoginPcs => backend /\ ~signedIn /\ task \in {"login", "retry"}
    /\ task \in {"login", "retry"} => user \in Users
    /\ pc \in {"save", "hint"} => client # None
    /\ pc \in OpenPcs /\ task = "login" => ~backend
    /\ pc \in WipePcs /\ task = "login" => ~backend /\ ~signedIn
    /\ pc \in WipePcs => dir \in Dirs /\ task \in {"login", "logout"}

\* The wipe has deleted the session before it deletes anything else.
WipeForgetsSessionFirst ==
    pc \in WipePcs \ {"wipeSession"} => session = None

\* The installed backend has the store of its directory open, and its client
\* the device in that store.
BackendHasStore ==
    /\ backend => /\ dir \in Dirs
                  /\ dir \notin damaged => store[dir] # None
    /\ client # None =>
          /\ backend
          /\ dir \notin damaged => store[dir].owner = client

\* The inductive invariant.
LocalStoreInv ==
    /\ TypeOK
    /\ OpeningKnowsKey /\ LoginHasBackend
    /\ WipeForgetsSessionFirst /\ BackendHasStore
    /\ KeyOfStoreKept /\ SessionHasStore /\ SignedInOwnsStore

\* None and Torn are no passphrases, devices or stores.
LEMMA Distinct ==
    /\ None \notin Keys /\ Torn \notin Keys /\ None # Torn
    /\ None \notin Devices /\ None \notin Stores /\ None \notin Dirs
    /\ None \notin Ids /\ None \notin Users
  BY LocalStoreAssumption

LEMMA InitEstablishes == Init => LocalStoreInv
<1> SUFFICES ASSUME Init PROVE LocalStoreInv
  OBVIOUS
<1> USE DEF Init, OpenPcs, LoginPcs, WipePcs
<1>1. TypeOK
  <2>1. backend \in BOOLEAN /\ signedIn \in BOOLEAN
    BY Zenon
  <2> QED
    BY <2>1 DEF TypeOK, Pcs
<1>2. OpeningKnowsKey /\ LoginHasBackend /\ WipeForgetsSessionFirst
  BY DEF OpeningKnowsKey, LoginHasBackend, WipeForgetsSessionFirst
<1>3. BackendHasStore /\ KeyOfStoreKept /\ SessionHasStore /\ SignedInOwnsStore
  BY DEF BackendHasStore, KeyOfStoreKept, SessionHasStore, SignedInOwnsStore
<1> QED
  BY <1>1, <1>2, <1>3 DEF LocalStoreInv

\* What putting a device into the open store changes.
LEMMA InstalledFacts ==
    ASSUME TypeOK, dir \in Dirs, NEW device \in Devices, Matches(device)
    PROVE  /\ Installed(device) \in [Dirs -> Stores \cup {None}]
           /\ \A d \in Dirs : /\ Installed(device)[d] = None <=> store[d] = None
                              /\ store[d] # None => Installed(device)[d].key = store[d].key
                              /\ d # dir => Installed(device)[d] = store[d]
           /\ store[dir] # None => Installed(device)[dir].owner = device
           /\ store[dir] # None /\ store[dir].owner # None => device = store[dir].owner
<1>1. CASE store[dir] = None
  BY <1>1 DEF TypeOK, Installed
<1>2. CASE store[dir] # None
  <2>1. store[dir] \in Stores
    BY <1>2 DEF TypeOK
  <2>2. [store[dir] EXCEPT !.owner = device] \in Stores
    BY <2>1 DEF Stores
  <2>3. Installed(device) = [store EXCEPT ![dir] = [store[dir] EXCEPT !.owner = device]]
    BY <1>2 DEF Installed
  <2>4. /\ [store[dir] EXCEPT !.owner = device].key = store[dir].key
        /\ [store[dir] EXCEPT !.owner = device].owner = device
    BY <2>1 DEF Stores
  <2> QED
    BY <1>2, <2>2, <2>3, <2>4, Distinct DEF TypeOK, Matches
<1> QED
  BY <1>1, <1>2

\* The device a mismatch names.
LEMMA OwnerHasId ==
    ASSUME TypeOK, dir \in Dirs, NEW device \in Devices, ~Matches(device)
    PROVE  store[dir].owner.id \in Ids
  BY DEF TypeOK, Matches, Stores, Devices

-----------------------------------------------------------------------------
(* The invariant is inductive: one lemma per group of actions, in it one    *)
(* step per conjunct.                                                      *)

LEMMA OpenKeepsInv == LocalStoreInv /\ OpenNext => LocalStoreInv'
<1> SUFFICES ASSUME LocalStoreInv, OpenNext PROVE LocalStoreInv'
  OBVIOUS
<1> USE Distinct DEF LocalStoreInv, OpenNext, BeginInit, ReadPassphrase,
    TakePassphrase, FillPassphrase, PassphraseFails, OpenStore, OpenFails,
    NewStore, Return, GoTo, durableVars, backendVars, localVars,
    OpenPcs, LoginPcs, WipePcs
<1>1. (/\ file \in [Dirs -> Keys \cup {None, Torn}]
       /\ store \in [Dirs -> Stores \cup {None}]
       /\ hint \in [Dirs -> Ids \cup {None}])'
  BY DEF TypeOK, OpeningKnowsKey, Stores
<1>2. (/\ secret \in Keys \cup {None} /\ session \in Devices \cup {None}
       /\ home \in Dirs \cup {None} /\ damaged \subseteq Dirs)'
  BY DEF TypeOK
<1>3. (/\ task \in {"none", "init", "login", "retry", "logout"} /\ pc \in Pcs
       /\ dir \in Dirs \cup {None} /\ client \in Devices \cup {None}
       /\ target \in Dirs \cup {None} /\ key \in Keys \cup {None}
       /\ user \in Users \cup {None} /\ preferred \in Ids \cup {None})'
  BY DEF TypeOK, Pcs
<1>4. (backend \in BOOLEAN /\ signedIn \in BOOLEAN)'
  BY Zenon DEF TypeOK
<1>5. OpeningKnowsKey'
  BY DEF OpeningKnowsKey, TypeOK
<1>6. LoginHasBackend'
  BY DEF LoginHasBackend, OpeningKnowsKey, TypeOK
<1>7. WipeForgetsSessionFirst'
  BY DEF WipeForgetsSessionFirst
<1>8. BackendHasStore'
  BY DEF BackendHasStore, OpeningKnowsKey, TypeOK, Stores
<1>9. KeyOfStoreKept'
  BY DEF KeyOfStoreKept, OpeningKnowsKey, TypeOK, Stores
<1>10. SessionHasStore'
  BY DEF SessionHasStore, OpeningKnowsKey, TypeOK, Stores
<1>11. SignedInOwnsStore'
  BY DEF SignedInOwnsStore, OpeningKnowsKey
<1> QED
  BY <1>1, <1>2, <1>3, <1>4, <1>5, <1>6, <1>7, <1>8, <1>9, <1>10, <1>11 DEF TypeOK

\* The steps in which the SDK installs a device, at least in part.
Installs == RestoreSession \/ RestoreFails \/ LoginSucceeds \/ LoginErrs

LEMMA InstallsKeepInv == LocalStoreInv /\ Installs => LocalStoreInv'
<1> SUFFICES ASSUME LocalStoreInv, Installs PROVE LocalStoreInv'
  OBVIOUS
<1> USE Distinct DEF LocalStoreInv, OpenPcs, LoginPcs, WipePcs
<1>1. /\ backend /\ dir \in Dirs
      /\ UNCHANGED <<file, secret, session, home, damaged, dir, backend>>
  BY DEF Installs, RestoreSession, RestoreFails, LoginSucceeds, LoginErrs,
     LoginHasBackend, BackendHasStore
<1>2. \/ UNCHANGED <<store, client>>
      \/ \E device \in Devices :
            /\ Matches(device) /\ client = None
            /\ store' = Installed(device) /\ client' \in {None, device}
  BY DEF Installs, RestoreSession, RestoreFails, LoginSucceeds, LoginErrs,
     Granted, InstalledInPart, TypeOK
<1>3. /\ store' \in [Dirs -> Stores \cup {None}] /\ client' \in Devices \cup {None}
      /\ \A d \in Dirs : /\ store'[d] = None <=> store[d] = None
                         /\ store[d] # None => store'[d].key = store[d].key
                         /\ d # dir => store'[d] = store[d]
      /\ store[dir] # None /\ store[dir].owner # None =>
            store'[dir].owner = store[dir].owner
      /\ client' # None /\ store[dir] # None =>
            store'[dir].owner = client' \/ UNCHANGED <<store, client>>
  <2>1. CASE UNCHANGED <<store, client>>
    BY <2>1 DEF TypeOK
  <2>2. CASE ~UNCHANGED <<store, client>>
    <3>1. PICK device \in Devices :
            /\ Matches(device) /\ client = None
            /\ store' = Installed(device) /\ client' \in {None, device}
      BY <1>2, <2>2
    <3> QED
      BY <1>1, <3>1, InstalledFacts
  <2> QED
    BY <2>1, <2>2
<1>4. \/ pc = "idle" /\ UNCHANGED <<pc, task, target, key, user, preferred>>
      \/ pc' = "save" /\ client' # None /\ ~signedIn
         /\ UNCHANGED <<task, target, key, user, preferred, signedIn>>
      \/ /\ pc' = "idle" /\ task' = "none" /\ target' = None /\ key' = None
         /\ user' = None /\ preferred' = None
  BY DEF Installs, RestoreSession, RestoreFails, LoginSucceeds, LoginErrs,
     GoTo, Return, localVars, LoginHasBackend, Granted, TypeOK
<1>5. signedIn' \in BOOLEAN /\ (signedIn' => client' # None)
  <2>1. CASE RestoreSession
    BY <2>1 DEF RestoreSession, TypeOK
  <2>2. CASE RestoreFails \/ LoginSucceeds
    BY <2>2 DEF RestoreFails, LoginSucceeds, LoginHasBackend, TypeOK
  <2>3. CASE LoginErrs
    BY <2>3 DEF LoginErrs
  <2> QED
    BY <2>1, <2>2, <2>3 DEF Installs
<1>6. (hint \in [Dirs -> Ids \cup {None}])'
  <2>1. CASE RestoreSession
    BY <2>1, <1>1 DEF RestoreSession, HintTried, TypeOK, Devices
  <2>2. CASE RestoreFails \/ LoginSucceeds \/ LoginErrs
    BY <2>2 DEF RestoreFails, LoginSucceeds, LoginErrs, TypeOK
  <2> QED
    BY <2>1, <2>2 DEF Installs
<1>7. TypeOK'
  BY <1>1, <1>3, <1>4, <1>5, <1>6 DEF TypeOK, Pcs
<1>8. OpeningKnowsKey' /\ WipeForgetsSessionFirst'
  BY <1>4 DEF OpeningKnowsKey, WipeForgetsSessionFirst
<1>9. LoginHasBackend'
  BY <1>1, <1>4 DEF LoginHasBackend, Installs, RestoreSession, RestoreFails,
     LoginSucceeds, LoginErrs, GoTo, Return
<1>10. BackendHasStore'
  BY <1>1, <1>3 DEF BackendHasStore
<1>11. KeyOfStoreKept'
  BY <1>1, <1>3 DEF KeyOfStoreKept
<1>12. SessionHasStore'
  BY <1>1, <1>3 DEF SessionHasStore, TypeOK
<1>13. SignedInOwnsStore'
  BY <1>1, <1>5, <1>10 DEF SignedInOwnsStore, BackendHasStore
<1> QED
  BY <1>7, <1>8, <1>9, <1>10, <1>11, <1>12, <1>13

\* The other steps of a login, which write to the keyring and to the hint.
Finalizes == \/ \E u \in Users : BeginLogin(u)
             \/ LoginFindsMismatch \/ SaveSession \/ WriteHint \/ FinalizeFails

LEMMA FinalizesKeepInv == LocalStoreInv /\ Finalizes => LocalStoreInv'
<1> SUFFICES ASSUME LocalStoreInv, Finalizes PROVE LocalStoreInv'
  OBVIOUS
<1> USE Distinct DEF LocalStoreInv, Finalizes, BeginLogin, LoginFindsMismatch,
    SaveSession, WriteHint, FinalizeFails, Return, GoTo, durableVars,
    backendVars, localVars, OpenPcs, LoginPcs, WipePcs
<1>1. dir \in Dirs /\ UNCHANGED <<file, store, secret, damaged, dir, client>>
  BY DEF LoginHasBackend, BackendHasStore
<1>2. LoginFindsMismatch => store[dir].owner.id \in Ids
  BY <1>1, OwnerHasId DEF Granted
<1>3. PreferredIds \subseteq Ids \cup {None}
  BY <1>1 DEF PreferredIds, TypeOK, Devices
<1>4. client # None => client.id \in Ids
  BY DEF TypeOK, Devices
<1>5. (hint \in [Dirs -> Ids \cup {None}])'
  BY <1>1, <1>2, <1>4 DEF TypeOK, HintTried, LoginHasBackend
<1>6. (preferred \in Ids \cup {None} /\ user \in Users \cup {None})'
  BY <1>2, <1>3 DEF TypeOK
<1>7. (/\ session \in Devices \cup {None} /\ home \in Dirs \cup {None}
       /\ task \in {"none", "init", "login", "retry", "logout"} /\ pc \in Pcs
       /\ target \in Dirs \cup {None} /\ key \in Keys \cup {None})'
  BY <1>1 DEF TypeOK, Pcs
<1>8. (backend \in BOOLEAN /\ signedIn \in BOOLEAN)'
  BY Zenon DEF TypeOK
<1>9. TypeOK'
  BY <1>1, <1>5, <1>6, <1>7, <1>8 DEF TypeOK
<1>10. OpeningKnowsKey'
  BY DEF OpeningKnowsKey
<1>11. LoginHasBackend'
  BY <1>1 DEF LoginHasBackend
<1>12. WipeForgetsSessionFirst'
  BY DEF WipeForgetsSessionFirst
<1>13. BackendHasStore'
  BY <1>1 DEF BackendHasStore
<1>14. KeyOfStoreKept'
  BY <1>1 DEF KeyOfStoreKept
<1>15. SessionHasStore'
  BY <1>1 DEF SessionHasStore, KeyOfStoreKept, BackendHasStore, LoginHasBackend
<1>16. SignedInOwnsStore'
  BY <1>1, <1>13 DEF SignedInOwnsStore, BackendHasStore, LoginHasBackend
<1> QED
  BY <1>9, <1>10, <1>11, <1>12, <1>13, <1>14, <1>15, <1>16

LEMMA WipeKeepsInv == LocalStoreInv /\ WipeNext => LocalStoreInv'
<1> SUFFICES ASSUME LocalStoreInv, WipeNext PROVE LocalStoreInv'
  OBVIOUS
<1> USE Distinct DEF LocalStoreInv, WipeNext, BeginLogout, WipeSession,
    WipeSecret, WipeHint, WipeDir, WipeDirStops, WipeFails, DropBackend,
    Return, GoTo, durableVars, backendVars, localVars,
    OpenPcs, LoginPcs, WipePcs
<1>1. (/\ file \in [Dirs -> Keys \cup {None, Torn}]
       /\ store \in [Dirs -> Stores \cup {None}]
       /\ hint \in [Dirs -> Ids \cup {None}])'
  BY DEF TypeOK
<1>2. (/\ secret \in Keys \cup {None} /\ session \in Devices \cup {None}
       /\ home \in Dirs \cup {None} /\ damaged \subseteq Dirs)'
  BY DEF TypeOK, LoginHasBackend
<1>3. (/\ task \in {"none", "init", "login", "retry", "logout"} /\ pc \in Pcs
       /\ dir \in Dirs \cup {None} /\ client \in Devices \cup {None}
       /\ target \in Dirs \cup {None} /\ key \in Keys \cup {None}
       /\ user \in Users \cup {None} /\ preferred \in Ids \cup {None})'
  BY DEF TypeOK, Pcs, LoginHasBackend
<1>4. (backend \in BOOLEAN /\ signedIn \in BOOLEAN)'
  BY Zenon DEF TypeOK
<1>5. OpeningKnowsKey'
  BY DEF OpeningKnowsKey, LoginHasBackend
<1>6. LoginHasBackend'
  BY DEF LoginHasBackend, BackendHasStore
<1>7. WipeForgetsSessionFirst'
  BY DEF WipeForgetsSessionFirst
<1>8. BackendHasStore'
  BY DEF BackendHasStore, LoginHasBackend, TypeOK
<1>9. KeyOfStoreKept'
  BY DEF KeyOfStoreKept, LoginHasBackend, TypeOK
<1>10. SessionHasStore'
  BY DEF SessionHasStore, WipeForgetsSessionFirst, TypeOK
<1>11. SignedInOwnsStore'
  BY <1>8 DEF SignedInOwnsStore, BackendHasStore, LoginHasBackend
<1> QED
  BY <1>1, <1>2, <1>3, <1>4, <1>5, <1>6, <1>7, <1>8, <1>9, <1>10, <1>11 DEF TypeOK

LEMMA RestartKeepsInv == LocalStoreInv /\ (Restart \/ UNCHANGED vars) => LocalStoreInv'
<1> SUFFICES ASSUME LocalStoreInv, Restart \/ UNCHANGED vars PROVE LocalStoreInv'
  OBVIOUS
<1> USE DEF LocalStoreInv, Restart, Return, DropBackend, vars, durableVars,
    backendVars, localVars, OpenPcs, LoginPcs, WipePcs
<1>1. TypeOK'
  <2>1. (backend \in BOOLEAN /\ signedIn \in BOOLEAN)'
    BY Zenon DEF TypeOK
  <2> QED
    BY <2>1 DEF TypeOK, Pcs
<1>2. OpeningKnowsKey' /\ LoginHasBackend' /\ WipeForgetsSessionFirst'
  BY DEF OpeningKnowsKey, LoginHasBackend, WipeForgetsSessionFirst
<1>3. BackendHasStore' /\ KeyOfStoreKept' /\ SessionHasStore' /\ SignedInOwnsStore'
  BY DEF BackendHasStore, KeyOfStoreKept, SessionHasStore, SignedInOwnsStore
<1> QED
  BY <1>1, <1>2, <1>3

-----------------------------------------------------------------------------
(* Theorems                                                                *)

\* The inductive invariant: what a handler may rely on between two writes,
\* whichever write failed and wherever the process stopped before.
THEOREM LocalStoreInvariant == Spec => []LocalStoreInv
<1>1. LocalStoreInv /\ [Next]_vars => LocalStoreInv'
  BY OpenKeepsInv, InstallsKeepInv, FinalizesKeepInv, WipeKeepsInv, RestartKeepsInv
     DEF Next, LoginNext, Installs, Finalizes
<1> QED
  BY InitEstablishes, <1>1, PTL DEF Spec

\* Every variable keeps its type.
THEOREM TypeCorrect == Spec => []TypeOK
  BY LocalStoreInvariant, PTL DEF LocalStoreInv

\* get_or_create_store_passphrase and the wipe never lose the passphrase of a
\* store, a directory half removed excepted.
THEOREM KeyAlwaysKept == Spec => []KeyOfStoreKept
  BY LocalStoreInvariant, PTL DEF LocalStoreInv

\* A persisted session always finds its device's store and the passphrase.
THEOREM SessionAlwaysHasStore == Spec => []SessionHasStore
  BY LocalStoreInvariant, PTL DEF LocalStoreInv

\* Who is signed in always works with the store of the own device.
THEOREM SignedInAlwaysOwnsStore == Spec => []SignedInOwnsStore
  BY LocalStoreInvariant, PTL DEF LocalStoreInv
=============================================================================
