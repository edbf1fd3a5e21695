-------------------------- MODULE AcmeAccountProofs --------------------------
(***************************************************************************)
(* Proofs about AcmeAccount, for every set of keys and servers: however    *)
(* many starts there are, and wherever each of them ends.                  *)
(***************************************************************************)
EXTENDS AcmeAccount, TLAPS

Saving == {"openUser", "fillUser", "openKey", "fillKey"}

\* Some server asked since user.json was removed has an account of this key.
Known(k) == \E s \in asked : k \in accounts[s]

\* Without user.json nothing is registered that a start could lose, what user.key
\* holds is registered if user.json says so, and it is the only registered key
\* unless a start has overlooked user.json.
FilesInv ==
    /\ \A s \in Servers \ asked : accounts[s] = {}
    /\ userFile = None => \A s \in Servers : accounts[s] = {}
    /\ ~overlooked => \A s \in Servers : \A k \in accounts[s] : keyFile \in {k, Torn, None}
    /\ userFile = Registered /\ keyFile \in Keys => Known(keyFile)

\* The user in memory has the key of the registered account, if there is one.
UserInv ==
    /\ step # "down" => server \in asked
    /\ step \notin {"down", "load", "done"} => user.key \in Keys
    /\ step \in {"connect", "register"} => keyFile = user.key /\ userFile # None
    /\ step \in Saving =>
        IF user.registered THEN keyFile \in {user.key, Torn} /\ userFile # None
        ELSE overlooked \/ \A s \in Servers : accounts[s] = {}
    /\ step \in {"connect", "register"} \cup Saving /\ user.registered => Known(user.key)
    /\ step \in {"fillUser", "openKey", "fillKey"} => userFile # None
    /\ step \in {"openUser", "fillUser", "openKey"} /\ user.registered => keyFile = user.key
    /\ step = "fillKey" => keyFile = Torn
    /\ step \in {"openKey", "fillKey"} =>
        userFile = IF user.registered THEN Registered ELSE Bare

ClientInv ==
    client # None => step = "done" /\ Known(client) /\ keyFile \in {client, Torn}

Inv == TypeOK /\ FilesInv /\ UserInv /\ ClientInv /\ OneAccount

LEMMA InitInv == Init => Inv
  <1> SUFFICES ASSUME Init PROVE Inv
    OBVIOUS
  <1>1. accounts \in [Servers -> SUBSET Keys] /\ \A s \in Servers : accounts[s] = {}
    BY DEF Init
  <1>2. TypeOK
    BY <1>1, AccountAssumption DEF Init, NoUser, TypeOK, Steps
  <1>3. FilesInv /\ OneAccount
    BY <1>1, AccountAssumption DEF Init, FilesInv, OneAccount, Registered
  <1>4. UserInv /\ ClientInv
    BY DEF Init, UserInv, Saving, ClientInv
  <1> QED
    BY <1>2, <1>3, <1>4 DEF Inv

\* A key that is known at the only server asked is known at this one.
LEMMA KnownHere ==
    ASSUME Inv
    PROVE  ClientIsRegistered
  BY DEF Inv, ClientInv, ClientIsRegistered, Known

\* What a step with the server or with the files does to the accounts.
LEMMA NextInv ==
    ASSUME Inv, [Next]_vars
    PROVE  Inv'
  <1> USE AccountAssumption
      DEF Inv, TypeOK, Steps, FilesInv, UserInv, Saving, ClientInv, OneAccount, Known,
          Bare, Registered, files, told
  <1>1. CASE Start
    BY <1>1 DEF Start
  <1>2. CASE Create
    <2>1. PICK k \in Keys : user' = [key |-> k, registered |-> FALSE]
      BY <1>2 DEF Create
    <2>2. overlooked' \/ \A s \in Servers : accounts[s] = {}
      BY <1>2 DEF Create, StatFinds
    <2>3. /\ step = "load" /\ step' = "openUser"
          /\ UNCHANGED <<userFile, keyFile, server, asked, client, accounts>>
      BY <1>2 DEF Create
    <2>4. overlooked' \in {TRUE, overlooked}
      BY <1>2 DEF Create
    <2>5. FilesInv' /\ ClientInv' /\ OneAccount'
      BY <2>2, <2>3, <2>4
    <2>6. UserInv'
      BY <2>1, <2>2, <2>3
    <2>7. TypeOK'
      BY <2>1, <2>3, <2>4
    <2> QED
      BY <2>5, <2>6, <2>7
  <1>3. CASE Load
    <2>1. CASE /\ StatFinds /\ Loadable /\ step' = "connect" /\ UNCHANGED client
               /\ user' = [key |-> keyFile, registered |-> userFile = Registered]
      <3>1. /\ keyFile \in Keys /\ userFile \in {Bare, Registered} /\ userFile # None
            /\ UNCHANGED <<userFile, keyFile, server, asked, accounts, overlooked, client>>
            /\ user'.key = keyFile /\ user'.registered = (userFile = Registered)
            /\ user' \in [key : Keys \cup {None}, registered : BOOLEAN]
        BY <1>3, <2>1 DEF Load, Loadable, StatFinds
      <3>2. user'.registered => Known(user'.key)
        BY <3>1
      <3>3. client = None /\ step = "load"
        BY <1>3 DEF Load
      <3>4. TypeOK'
        BY <2>1, <3>1
      <3>5. UserInv'
        <4>1. server \in asked /\ server' = server /\ asked' = asked
          BY <3>1, <3>3
        <4>2. (user.registered => Known(user.key))'
          BY <3>1, <3>2
        <4> QED
          BY <2>1, <3>1, <4>1, <4>2
      <3> QED
        BY <2>1, <3>1, <3>3, <3>4, <3>5
    <2>2. CASE Finish(None) /\ UNCHANGED user
      BY <1>3, <2>2 DEF Load, Finish
    <2> QED
      BY <1>3, <2>1, <2>2 DEF Load
  <1>4. CASE Connect
    BY <1>4 DEF Connect, Finish
  <1>5. CASE Register
    <2>1. step = "register" /\ server \in asked /\ server \in Servers /\ user.key \in Keys
      BY <1>5 DEF Register
    <2>2. /\ accounts' \in [Servers -> SUBSET Keys]
          /\ \A s \in Servers :
               \/ accounts'[s] = accounts[s]
               \/ s = server /\ accounts'[s] = accounts[s] \cup {user.key}
      BY <1>5, <2>1 DEF Register, Registers
    <2>3. ~overlooked => \A s \in Servers : \A k \in accounts'[s] : k = user.key
      BY <2>1, <2>2
    <2>4. \/ /\ user' = [user EXCEPT !.registered = TRUE] /\ user.key \in accounts'[server]
             /\ step' = "openUser" /\ client' = client
          \/ user' = user /\ step' = "done" /\ client' = None
      BY <1>5, <2>1 DEF Register, Registers, Finish
    <2>5. /\ user' \in [key : Keys \cup {None}, registered : BOOLEAN]
          /\ user'.key = user.key
          /\ user' # user => user'.registered = TRUE
      BY <2>4
    <2>6. UNCHANGED <<userFile, keyFile, server, asked, overlooked>>
      BY <1>5 DEF Register
    <2>7. /\ TypeOK' /\ OneAccount' /\ ClientInv'
      BY <2>1, <2>2, <2>3, <2>4, <2>5, <2>6
    <2>8. FilesInv'
      BY <2>1, <2>2, <2>3, <2>6
    <2>9. UserInv'
      BY <2>1, <2>4, <2>5, <2>6
    <2> QED
      BY <2>7, <2>8, <2>9
  <1>6. CASE SaveFails
    BY <1>6 DEF SaveFails, Finish
  <1>7. CASE OpenUser \/ FillUser
    BY <1>7 DEF OpenUser, FillUser
  <1>8. CASE OpenKey
    BY <1>8 DEF OpenKey
  <1>9. CASE FillKey
    BY <1>9 DEF FillKey, Finish
  <1>10. CASE Crash
    BY <1>10 DEF Crash, NoUser
  <1>11. CASE Remove
    <2>1. CASE userFile' # None
      BY <1>11, <2>1 DEF Remove
    <2>2. CASE userFile' = None
      <3>1. /\ accounts' \in [Servers -> SUBSET Keys] /\ \A s \in Servers : accounts'[s] = {}
            /\ asked' = {} /\ overlooked' = FALSE
        BY <1>11, <2>2 DEF Remove
      <3>2. step = "down" /\ UNCHANGED <<server, step, user, client>> /\ keyFile' \in {keyFile, None}
        BY <1>11 DEF Remove
      <3> QED
        BY <2>2, <3>1, <3>2
    <2> QED
      BY <2>1, <2>2
  <1>12. CASE UNCHANGED vars
    BY <1>12 DEF vars
  <1> QED
    BY <1>1, <1>2, <1>3, <1>4, <1>5, <1>6, <1>7, <1>8, <1>9, <1>10, <1>11, <1>12
       DEF Next, Save

LEMMA Invariance == Spec => []Inv
  BY InitInv, NextInv, PTL DEF Spec

\* Every variable keeps its type.
THEOREM TypeCorrect == Spec => []TypeOK
  <1>1. Inv => TypeOK
    BY DEF Inv
  <1> QED
    BY <1>1, Invariance, PTL

\* No number of failed or interrupted starts, and no change of the server, makes
\* the program register a second key while user.json is there and found.
THEOREM NoSecondAccount == Spec => []OneAccount
  <1>1. Inv => OneAccount
    BY DEF Inv
  <1> QED
    BY <1>1, Invariance, PTL

\* The key the client works with is registered, at this server if no other was asked
\* for, and it is the one on disk unless the file is torn.
THEOREM ClientHasAccount == Spec => []ClientIsRegistered
  BY KnownHere, Invariance, PTL

=============================================================================
