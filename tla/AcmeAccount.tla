---------------------------- MODULE AcmeAccount ------------------------------
(***************************************************************************)
(* letsencrypt.Initialize: the account at the ACME server, and the files   *)
(* user.json and user.key that keep it from one start to the next.  A file *)
(* is emptied before it is written, and the process may end at any point.  *)
(* Each start is told which of the servers to work with (staging or        *)
(* production), and all of them share the two files.                       *)
(***************************************************************************)
CONSTANTS
    Servers,        \* ACME servers: staging and production
    Keys,           \* private keys
    Torn,           \* what a file holds that was not written to its end
    None            \* no file, no key, no client

VARIABLES
    userFile,       \* user.json: None, Torn, or whether it has a registration
    keyFile,        \* user.key: None, Torn, or a key
    server,         \* the server this start is to work with
    step,           \* where Initialize is; "down" when nothing runs
    user,           \* the user it works with
    client,         \* the key of the global client, or None
    \* Histories, since user.json was last removed:
    accounts,       \* accounts[s]: the keys registered at server s
    asked,          \* the servers starts were told to work with
    overlooked      \* a start did not find the user.json that is there

files == <<userFile, keyFile>>
told == <<server, asked>>
vars == <<userFile, keyFile, server, step, user, client, accounts, asked, overlooked>>

Steps == {"down", "load", "connect", "register",
          "openUser", "fillUser", "openKey", "fillKey", "done"}
NoUser == [key |-> None, registered |-> FALSE]

\* The user of a file without a registration, and of one with it.
Bare == "bare"
Registered == "registered"

ASSUME AccountAssumption ==
    /\ {None, Torn} \cap (Keys \cup {Bare, Registered}) = {}
    /\ None # Torn

-----------------------------------------------------------------------------
Finish(c) ==
    /\ step' = "done"
    /\ client' = c

\* LETSENCRYPT_STAGING may have changed since the last start.
Start ==
    /\ step = "down"
    /\ step' = "load"
    /\ server' \in Servers
    /\ asked' = asked \cup {server'}
    /\ UNCHANGED <<files, user, client, accounts, overlooked>>

\* Mutated form of StatFinds: it looks for the key, not for the user.
StatFinds_Key == keyFile \in Keys

\* os.Stat finds user.json, if it can look at all.
StatFinds == userFile # None

\* Any error of os.Stat makes a new user, and not only that there is no file.
Create ==
    /\ step = "load"
    /\ \/ ~StatFinds /\ UNCHANGED overlooked
       \/ StatFinds /\ overlooked' = TRUE
    /\ \E k \in Keys \ (UNION {accounts[s] : s \in Servers} \cup {keyFile}) :
            user' = [key |-> k, registered |-> FALSE]
    /\ step' = "openUser"
    /\ UNCHANGED <<files, told, client, accounts>>

\* Mutated form of Loadable: nobody looks whether the key could be parsed.
Loadable_AnyKey == userFile \in {Bare, Registered}

Loadable == userFile \in {Bare, Registered} /\ keyFile \in Keys

\* Whatever is wrong with the directory or the files, the program goes on without
\* a client.
Load ==
    /\ step = "load"
    /\ \/ /\ StatFinds /\ Loadable
          /\ user' = [key |-> keyFile, registered |-> userFile = Registered]
          /\ step' = "connect"
          /\ UNCHANGED client
       \/ Finish(None) /\ UNCHANGED user
    /\ UNCHANGED <<files, told, accounts, overlooked>>

\* lego.NewClient asks the server for its directory; a stored registration is
\* taken for one at this server.
Connect ==
    /\ step = "connect"
    /\ \/ Finish(None)
       \/ user.registered /\ Finish(user.key)
       \/ ~user.registered /\ step' = "register" /\ UNCHANGED client
    /\ UNCHANGED <<files, told, user, accounts, overlooked>>

\* The server makes an account of a key, or has it already.
Registers(k) == accounts' = [accounts EXCEPT ![server] = @ \cup {k}]

\* Mutated form of Register: the client is ready before the server has answered.
Register_Unheard ==
    /\ step = "register"
    /\ user' = [user EXCEPT !.registered = TRUE]
    /\ Registers(user.key) \/ UNCHANGED accounts
    /\ step' = "openUser"
    /\ UNCHANGED <<files, told, client, overlooked>>

\* The server gives a key that it knows the account it has; its answer can be
\* lost on the way.
Register ==
    /\ step = "register"
    /\ \/ /\ Registers(user.key)
          /\ user' = [user EXCEPT !.registered = TRUE]
          /\ step' = "openUser"
          /\ UNCHANGED client
       \/ /\ Registers(user.key) \/ UNCHANGED accounts
          /\ Finish(None)
          /\ UNCHANGED user
    /\ UNCHANGED <<files, told, overlooked>>

\* saveUser: a registration that cannot be saved is only logged, a new user that
\* cannot be saved ends the start's hope for a client.
SaveFails ==
    /\ step \in {"openUser", "fillUser", "openKey", "fillKey"}
    /\ Finish(IF user.registered THEN user.key ELSE None)
    /\ UNCHANGED <<files, told, user, accounts, overlooked>>

OpenUser ==
    /\ step = "openUser"
    /\ userFile' = Torn
    /\ step' = "fillUser"
    /\ UNCHANGED <<keyFile, told, user, client, accounts, overlooked>>

FillUser ==
    /\ step = "fillUser"
    /\ userFile' = IF user.registered THEN Registered ELSE Bare
    /\ step' = "openKey"
    /\ UNCHANGED <<keyFile, told, user, client, accounts, overlooked>>

OpenKey ==
    /\ step = "openKey"
    /\ keyFile' = Torn
    /\ step' = "fillKey"
    /\ UNCHANGED <<userFile, told, user, client, accounts, overlooked>>

FillKey ==
    /\ step = "fillKey"
    /\ keyFile' = user.key
    /\ IF user.registered THEN Finish(user.key) ELSE step' = "connect" /\ UNCHANGED client
    /\ UNCHANGED <<userFile, told, user, accounts, overlooked>>

-----------------------------------------------------------------------------
\* The process ends.
Crash ==
    /\ step # "down"
    /\ step' = "down" /\ client' = None /\ user' = NoUser
    /\ UNCHANGED <<files, told, accounts, overlooked>>

\* Somebody removes one of the files, or both, while nothing runs.
Remove ==
    /\ step = "down"
    /\ userFile' \in {userFile, None}
    /\ keyFile' \in {keyFile, None}
    /\ IF userFile' = None
       THEN accounts' = [s \in Servers |-> {}] /\ asked' = {} /\ overlooked' = FALSE
       ELSE UNCHANGED <<accounts, asked, overlooked>>
    /\ UNCHANGED <<server, step, user, client>>

Init ==
    /\ userFile = None /\ keyFile = None
    /\ server \in Servers
    /\ step = "down" /\ user = NoUser
    /\ client = None
    /\ accounts = [s \in Servers |-> {}] /\ asked = {} /\ overlooked = FALSE

Save == OpenUser \/ FillUser \/ OpenKey \/ FillKey \/ SaveFails

Next == Start \/ Create \/ Load \/ Connect \/ Register \/ Save \/ Crash \/ Remove

Spec == Init /\ [][Next]_vars

-----------------------------------------------------------------------------
(* Properties                                                              *)

\* Every variable keeps its type.
TypeOK ==
    /\ userFile \in {None, Torn, Bare, Registered}
    /\ keyFile \in Keys \cup {None, Torn}
    /\ server \in Servers
    /\ step \in Steps
    /\ user \in [key : Keys \cup {None}, registered : BOOLEAN]
    /\ client \in Keys \cup {None}
    /\ accounts \in [Servers -> SUBSET Keys] /\ asked \subseteq Servers
    /\ overlooked \in BOOLEAN

\* However often the program starts, fails, is cut off and is told to work with
\* another server, it does not leave one key registered and register another: only
\* a user.json that somebody removed, or that os.Stat did not find, makes a new one.
OneAccount ==
    ~overlooked =>
        \A s, t \in Servers : \A j \in accounts[s], k \in accounts[t] : j = k

\* The client works with a key that is registered, at this server if no other was
\* ever asked for; and no start loses that key: it is what user.key holds, or the
\* file is torn.  (After a change of the server the stored registration is taken
\* for one of the new server, which may not know the key.)
ClientIsRegistered ==
    client # None =>
        /\ \E s \in asked : client \in accounts[s]
        /\ asked = {server} => client \in accounts[server]
        /\ keyFile \in {client, Torn}
=============================================================================
