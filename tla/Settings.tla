------------------------------ MODULE Settings -------------------------------
(***************************************************************************)
(* The table system_settings and what has to follow it in the cluster: the *)
(* Secret with the Cloudflare token and the ClusterIssuer.  Requests write *)
(* them one call after another, and so does every start of the program,    *)
(* from its environment.  Any call may fail, and the process may end at    *)
(* any point.  The Helm chart, and an administrator, may write the Secret  *)
(* and the ClusterIssuer too.                                              *)
(*                                                                         *)
(* Of the settings that shape the ClusterIssuer, letsencrypt_email,        *)
(* letsencrypt_server and default_ingress_class, the last stands for all.  *)
(***************************************************************************)
EXTENDS FiniteSets

CONSTANTS
    Handlers,       \* handlers of requests
    Main,           \* the goroutine that starts the program
    Tokens,         \* Cloudflare API tokens
    Classes,        \* ingress classes
    Nginx,          \* the class of the migration, and the one to fall back on
    EnvClasses,     \* what DEFAULT_INGRESS_CLASS may be at a start, or None
    EnvTokens,      \* what CLOUDFLARE_API_TOKEN may be, or None if it is not
                    \* set or CLOUDFLARE_ENABLED is not
    Empty,          \* the empty string
    None

VARIABLES
    phase,          \* how far the program has started
    settings,       \* settings[k]: the row with key k, or None
    secret,         \* the token in the Secret "cloudflare-api-token", or None
    issuer,         \* what the ClusterIssuer "letsencrypt-prod" says, or None
    calls,          \* calls[a]: the call a is in, or None
    \* Histories:
    undisturbed,    \* the last call began with nothing else running, and nothing
                    \* has failed or begun since
    before          \* if so, what the ClusterIssuer said when it began

history == <<undisturbed, before>>
settingsVars == <<phase, settings, secret, issuer, calls, history>>

Actors == Handlers \cup {Main}

\* AcmeAccount has what main does between the token and serving.
Phases == {"down", "class", "token", "serving"}

\* The keys the migration inserts, and one that a request makes up.
Known == {"class", "token", "enabled"}
Keys == Known \cup {"made up"}

Values(k) == CASE k = "class"   -> Classes \cup {Empty}
               [] k = "token"   -> Tokens \cup {Empty}
               [] k = "enabled" -> {"0", "1"}
               [] k = "made up" -> {Empty}
AnyValue == UNION {Values(k) : k \in Keys}
Writes == {w \in Keys \X AnyValue : w[2] \in Values(w[1])}

\* The description of a row may be NULL, which no query can read.
Setting == [value : AnyValue, described : BOOLEAN]
Issuer == [dns01 : BOOLEAN, class : Classes]
Call == [kind : {"save", "remove", "patch"},
         step : {"validate", "settings", "secret", "putSecret", "class", "issuer", "putIssuer"},
         todo : SUBSET Writes, token : Tokens \cup {Empty},
         held : Tokens \cup {None}, class : Classes \cup {None}, there : BOOLEAN]

ASSUME SettingsAssumption ==
    /\ Main \notin Handlers
    /\ Nginx \in Classes
    /\ EnvClasses \subseteq Classes \cup {None}
    /\ EnvTokens \subseteq Tokens \cup {None}
    /\ None \notin Setting \cup Issuer \cup Call \cup Tokens \cup Classes
    /\ Empty \notin Tokens \cup Classes

Idle(a) == calls[a] = None
AllIdle == \A a \in Actors : Idle(a)
At(a, step) == ~Idle(a) /\ calls[a].step = step
Goto(a, step) == calls' = [calls EXCEPT ![a].step = step]

\* Something went wrong.
Marred == undisturbed' = FALSE /\ before' = None

-----------------------------------------------------------------------------
(* SettingsRepository                                                      *)

Readable(k) == settings[k] # None /\ settings[k].described

\* Mutated form of Stored: an INSERT OR REPLACE, which forgets the description.
Stored_Replaced(k, v) == [value |-> v, described |-> FALSE]

\* ON CONFLICT DO UPDATE: the description stays, if there was one.
Stored(k, v) == [value |-> v, described |-> Readable(k)]

Set(w) == settings' = [settings EXCEPT ![w[1]] = Stored(w[1], w[2])]

-----------------------------------------------------------------------------
(* How a call begins and ends                                              *)

Begin(a, kind, step, writes, token) ==
    /\ Idle(a)
    /\ calls' = [calls EXCEPT ![a] =
            [kind |-> kind, step |-> step, todo |-> writes, token |-> token,
             held |-> None, class |-> None, there |-> FALSE]]
    /\ IF AllIdle /\ kind # "patch" THEN undisturbed' = TRUE /\ before' = issuer ELSE Marred

\* main goes on with the next thing to initialize, whatever came of this one.
After(p) == CASE p = "class" -> "token" [] p = "token" -> "serving" [] OTHER -> p

End(a) ==
    /\ calls' = [calls EXCEPT ![a] = None]
    /\ phase' = IF a = Main THEN After(phase) ELSE phase

TokenWrites(t) == {<<"token", t>>, <<"enabled", IF t = Empty THEN "0" ELSE "1">>}

-----------------------------------------------------------------------------
(* Requests                                                                *)

\* A request with several keys is taken for several with one.
PatchSettings(h) ==
    /\ phase = "serving"
    /\ \E w \in Writes : Begin(h, "patch", "settings", {w}, Empty)
    /\ UNCHANGED <<phase, settings, secret, issuer>>

SaveToken(h) ==
    /\ phase = "serving"
    /\ \E t \in Tokens : Begin(h, "save", "validate", TokenWrites(t), t)
    /\ UNCHANGED <<phase, settings, secret, issuer>>

RemoveToken(h) ==
    /\ phase = "serving"
    /\ Begin(h, "remove", "settings", TokenWrites(Empty), Empty)
    /\ UNCHANGED <<phase, settings, secret, issuer>>

-----------------------------------------------------------------------------
(* The calls one after another                                             *)

\* Cloudflare accepts the token, or it does not, or does not answer.
Validate(a) ==
    /\ At(a, "validate")
    /\ \/ Goto(a, "settings") /\ UNCHANGED <<phase, history>>
       \/ End(a) /\ Marred
    /\ UNCHANGED <<settings, secret, issuer>>

\* One key after another, in the order of a Go map.
WriteSetting(a) ==
    /\ At(a, "settings")
    /\ \E w \in calls[a].todo :
        \/ /\ Set(w)
           /\ calls' = [calls EXCEPT ![a].todo = @ \ {w}]
           /\ UNCHANGED <<phase, history>>
        \/ End(a) /\ Marred /\ UNCHANGED settings
    /\ UNCHANGED <<secret, issuer>>

SettingsWritten(a) ==
    /\ At(a, "settings") /\ calls[a].todo = {}
    /\ IF calls[a].kind = "patch" THEN End(a) ELSE Goto(a, "secret") /\ UNCHANGED phase
    /\ UNCHANGED <<settings, secret, issuer, history>>

\* DeleteCloudflareSecret; an error, also that it is not there, is only logged.
DeleteSecret(a) ==
    /\ At(a, "secret") /\ calls[a].kind = "remove"
    /\ \/ secret' = None /\ UNCHANGED history
       \/ UNCHANGED secret /\ Marred
    /\ Goto(a, "class")
    /\ UNCHANGED <<phase, settings, issuer>>

\* CreateOrUpdateCloudflareSecret takes an error for a Secret that is missing.
GetSecret(a) ==
    /\ At(a, "secret") /\ calls[a].kind = "save"
    /\ \E found \in {secret, None} :
        /\ calls' = [calls EXCEPT ![a].step = "putSecret", ![a].held = found]
        /\ IF found = secret THEN UNCHANGED history ELSE Marred
    /\ UNCHANGED <<phase, settings, secret, issuer>>

\* Mutated form of Accepts: the Secret is only ever created.
Accepts_CreateOnly(held) == secret = None

\* A create wants no Secret to be there, an update the one that was read.
Accepts(held) == secret = held

\* What the API server refuses is only logged, as is an answer that never came.
PutSecret(a) ==
    /\ At(a, "putSecret")
    /\ \/ /\ secret' = IF Accepts(calls[a].held) THEN calls[a].token ELSE secret
          /\ UNCHANGED history
       \/ UNCHANGED secret /\ Marred
    /\ Goto(a, "class")
    /\ UNCHANGED <<phase, settings, issuer>>

\* Mutated form of ClassOr: an empty setting is used as it is.
ClassOr_AsIs(default) == settings["class"].value

ClassOr(default) ==
    IF settings["class"].value = Empty THEN default ELSE settings["class"].value

\* updateClusterIssuer: a setting that is empty or cannot be read has its default.
ReadClass(a) ==
    /\ At(a, "class")
    /\ \/ /\ Readable("class")
          /\ calls' = [calls EXCEPT ![a].step = "issuer", ![a].class = ClassOr(Nginx)]
          /\ UNCHANGED history
       \/ calls' = [calls EXCEPT ![a].step = "issuer", ![a].class = Nginx] /\ Marred
    /\ UNCHANGED <<phase, settings, secret, issuer>>

GetIssuer(a) ==
    /\ At(a, "issuer")
    /\ \E found \in {issuer # None, FALSE} :
        /\ calls' = [calls EXCEPT ![a].step = "putIssuer", ![a].there = found]
        /\ IF found = (issuer # None) THEN UNCHANGED history ELSE Marred
    /\ UNCHANGED <<phase, settings, secret, issuer>>

\* The DNS-01 solver is for a token that is saved, not for one removed.
Rendered(a) == [dns01 |-> calls[a].kind = "save", class |-> calls[a].class]

\* Only a create takes effect.  The update names no resourceVersion, and of a
\* custom resource the API server refuses such a one.
Creates(a) == ~calls[a].there /\ issuer = None

\* A refusal is only logged.
PutIssuer(a) ==
    /\ At(a, "putIssuer")
    /\ \/ issuer' = (IF Creates(a) THEN Rendered(a) ELSE issuer) /\ UNCHANGED history
       \/ UNCHANGED issuer /\ Marred
    /\ End(a)
    /\ UNCHANGED <<settings, secret>>

Step(a) ==
    \/ Validate(a) \/ WriteSetting(a) \/ SettingsWritten(a)
    \/ DeleteSecret(a) \/ GetSecret(a) \/ PutSecret(a)
    \/ ReadClass(a) \/ GetIssuer(a) \/ PutIssuer(a)

-----------------------------------------------------------------------------
(* Start and end of the process                                            *)

Default(k) ==
    [value |-> CASE k = "class" -> Nginx [] k = "token" -> Empty [] OTHER -> "0",
     described |-> TRUE]

\* The migration: INSERT OR IGNORE.
Boot ==
    /\ phase = "down"
    /\ settings' = [k \in Keys |->
            IF k \in Known /\ settings[k] = None THEN Default(k) ELSE settings[k]]
    /\ phase' = "class"
    /\ UNCHANGED <<secret, issuer, calls, history>>

\* The class of the environment is for a setting that is empty or the default,
\* and for one that could not be read; as a query may fail at any time, a start
\* can always come to write it.
ApplyClass ==
    /\ phase = "class"
    /\ \E c \in EnvClasses \ {None} : Begin(Main, "patch", "settings", {<<"class", c>>}, Empty)
    /\ UNCHANGED <<phase, settings, secret, issuer>>

KeepClass ==
    /\ phase = "class" /\ Idle(Main)
    /\ None \in EnvClasses \/ (Readable("class") /\ ClassOr(Nginx) # Nginx)
    /\ phase' = "token"
    /\ UNCHANGED <<settings, secret, issuer, calls, history>>

ApplyToken ==
    /\ phase = "token"
    /\ \E t \in EnvTokens \ {None} : Begin(Main, "save", "validate", TokenWrites(t), t)
    /\ UNCHANGED <<phase, settings, secret, issuer>>

\* Idle(Main): the same start has not gone on with a token already.
NoToken ==
    /\ phase = "token" /\ Idle(Main) /\ None \in EnvTokens
    /\ phase' = "serving"
    /\ UNCHANGED <<settings, secret, issuer, calls, history>>

Crash ==
    /\ phase # "down"
    /\ phase' = "down"
    /\ calls' = [a \in Actors |-> None]
    /\ Marred
    /\ UNCHANGED <<settings, secret, issuer>>

\* Somebody else writes or removes one of the two, or both.
Deploy ==
    /\ secret' \in Tokens \cup {None} /\ issuer' \in Issuer \cup {None}
    /\ Marred
    /\ UNCHANGED <<phase, settings, calls>>

-----------------------------------------------------------------------------

Init ==
    /\ phase = "down"
    /\ settings = [k \in Keys |-> None]
    /\ secret \in Tokens \cup {None} /\ issuer \in Issuer \cup {None}
    /\ calls = [a \in Actors |-> None]
    /\ undisturbed = FALSE /\ before = None

Starting == Boot \/ ApplyClass \/ KeepClass \/ ApplyToken \/ NoToken

Requested == \E h \in Handlers : PatchSettings(h) \/ SaveToken(h) \/ RemoveToken(h)

Next == Starting \/ Requested \/ Crash \/ Deploy \/ \E a \in Actors : Step(a)

Spec == Init /\ [][Next]_settingsVars

-----------------------------------------------------------------------------
(* Properties                                                              *)

\* Every variable has its type.
TypeOK ==
    /\ phase \in Phases
    /\ settings \in [Keys -> Setting \cup {None}]
    /\ secret \in Tokens \cup {None}
    /\ issuer \in Issuer \cup {None}
    /\ calls \in [Actors -> Call \cup {None}]
    /\ undisturbed \in BOOLEAN
    /\ before \in Issuer \cup {None}

\* A setting of the migration can be read for ever after: whatever requests and
\* starts write over it, one scan of a NULL would hide the token or the class.
KnownSettingsReadable == phase # "down" => \A k \in Known : Readable(k)

\* The switch, the token and the Secret say the same, and so does a ClusterIssuer
\* that the call has made; one that was there before has stayed as it was.
Consistent ==
    LET token == settings["token"].value IN
    /\ (settings["enabled"].value = "1") <=> (token # Empty)
    /\ secret = IF token = Empty THEN None ELSE token
    /\ issuer = IF before = None THEN [dns01 |-> token # Empty, class |-> ClassOr(Nginx)]
                                 ELSE before

\* Calls that race, fail or are cut off leave the four apart, and none of them
\* is told; one save or removal that nothing disturbs sets switch, token and Secret
\* right, and a ClusterIssuer that was missing.  (It cannot change one that is
\* there.)
UndisturbedRepairs == AllIdle /\ undisturbed => Consistent
=============================================================================
