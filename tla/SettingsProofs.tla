--------------------------- MODULE SettingsProofs ----------------------------
(***************************************************************************)
(* Proofs about Settings, for every set of handlers, tokens and classes,   *)
(* and whatever the environment sets.                                      *)
(***************************************************************************)
EXTENDS Settings, TLAPS

USE DEF history

-----------------------------------------------------------------------------
(* Types                                                                   *)

LEMMA ValueTypes ==
    /\ Empty \in AnyValue /\ Tokens \subseteq AnyValue /\ Classes \subseteq AnyValue
    /\ {"0", "1"} \subseteq AnyValue /\ Known \subseteq Keys
  BY DEF AnyValue, Keys, Known, Values

LEMMA WriteType ==
    ASSUME NEW k \in Keys, NEW v \in AnyValue, v \in Values(k)
    PROVE  <<k, v>> \in Writes
  BY DEF Writes

LEMMA ValuesOf ==
    /\ Values("token") = Tokens \cup {Empty} /\ Values("enabled") = {"0", "1"}
    /\ Values("class") = Classes \cup {Empty}
  BY DEF Values

LEMMA TokenWritesType ==
    ASSUME NEW t \in Tokens \cup {Empty}
    PROVE  TokenWrites(t) \subseteq Writes
  <1>1. <<"token", t>> \in Writes
    BY ValueTypes, ValuesOf, WriteType DEF Known
  <1>2. \A v \in {"0", "1"} : <<"enabled", v>> \in Writes
    BY ValueTypes, ValuesOf, WriteType DEF Known
  <1> QED
    BY <1>1, <1>2 DEF TokenWrites

LEMMA ClassWriteType ==
    ASSUME NEW c \in Classes
    PROVE  {<<"class", c>>} \subseteq Writes
  BY ValueTypes, ValuesOf, WriteType DEF Known

LEMMA DefaultType ==
    ASSUME NEW k \in Known
    PROVE  Default(k) \in Setting /\ Default(k).described
  BY ValueTypes, SettingsAssumption DEF Default, Setting, Known

-----------------------------------------------------------------------------
(* Types, and the rows that can be read                                    *)

\* What a call says of itself, whatever else goes on.
CallInv(c) ==
    /\ c.kind = "save" => c.token \in Tokens
    /\ c.kind = "remove" => c.token = Empty
    /\ c.step \in {"secret", "putSecret", "class", "issuer", "putIssuer"} => c.kind # "patch"
    /\ c.step = "putSecret" => c.kind = "save"
    /\ c.step \in {"issuer", "putIssuer"} => c.class \in Classes

CallsOK(cs) ==
    /\ cs \in [Actors -> Call \cup {None}]
    /\ \A a \in Actors : cs[a] # None => CallInv(cs[a])

\* A row has a value its key can have, and one of the migration is described;
\* those are all there while the program runs.
RowsOK ==
    /\ settings \in [Keys -> Setting \cup {None}]
    /\ \A k \in Keys : settings[k] # None => settings[k].value \in Values(k)
    /\ \A k \in Known : settings[k] # None => settings[k].described
    /\ phase # "down" => \A k \in Known : settings[k] # None

HistoryOK == undisturbed \in BOOLEAN /\ before \in Issuer \cup {None}

RestOK ==
    /\ phase \in Phases
    /\ phase = "down" => AllIdle /\ ~undisturbed
    /\ secret \in Tokens \cup {None}
    /\ issuer \in Issuer \cup {None}
    /\ HistoryOK

Inv == CallsOK(calls) /\ RowsOK /\ RestOK

LEMMA AtCall ==
    ASSUME Inv, NEW a \in Actors, ~Idle(a)
    PROVE  calls[a] \in Call /\ CallInv(calls[a]) /\ phase # "down"
  BY DEF Inv, CallsOK, RestOK, Idle, AllIdle

LEMMA PutCall ==
    ASSUME Inv, NEW a \in Actors, NEW c \in Call \cup {None}, c # None => CallInv(c)
    PROVE  CallsOK([calls EXCEPT ![a] = c])
  BY DEF Inv, CallsOK

LEMMA BeginCall ==
    ASSUME Inv, NEW a \in Actors, NEW kind \in {"save", "remove", "patch"},
           NEW step \in {"validate", "settings"}, NEW writes \in SUBSET Writes,
           NEW token \in Tokens \cup {Empty}, Begin(a, kind, step, writes, token),
           kind = "save" => token \in Tokens, kind = "remove" => token = Empty
    PROVE  CallsOK(calls') /\ HistoryOK'
  <1> USE DEF HistoryOK, Marred
  <1> DEFINE c == [kind |-> kind, step |-> step, todo |-> writes, token |-> token,
                   held |-> None, class |-> None, there |-> FALSE]
  <1>1. c \in Call /\ CallInv(c)
    BY DEF Call, CallInv
  <1>2. calls' = [calls EXCEPT ![a] = c] /\ HistoryOK'
    BY DEF Begin, Inv, RestOK
  <1> QED
    BY <1>1, <1>2, PutCall

LEMMA EndCall ==
    ASSUME Inv, NEW a \in Actors, ~Idle(a), End(a)
    PROVE  CallsOK(calls') /\ phase' \in Phases \ {"down"}
  BY AtCall, PutCall DEF End, After, Phases, Inv, RestOK

LEMMA GotoCall ==
    ASSUME Inv, NEW a \in Actors, ~Idle(a),
           NEW step \in {"settings", "secret", "class"}, Goto(a, step),
           step # "settings" => calls[a].kind # "patch"
    PROVE  CallsOK(calls')
  <1> DEFINE c == [calls[a] EXCEPT !.step = step]
  <1>1. c \in Call /\ CallInv(c)
    BY AtCall DEF Call, CallInv
  <1>2. calls' = [calls EXCEPT ![a] = c]
    BY DEF Goto, Inv, CallsOK
  <1> QED
    BY <1>1, <1>2, PutCall

\* A row that is set keeps to its key, and stays described if it was.
LEMMA SetRow ==
    ASSUME Inv, NEW w \in Writes, Set(w), phase # "down", phase' # "down"
    PROVE  RowsOK'
  <1>1. w[1] \in Keys /\ w[2] \in Values(w[1]) /\ w[2] \in AnyValue
    BY DEF Writes
  <1>2. Stored(w[1], w[2]) \in Setting /\ Stored(w[1], w[2]).value = w[2]
    BY <1>1 DEF Stored, Setting, Readable, Inv, RowsOK
  <1>3. w[1] \in Known => Stored(w[1], w[2]).described
    BY <1>1 DEF Stored, Readable, Inv, RowsOK
  <1>4. settings' = [settings EXCEPT ![w[1]] = Stored(w[1], w[2])]
    BY DEF Set
  <1>5. None \notin Setting
    BY SettingsAssumption
  <1> QED
    BY <1>1, <1>2, <1>3, <1>4, <1>5 DEF Inv, RowsOK

\* The class there is, or the default, is one.
LEMMA ClassType ==
    ASSUME Inv, phase # "down"
    PROVE  ClassOr(Nginx) \in Classes
  <1>1. settings["class"].value \in Values("class")
    BY ValueTypes DEF Inv, RowsOK, Known
  <1> QED
    BY <1>1, ValuesOf, SettingsAssumption DEF ClassOr

LEMMA InitInv == ASSUME Init PROVE Inv
  <1>1. \A k \in Keys : settings[k] = None
    BY DEF Init
  <1>2. \A a \in Actors : calls[a] = None
    BY DEF Init
  <1>3. CallsOK(calls)
    BY <1>2 DEF Init, CallsOK
  <1>4. RowsOK
    BY <1>1, ValueTypes DEF Init, RowsOK
  <1>5. RestOK
    BY <1>2 DEF Init, RestOK, HistoryOK, Phases, AllIdle, Idle
  <1> QED
    BY <1>3, <1>4, <1>5 DEF Inv

-----------------------------------------------------------------------------
(* Every action keeps them                                                 *)

LEMMA BootInv == ASSUME Inv, Boot PROVE Inv'
  <1>1. CallsOK(calls')
    BY DEF Boot, Inv
  <1>2. RowsOK'
    <2>1. \A k \in Known : /\ Default(k).value \in Values(k) /\ Default(k) \in Setting
                          /\ Default(k).described /\ Default(k) # None
      BY ValuesOf, DefaultType, SettingsAssumption DEF Default, Known
    <2>2. \A k \in Keys :
            settings'[k] = IF k \in Known /\ settings[k] = None THEN Default(k) ELSE settings[k]
      BY DEF Boot
    <2>3. settings' \in [Keys -> Setting \cup {None}]
      BY <2>1 DEF Boot, Inv, RowsOK
    <2> QED
      BY <2>1, <2>2, <2>3, ValueTypes DEF Inv, RowsOK
  <1> QED
    BY <1>1, <1>2 DEF Boot, Inv, RestOK, HistoryOK, Phases

LEMMA ApplyInv == ASSUME Inv, ApplyClass \/ ApplyToken PROVE Inv'
  <1>1. Main \in Actors /\ phase # "down" /\ UNCHANGED <<phase, settings, secret, issuer>>
    BY DEF ApplyClass, ApplyToken, Actors
  <1>2. CASE ApplyClass
    <2>1. PICK c \in Classes : Begin(Main, "patch", "settings", {<<"class", c>>}, Empty)
      BY <1>2, SettingsAssumption DEF ApplyClass
    <2> QED
      BY <1>1, <2>1, BeginCall, ClassWriteType DEF Inv, RowsOK, RestOK
  <1>3. CASE ApplyToken
    <2>1. PICK t \in Tokens : Begin(Main, "save", "validate", TokenWrites(t), t)
      BY <1>3, SettingsAssumption DEF ApplyToken
    <2> QED
      BY <1>1, <2>1, BeginCall, TokenWritesType DEF Inv, RowsOK, RestOK
  <1> QED
    BY <1>2, <1>3

LEMMA SkipInv == ASSUME Inv, KeepClass \/ NoToken PROVE Inv'
  BY DEF KeepClass, NoToken, Inv, RowsOK, RestOK, HistoryOK, Phases, CallsOK

LEMMA CrashInv == ASSUME Inv, Crash PROVE Inv'
  BY DEF Crash, Marred, Inv, RowsOK, RestOK, HistoryOK, Phases, CallsOK, AllIdle, Idle

LEMMA DeployInv == ASSUME Inv, Deploy PROVE Inv'
  BY DEF Deploy, Marred, Inv, RowsOK, RestOK, HistoryOK, CallsOK, AllIdle, Idle

LEMMA RequestInv ==
    ASSUME Inv, NEW h \in Handlers, PatchSettings(h) \/ SaveToken(h) \/ RemoveToken(h)
    PROVE  Inv'
  <1>1. h \in Actors /\ phase # "down" /\ UNCHANGED <<phase, settings, secret, issuer>>
    BY DEF PatchSettings, SaveToken, RemoveToken, Actors
  <1>2. CallsOK(calls') /\ HistoryOK'
    <2>1. CASE PatchSettings(h)
      BY <1>1, <2>1, BeginCall DEF PatchSettings
    <2>2. CASE SaveToken(h)
      BY <1>1, <2>2, BeginCall, TokenWritesType DEF SaveToken
    <2>3. CASE RemoveToken(h)
      BY <1>1, <2>3, BeginCall, TokenWritesType DEF RemoveToken
    <2> QED
      BY <2>1, <2>2, <2>3
  <1> QED
    BY <1>1, <1>2 DEF Inv, RowsOK, RestOK

\* A step of a call leaves the process as it was, or ends a part of its start.
LEMMA StepInv ==
    ASSUME Inv, NEW a \in Actors, Step(a)
    PROVE  Inv'
  <1>1. ~Idle(a) /\ calls[a] \in Call /\ CallInv(calls[a]) /\ phase # "down"
    BY AtCall DEF Step, Validate, WriteSetting, SettingsWritten, DeleteSecret, GetSecret,
                  PutSecret, ReadClass, GetIssuer, PutIssuer, At
  <1>2. SUFFICES /\ CallsOK(calls') /\ RowsOK'
                 /\ phase' \in Phases \ {"down"} /\ secret' \in Tokens \cup {None}
                 /\ issuer' \in Issuer \cup {None} /\ HistoryOK'
    BY DEF Inv, RestOK
  <1>3. phase' = phase => phase' \in Phases \ {"down"}
    BY <1>1 DEF Inv, RestOK
  <1>4. UNCHANGED settings /\ phase' # "down" => RowsOK'
    BY <1>1 DEF Inv, RowsOK
  <1>5. /\ UNCHANGED secret => secret' \in Tokens \cup {None}
        /\ UNCHANGED issuer => issuer' \in Issuer \cup {None}
        /\ (UNCHANGED history) \/ Marred => HistoryOK'
    BY DEF Inv, RestOK, HistoryOK, Marred
  <1>6. CASE Validate(a)
    BY <1>1, <1>3, <1>4, <1>5, <1>6, GotoCall, EndCall DEF Validate
  <1>7. CASE WriteSetting(a)
    <2>1. PICK w \in calls[a].todo :
            \/ /\ Set(w)
               /\ calls' = [calls EXCEPT ![a].todo = @ \ {w}]
               /\ UNCHANGED <<phase, history>>
            \/ End(a) /\ Marred /\ UNCHANGED settings
      BY <1>7 DEF WriteSetting
    <2>2. w \in Writes
      BY <1>1 DEF Call
    <2>3. CASE Set(w) /\ calls' = [calls EXCEPT ![a].todo = @ \ {w}]
               /\ UNCHANGED <<phase, history>>
      <3> DEFINE c == [calls[a] EXCEPT !.todo = @ \ {w}]
      <3>1. c \in Call /\ CallInv(c)
        BY <1>1 DEF Call, CallInv
      <3>2. calls' = [calls EXCEPT ![a] = c]
        BY <2>3 DEF Inv, CallsOK
      <3> QED
        BY <1>1, <1>3, <1>5, <1>7, <2>2, <2>3, <3>1, <3>2, PutCall, SetRow DEF WriteSetting
    <2>4. CASE End(a) /\ Marred /\ UNCHANGED settings
      BY <1>1, <1>3, <1>4, <1>5, <1>7, <2>4, EndCall DEF WriteSetting
    <2> QED
      BY <2>1, <2>3, <2>4
  <1>8. CASE SettingsWritten(a)
    BY <1>1, <1>3, <1>4, <1>5, <1>8, GotoCall, EndCall DEF SettingsWritten
  <1>9. CASE DeleteSecret(a)
    BY <1>1, <1>3, <1>4, <1>5, <1>9, GotoCall DEF DeleteSecret
  <1>10. CASE GetSecret(a)
    <2>1. PICK found \in {secret, None} :
            /\ calls' = [calls EXCEPT ![a].step = "putSecret", ![a].held = found]
            /\ IF found = secret THEN UNCHANGED history ELSE Marred
      BY <1>10 DEF GetSecret
    <2> DEFINE c == [calls[a] EXCEPT !.step = "putSecret", !.held = found]
    <2>2. found \in Tokens \cup {None}
      BY DEF Inv, RestOK
    <2>3. c \in Call /\ CallInv(c)
      BY <1>1, <1>10, <2>2 DEF Call, CallInv, GetSecret
    <2>4. calls' = [calls EXCEPT ![a] = c]
      BY <2>1 DEF Inv, CallsOK
    <2>5. CallsOK(calls')
      BY <2>3, <2>4, PutCall
    <2> QED
      BY <1>1, <1>3, <1>4, <1>5, <1>10, <2>1, <2>5 DEF GetSecret
  <1>11. CASE PutSecret(a)
    <2>1. calls[a].kind = "save" /\ calls[a].token \in Tokens
      BY <1>1, <1>11 DEF CallInv, PutSecret, At
    <2> QED
      BY <1>1, <1>3, <1>4, <1>5, <1>11, <2>1, GotoCall DEF PutSecret, Inv, RestOK
  <1>12. CASE ReadClass(a)
    <2>1. PICK class \in {ClassOr(Nginx), Nginx} :
            /\ calls' = [calls EXCEPT ![a].step = "issuer", ![a].class = class]
            /\ (UNCHANGED history) \/ Marred
      BY <1>12 DEF ReadClass
    <2> DEFINE c == [calls[a] EXCEPT !.step = "issuer", !.class = class]
    <2>2. class \in Classes
      BY <1>1, ClassType, SettingsAssumption
    <2>3. c \in Call /\ CallInv(c)
      BY <1>1, <1>12, <2>2 DEF Call, CallInv, ReadClass, At
    <2>4. calls' = [calls EXCEPT ![a] = c]
      BY <2>1 DEF Inv, CallsOK
    <2>5. CallsOK(calls')
      BY <2>3, <2>4, PutCall
    <2> QED
      BY <1>1, <1>3, <1>4, <1>5, <1>12, <2>1, <2>5 DEF ReadClass
  <1>13. CASE GetIssuer(a)
    <2>1. PICK found \in BOOLEAN :
            /\ calls' = [calls EXCEPT ![a].step = "putIssuer", ![a].there = found]
            /\ (UNCHANGED history) \/ Marred
      BY <1>13 DEF GetIssuer
    <2> DEFINE c == [calls[a] EXCEPT !.step = "putIssuer", !.there = found]
    <2>2. c \in Call /\ CallInv(c)
      BY <1>1, <1>13 DEF Call, CallInv, GetIssuer, At
    <2>3. calls' = [calls EXCEPT ![a] = c]
      BY <2>1 DEF Inv, CallsOK
    <2>4. CallsOK(calls')
      BY <2>2, <2>3, PutCall
    <2> QED
      BY <1>1, <1>3, <1>4, <1>5, <1>13, <2>1, <2>4 DEF GetIssuer
  <1>14. CASE PutIssuer(a)
    <2>1. Rendered(a) \in Issuer
      BY <1>1, <1>14 DEF Rendered, Issuer, CallInv, PutIssuer, At
    <2>2. issuer' \in Issuer \cup {None}
      BY <1>5, <1>14, <2>1 DEF PutIssuer, Inv, RestOK
    <2> QED
      BY <1>1, <1>3, <1>4, <1>5, <1>14, <2>2, EndCall DEF PutIssuer
  <1> QED
    BY <1>6, <1>7, <1>8, <1>9, <1>10, <1>11, <1>12, <1>13, <1>14 DEF Step

LEMMA NextInv == ASSUME Inv, [Next]_settingsVars PROVE Inv'
  <1>1. CASE UNCHANGED settingsVars
    BY <1>1 DEF settingsVars, Inv, CallsOK, RowsOK, RestOK, HistoryOK, AllIdle, Idle
  <1> QED
    BY <1>1, BootInv, ApplyInv, SkipInv, CrashInv, DeployInv, RequestInv, StepInv
       DEF Next, Starting, Requested

LEMMA Invariance == Spec => []Inv
  <1>1. Init => Inv
    BY InitInv
  <1>2. Inv /\ [Next]_settingsVars => Inv'
    BY NextInv
  <1> QED
    BY <1>1, <1>2, PTL DEF Spec

\* Every variable keeps its type.
THEOREM TypeCorrect == Spec => []TypeOK
  <1>1. Inv => TypeOK
    BY DEF Inv, TypeOK, CallsOK, RowsOK, RestOK, HistoryOK
  <1> QED
    BY <1>1, Invariance, PTL

\* Whatever requests and starts write, the settings of the migration can be read.
THEOREM AlwaysReadable == Spec => []KnownSettingsReadable
  <1>1. Inv => KnownSettingsReadable
    BY DEF Inv, RowsOK, KnownSettingsReadable, Readable
  <1> QED
    BY <1>1, Invariance, PTL

-----------------------------------------------------------------------------
(* A call that nothing disturbs                                            *)

SecretFor(token) == IF token = Empty THEN None ELSE token

ClassIn(rows) == IF rows["class"].value = Empty THEN Nginx ELSE rows["class"].value

\* What such a call has brought about, step by step.
Progress(c, rows, token, there) ==
    /\ c.kind # "patch"
    /\ c.todo \subseteq TokenWrites(c.token)
    /\ \A w \in TokenWrites(c.token) : w \in c.todo \/ rows[w[1]].value = w[2]
    /\ c.step \notin {"validate", "settings"} => c.todo = {}
    /\ c.step = "putSecret" => c.held = token
    /\ c.step \in {"class", "issuer", "putIssuer"} => token = SecretFor(c.token)
    /\ c.step \in {"issuer", "putIssuer"} => c.class = ClassIn(rows)
    /\ c.step = "putIssuer" => c.there = there

\* It is alone, and when it is over everything is in line.
Solo ==
    undisturbed =>
        /\ \A a, b \in Actors : ~Idle(a) /\ ~Idle(b) => a = b
        /\ \A a \in Actors : ~Idle(a) => Progress(calls[a], settings, secret, issuer # None)
        /\ IF AllIdle THEN Consistent ELSE issuer = before

\* The one call that is left goes on, or has just ended.
LEMMA SoloStep ==
    ASSUME Inv, Solo, undisturbed, NEW a \in Actors, ~Idle(a), NEW c,
           calls' = [calls EXCEPT ![a] = c],
           c # None => /\ Progress(c, settings', secret', issuer' # None)
                       /\ issuer' = before',
           c = None => Consistent'
    PROVE  Solo'
  <1>1. /\ \A b \in Actors : b # a => calls'[b] = None
        /\ calls'[a] = c
    BY DEF Solo, Idle, Inv, CallsOK
  <1> QED
    BY <1>1 DEF Solo, Idle, AllIdle

LEMMA BeginSolo ==
    ASSUME Inv, NEW a \in Actors, NEW kind \in {"save", "remove"},
           NEW step \in {"validate", "settings"}, NEW token \in Tokens \cup {Empty},
           Begin(a, kind, step, TokenWrites(token), token), UNCHANGED issuer
    PROVE  Solo'
  <1> DEFINE c == [kind |-> kind, step |-> step, todo |-> TokenWrites(token), token |-> token,
                   held |-> None, class |-> None, there |-> FALSE]
  <1>1. SUFFICES ASSUME undisturbed'
                 PROVE  Solo'
    BY DEF Solo
  <1>2. AllIdle /\ calls' = [calls EXCEPT ![a] = c] /\ before' = issuer
    BY <1>1 DEF Begin, Marred
  <1>3. Progress(c, settings', secret', issuer' # None)
    BY DEF Progress
  <1>4. c # None
    <2>1. c \in Call
      BY TokenWritesType DEF Call
    <2> QED
      BY <2>1, SettingsAssumption
  <1>5. /\ \A b \in Actors : b # a => calls'[b] = None
        /\ calls'[a] = c
    BY <1>2 DEF AllIdle, Idle, Inv, CallsOK
  <1> QED
    BY <1>2, <1>3, <1>4, <1>5 DEF Solo, Idle, AllIdle

\* A write sets its own row and leaves the other one of the pair.
LEMMA WriteProgress ==
    ASSUME Inv, NEW a \in Actors, ~Idle(a), At(a, "settings"),
           Progress(calls[a], settings, secret, issuer # None),
           NEW w \in calls[a].todo, Set(w), UNCHANGED <<secret, issuer>>
    PROVE  Progress([calls[a] EXCEPT !.todo = @ \ {w}], settings', secret', issuer' # None)
  <1> DEFINE c == [calls[a] EXCEPT !.todo = @ \ {w}]
  <1>1. calls[a] \in Call
    BY AtCall
  <1>2. /\ c.kind = calls[a].kind /\ c.step = "settings" /\ c.token = calls[a].token
        /\ c.todo = calls[a].todo \ {w}
    BY <1>1 DEF Call, At
  <1>3. w \in TokenWrites(c.token) /\ w[1] \in Keys
    BY <1>1, <1>2 DEF Progress, Call, Writes
  <1>4. settings' = [settings EXCEPT ![w[1]] = Stored(w[1], w[2])]
    BY DEF Set
  <1>5. settings'[w[1]].value = w[2] /\ \A k \in Keys : k # w[1] => settings'[k] = settings[k]
    BY <1>3, <1>4 DEF Inv, RowsOK, Stored
  <1>6. \A v \in TokenWrites(c.token) : v[1] \in Keys /\ (v[1] = w[1] => v = w)
    BY <1>3, ValueTypes DEF TokenWrites, Known
  <1>7. \A v \in TokenWrites(c.token) : v \in c.todo \/ settings'[v[1]].value = v[2]
    BY <1>2, <1>5, <1>6 DEF Progress
  <1> QED
    BY <1>2, <1>7 DEF Progress

\* The last write brings the fourth of them in line.
LEMMA LastWrite ==
    ASSUME Inv, NEW c, Progress(c, settings, secret, issuer # None),
           c.token \in Tokens \cup {Empty}, c.todo = {},
           c.kind = "save" => c.token \in Tokens, c.kind = "remove" => c.token = Empty,
           c.kind \in {"save", "remove"}, secret = SecretFor(c.token), c.class = ClassOr(Nginx),
           issuer' = (IF before = None THEN [dns01 |-> c.kind = "save", class |-> c.class]
                                       ELSE before),
           UNCHANGED <<settings, secret, before>>
    PROVE  Consistent'
  <1>1. settings["token"].value = c.token
    BY DEF Progress, TokenWrites
  <1>2. (settings["enabled"].value = "1") <=> (c.token # Empty)
    BY DEF Progress, TokenWrites
  <1>3. (c.kind = "save") <=> (c.token # Empty)
    BY SettingsAssumption
  <1> QED
    BY <1>1, <1>2, <1>3 DEF Consistent, SecretFor, ClassOr

LEMMA StepSolo ==
    ASSUME Inv, Solo, NEW a \in Actors, Step(a)
    PROVE  Solo'
  <1>1. SUFFICES ASSUME undisturbed'
                 PROVE  Solo'
    BY DEF Solo
  <1>2. ~Idle(a) /\ calls[a] \in Call /\ CallInv(calls[a]) /\ undisturbed /\ ~Marred
    BY <1>1, AtCall DEF Step, Validate, WriteSetting, SettingsWritten, DeleteSecret, GetSecret,
            PutSecret, ReadClass, GetIssuer, PutIssuer, At, Marred
  <1>3. Progress(calls[a], settings, secret, issuer # None) /\ issuer = before
    BY <1>2 DEF Solo, AllIdle
  <1>h. UNCHANGED issuer => issuer' = before'
    BY <1>2, <1>3 DEF Step, Validate, WriteSetting, SettingsWritten, DeleteSecret, GetSecret,
            PutSecret, ReadClass, GetIssuer, PutIssuer, Marred
  <1>4. ASSUME NEW step, Goto(a, step)
        PROVE  calls' = [calls EXCEPT ![a] = [calls[a] EXCEPT !.step = step]]
    BY <1>2, <1>4 DEF Goto, Inv, CallsOK
  <1>5. ASSUME NEW c \in Call, calls' = [calls EXCEPT ![a] = c],
               Progress(c, settings', secret', issuer' # None), UNCHANGED issuer
        PROVE  Solo'
    BY <1>2, <1>h, <1>5, SoloStep, SettingsAssumption
  <1>6. CASE Validate(a)
    <2> DEFINE c == [calls[a] EXCEPT !.step = "settings"]
    <2>1. calls' = [calls EXCEPT ![a] = c] /\ c \in Call
      BY <1>2, <1>4, <1>6 DEF Validate, Call
    <2>2. Progress(c, settings', secret', issuer' # None)
      BY <1>2, <1>3, <1>6 DEF Validate, Progress, Call, At
    <2> QED
      BY <1>5, <1>6, <2>1, <2>2 DEF Validate
  <1>7. CASE WriteSetting(a)
    <2>1. PICK w \in calls[a].todo :
            Set(w) /\ calls' = [calls EXCEPT ![a].todo = @ \ {w}]
      BY <1>2, <1>7 DEF WriteSetting
    <2> DEFINE c == [calls[a] EXCEPT !.todo = @ \ {w}]
    <2>2. calls' = [calls EXCEPT ![a] = c] /\ c \in Call
      BY <1>2, <2>1 DEF Call, Inv, CallsOK
    <2>3. Progress(c, settings', secret', issuer' # None)
      BY <1>2, <1>3, <1>7, <2>1, WriteProgress DEF WriteSetting
    <2> QED
      BY <1>5, <1>7, <2>2, <2>3 DEF WriteSetting
  <1>8. CASE SettingsWritten(a)
    <2> DEFINE c == [calls[a] EXCEPT !.step = "secret"]
    <2>1. calls' = [calls EXCEPT ![a] = c] /\ c \in Call
      BY <1>2, <1>3, <1>4, <1>8 DEF SettingsWritten, Call, Progress
    <2>2. Progress(c, settings', secret', issuer' # None)
      BY <1>2, <1>3, <1>8 DEF SettingsWritten, Progress, Call, At
    <2> QED
      BY <1>5, <1>8, <2>1, <2>2 DEF SettingsWritten
  <1>9. CASE DeleteSecret(a)
    <2> DEFINE c == [calls[a] EXCEPT !.step = "class"]
    <2>1. calls' = [calls EXCEPT ![a] = c] /\ c \in Call
      BY <1>2, <1>4, <1>9 DEF DeleteSecret, Call
    <2>2. secret' = None /\ calls[a].token = Empty
      BY <1>2, <1>9 DEF DeleteSecret, CallInv
    <2>3. Progress(c, settings', secret', issuer' # None)
      BY <1>2, <1>3, <1>9, <2>2 DEF DeleteSecret, Progress, Call, At, SecretFor
    <2> QED
      BY <1>5, <1>9, <2>1, <2>3 DEF DeleteSecret
  <1>10. CASE GetSecret(a)
    <2> DEFINE c == [calls[a] EXCEPT !.step = "putSecret", !.held = secret]
    <2>1. calls' = [calls EXCEPT ![a].step = "putSecret", ![a].held = secret]
      BY <1>2, <1>10 DEF GetSecret
    <2>2. calls' = [calls EXCEPT ![a] = c]
      BY <1>2, <2>1 DEF Inv, CallsOK
    <2>3. c \in Call
      BY <1>2 DEF Inv, RestOK, Call
    <2>4. Progress(c, settings', secret', issuer' # None)
      BY <1>2, <1>3, <1>10 DEF GetSecret, Progress, Call, At
    <2> QED
      BY <1>5, <1>10, <2>2, <2>3, <2>4 DEF GetSecret
  <1>11. CASE PutSecret(a)
    <2> DEFINE c == [calls[a] EXCEPT !.step = "class"]
    <2>1. calls' = [calls EXCEPT ![a] = c] /\ c \in Call
      BY <1>2, <1>4, <1>11 DEF PutSecret, Call
    <2>2. calls[a].token \in Tokens /\ Accepts(calls[a].held)
      BY <1>2, <1>3, <1>11 DEF PutSecret, At, CallInv, Progress, Accepts
    <2>3. secret' = calls[a].token
      BY <1>2, <1>11, <2>2 DEF PutSecret
    <2>4. Progress(c, settings', secret', issuer' # None)
      BY <1>2, <1>3, <1>11, <2>2, <2>3, SettingsAssumption
         DEF PutSecret, Progress, Call, At, SecretFor
    <2> QED
      BY <1>5, <1>11, <2>1, <2>4 DEF PutSecret
  <1>12. CASE ReadClass(a)
    <2> DEFINE c == [calls[a] EXCEPT !.step = "issuer", !.class = ClassOr(Nginx)]
    <2>1. calls' = [calls EXCEPT ![a].step = "issuer", ![a].class = ClassOr(Nginx)]
      BY <1>2, <1>12 DEF ReadClass
    <2>2. calls' = [calls EXCEPT ![a] = c]
      BY <1>2, <2>1 DEF Inv, CallsOK
    <2>3. c \in Call
      BY <1>2, AtCall, ClassType DEF Call
    <2>4. Progress(c, settings', secret', issuer' # None)
      BY <1>2, <1>3, <1>12 DEF ReadClass, Progress, Call, At, ClassIn, ClassOr
    <2> QED
      BY <1>5, <1>12, <2>2, <2>3, <2>4 DEF ReadClass
  <1>13. CASE GetIssuer(a)
    <2> DEFINE c == [calls[a] EXCEPT !.step = "putIssuer", !.there = (issuer # None)]
    <2>1. calls' = [calls EXCEPT ![a].step = "putIssuer", ![a].there = (issuer # None)]
      BY <1>2, <1>13 DEF GetIssuer
    <2>2. calls' = [calls EXCEPT ![a] = c]
      BY <1>2, <2>1 DEF Inv, CallsOK
    <2>3. c \in Call
      BY <1>2 DEF Call
    <2>4. Progress(c, settings', secret', issuer' # None)
      BY <1>2, <1>3, <1>13 DEF GetIssuer, Progress, Call, At, ClassIn
    <2> QED
      BY <1>5, <1>13, <2>2, <2>3, <2>4 DEF GetIssuer
  <1>14. CASE PutIssuer(a)
    <2>1. /\ issuer' = IF before = None THEN Rendered(a) ELSE before
          /\ calls' = [calls EXCEPT ![a] = None] /\ before' = before
      BY <1>2, <1>3, <1>14 DEF PutIssuer, At, Creates, End, Progress
    <2>2. /\ calls[a].kind \in {"save", "remove"} /\ calls[a].token \in Tokens \cup {Empty}
          /\ calls[a].todo = {} /\ secret = SecretFor(calls[a].token)
          /\ calls[a].class = ClassOr(Nginx)
      BY <1>2, <1>3, <1>14 DEF PutIssuer, At, Progress, Call, ClassIn, ClassOr
    <2>3. Consistent'
      BY <1>2, <1>3, <1>14, <2>1, <2>2, LastWrite DEF CallInv, Rendered, PutIssuer
    <2> QED
      BY <1>2, <2>1, <2>3, SoloStep
  <1> QED
    BY <1>6, <1>7, <1>8, <1>9, <1>10, <1>11, <1>12, <1>13, <1>14 DEF Step

LEMMA NextSolo ==
    ASSUME Inv, Solo, [Next]_settingsVars
    PROVE  Solo'
  <1>1. CASE Boot \/ Crash \/ Deploy
    BY <1>1 DEF Boot, Crash, Deploy, Marred, Solo, Inv, RestOK
  <1>2. CASE ApplyClass
    BY <1>2 DEF ApplyClass, Begin, Marred, Solo
  <1>3. CASE ApplyToken
    BY <1>3, BeginSolo, SettingsAssumption DEF ApplyToken, Actors
  <1>4. CASE KeepClass \/ NoToken \/ UNCHANGED settingsVars
    <2>1. UNCHANGED <<settings, secret, issuer, calls, history>>
      BY <1>4 DEF KeepClass, NoToken, settingsVars
    <2> QED
      BY <2>1 DEF Solo, AllIdle, Idle, Consistent, ClassOr
  <1>5. ASSUME NEW h \in Handlers, PatchSettings(h)
        PROVE  Solo'
    BY <1>5 DEF PatchSettings, Begin, Marred, Solo
  <1>6. ASSUME NEW h \in Handlers, SaveToken(h) \/ RemoveToken(h)
        PROVE  Solo'
    BY <1>6, BeginSolo DEF SaveToken, RemoveToken, Actors
  <1>7. ASSUME NEW a \in Actors, Step(a)
        PROVE  Solo'
    BY <1>7, StepSolo
  <1> QED
    BY <1>1, <1>2, <1>3, <1>4, <1>5, <1>6, <1>7 DEF Next, Starting, Requested

\* Whatever races, failures and crashes have left behind, one save or removal of
\* the token that nothing disturbs brings switch, token and Secret in line, and a
\* ClusterIssuer that was missing.
THEOREM OneCallRepairs == Spec => []UndisturbedRepairs
  <1>1. Init => Inv /\ Solo
    BY InitInv DEF Init, Solo
  <1>2. Inv /\ Solo /\ [Next]_settingsVars => (Inv /\ Solo)'
    BY NextInv, NextSolo
  <1>3. Solo => UndisturbedRepairs
    BY DEF Solo, UndisturbedRepairs
  <1> QED
    BY <1>1, <1>2, <1>3, PTL DEF Spec
=============================================================================
