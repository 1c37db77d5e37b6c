----------------------------- MODULE ConfigStore -----------------------------
(***************************************************************************)
(* storage/config_store.py: several Config objects over one config.json,   *)
(* in one process.  Values read with get() may be changed in place, set(), *)
(* update() and delete() record what they change, and any of it may wait   *)
(* for a later save or survive a failed one.                               *)
(***************************************************************************)
EXTENDS Naturals

CONSTANTS Configs, Keys, Settings, Unset

VARIABLES configFile,  \* [readable, data] of config.json
          config,      \* the open Config objects
          intent,      \* history: what each object's callers want and have not saved
          agreed       \* history: the last value saved under a key on purpose

configVars == <<configFile, config, intent, agreed>>

Chosen == Settings \union {Unset}
Table == [Keys -> Chosen]
NoConfig == Unset
NoIntent == [k \in Keys |-> "none"]
Blank == [k \in Keys |-> Unset]

Config == [data: Table, baseline: Table, changed: SUBSET Keys, deleted: SUBSET Keys]

ASSUME ConfigAssumption ==
    Unset \notin Settings /\ Unset \notin Config /\ "none" \notin Settings \union {Unset}

Fresh(table) == [data |-> table, baseline |-> table, changed |-> {}, deleted |-> {}]

ConfigTypeOK ==
    /\ configFile \in [readable: BOOLEAN, data: Table]
    /\ config \in [Configs -> Config \union {NoConfig}]
    /\ intent \in [Configs -> [Keys -> Chosen \union {"none"}]]
    /\ agreed \in [Keys -> Chosen \union {"none"}]

ConfigInit ==
    /\ configFile = [readable |-> FALSE, data |-> Blank]
    /\ config = [c \in Configs |-> NoConfig]
    /\ intent = [c \in Configs |-> NoIntent]
    /\ agreed = NoIntent

-----------------------------------------------------------------------------
\* __init__: an object without a readable file starts empty.
OpenConfig(c) ==
    /\ config[c] = NoConfig
    /\ config' = [config EXCEPT ![c] =
          Fresh(IF configFile.readable THEN configFile.data ELSE Blank)]
    /\ UNCHANGED <<configFile, intent, agreed>>

\* reload() drops what was not saved; without a readable file it keeps all.
ReloadConfig(c) ==
    /\ config[c] # NoConfig /\ configFile.readable
    /\ config' = [config EXCEPT ![c] = Fresh(configFile.data)]
    /\ intent' = [intent EXCEPT ![c] = NoIntent]
    /\ UNCHANGED <<configFile, agreed>>

\* Memory effects of set(), update(), delete() and of an edit in place.
WithSet(conf, k, v) ==
    [conf EXCEPT !.data[k] = v, !.changed = @ \union {k}, !.deleted = @ \ {k}]
WithDelete(conf, k) ==
    [conf EXCEPT !.data[k] = Unset, !.changed = @ \ {k}, !.deleted = @ \union {k}]

SetKey(c, k, v) ==
    /\ config[c] # NoConfig
    /\ config' = [config EXCEPT ![c] = WithSet(@, k, v)]
    /\ intent' = [intent EXCEPT ![c][k] = v]
    /\ UNCHANGED <<configFile, agreed>>

DeleteKey(c, k) ==
    /\ config[c] # NoConfig
    /\ config' = [config EXCEPT ![c] = WithDelete(@, k)]
    /\ intent' = [intent EXCEPT ![c][k] = Unset]
    /\ UNCHANGED <<configFile, agreed>>

\* A list or a dict obtained from the object is changed; it is wanted only
\* if it then differs from what was loaded.
EditInPlace(c, k, v) ==
    /\ config[c] # NoConfig
    /\ config[c].data[k] # Unset /\ v # config[c].data[k]
    /\ intent[c][k] = "none"
    /\ config' = [config EXCEPT ![c].data[k] = v]
    /\ intent' = [intent EXCEPT ![c][k] = v]
    /\ UNCHANGED <<configFile, agreed>>

\* The keys save() writes, and those it takes away.
Touched_MarkedOnly(conf) == conf.changed
Touched(conf) ==
    {k \in Keys : conf.data[k] # Unset
        /\ (k \in conf.changed \/ conf.data[k] # conf.baseline[k])}
Dropped(conf) ==
    conf.deleted \union {k \in Keys : conf.baseline[k] # Unset /\ conf.data[k] = Unset}

SavedTable(conf) ==
    IF ~configFile.readable THEN conf.data
    ELSE [k \in Keys |-> IF k \in Dropped(conf) THEN Unset
                         ELSE IF k \in Touched(conf) THEN conf.data[k]
                         ELSE configFile.data[k]]

\* save(), also as the second half of set, update and delete.  A read or
\* write error changes nothing and leaves the edits for the next save.
SaveConfig(c) ==
    /\ config[c] # NoConfig
    /\ LET table == SavedTable(config[c])
       IN  /\ configFile' = [readable |-> TRUE, data |-> table]
           /\ config' = [config EXCEPT ![c] = Fresh(table)]
    /\ agreed' = [k \in Keys |-> IF intent[c][k] # "none" THEN intent[c][k] ELSE agreed[k]]
    /\ intent' = [intent EXCEPT ![c] = NoIntent]

\* A damaged file: the saves of two objects may then overwrite each other.
DamageConfig ==
    /\ configFile.readable
    /\ configFile' = [configFile EXCEPT !.readable = FALSE]
    /\ agreed' = NoIntent
    /\ UNCHANGED <<config, intent>>

ConfigNext ==
    \/ \E c \in Configs :
          \/ OpenConfig(c) \/ ReloadConfig(c) \/ SaveConfig(c)
          \/ \E k \in Keys : \/ DeleteKey(c, k)
                             \/ \E v \in Settings : SetKey(c, k, v) \/ EditInPlace(c, k, v)
    \/ DamageConfig

ConfigSpec == ConfigInit /\ [][ConfigNext]_configVars

-----------------------------------------------------------------------------
\* A setting that was saved on purpose stays until somebody saves another one
\* under its key, however old the objects are that are saved meanwhile; an
\* explicit set() wins even when it repeats the value loaded (save).
SettingsKept ==
    configFile.readable =>
        \A k \in Keys : agreed[k] # "none" => configFile.data[k] = agreed[k]
=============================================================================
