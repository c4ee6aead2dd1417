------------------------------ MODULE KeyStore ------------------------------
(***************************************************************************)
(* The persistent key of an introducer (introducer.go), kept by a          *)
(* credential helper (api/crocker.go) or, if that does not take it, in the *)
(* file ~/.pmb_key, and the commands that change it (key.go).  Introducers *)
(* may be killed between any two steps of their start, and the file may    *)
(* not let itself be written or removed, which nobody looks at.  The       *)
(* helper is external; it may stop working and work again.                 *)
(***************************************************************************)
EXTENDS Naturals, FiniteSets

CONSTANTS Introducers, \* introducers of one user that run with --persist-key
          Keys,        \* bound: the keys that may be generated or typed
          Nothing,     \* no key
          Blank,       \* an empty text where a key should be
          MaxKills,    \* bound: starts that are killed
          MaxCommands  \* bound: key commands and changes of the helper

ASSUME KeyAssumption == /\ Nothing # Blank /\ {Nothing, Blank} \cap Keys = {}
                        /\ {MaxKills, MaxCommands} \subseteq Nat

VARIABLES
  helper,    \* the secret the helper has
  works,     \* the helper can be used
  file,      \* what ~/.pmb_key has
  stage,     \* stage[i]: where introducer i stands in its start
  key,       \* key[i]: its PMB_KEY
  used,      \* the keys that were generated or typed, or are the part of one in a file
  lastKey,   \* history: the key of the introducer that came to run last
  disturbed, \* history: since its start somebody meddled, or its key was not stored
  calm,      \* history: calm[i]: nothing of the kind happened since the start of i
  kills, commands

diskVars == <<helper, works, file>>
historyVars == <<lastKey, disturbed, calm>>
keyVars == <<helper, works, file, stage, key, used, lastKey, disturbed, calm, kills, commands>>

Stored == Keys \cup {Nothing, Blank}
Resting == {"off", "running", "asking"}
Starting == {i \in Introducers : stage[i] \notin Resting}

KeyInit ==
  /\ helper = Nothing /\ works \in BOOLEAN
  /\ file \in {Nothing} \cup {k \in Keys : k = CHOOSE any \in Keys : TRUE}
  /\ stage = [i \in Introducers |-> "off"]
  /\ key = [i \in Introducers |-> Nothing]
  /\ used = {file} \cap Keys
  /\ lastKey = Nothing /\ disturbed = FALSE
  /\ calm = [i \in Introducers |-> TRUE]
  /\ kills = 0 /\ commands = 0

\* GetCredHelperKey: no key, an empty key and an error are the same to its callers.
CredHelperKey == IF works /\ helper \in Keys THEN helper ELSE Nothing

\* What the next start would come up with, and what a command would use.
NextKey == IF CredHelperKey # Nothing THEN CredHelperKey ELSE file
ConfiguredKey == CredHelperKey
-----------------------------------------------------------------------------
(* The start of an introducer *)

Goto(i, where) == stage' = [stage EXCEPT ![i] = where]
Holds(i, k) == key' = [key EXCEPT ![i] = k]
Disturb == disturbed' = TRUE /\ calm' = [i \in Introducers |-> FALSE]

AskHelper(i) ==
  /\ stage[i] = "off"
  /\ Holds(i, CredHelperKey)
  /\ Goto(i, IF CredHelperKey # Nothing THEN "keyed" ELSE "file")
  /\ IF Starting # {} THEN Disturb
     ELSE calm' = [calm EXCEPT ![i] = TRUE] /\ UNCHANGED disturbed
  /\ UNCHANGED <<diskVars, used, lastKey, kills, commands>>

\* ioutil.ReadFile(keyStore), or else a new key.
ReadFile(i) ==
  /\ stage[i] = "file"
  /\ IF file # Nothing
     THEN Holds(i, file) /\ Goto(i, "migrate") /\ UNCHANGED used
     ELSE \E k \in Keys \ used :
            Holds(i, k) /\ Goto(i, "keep") /\ used' = used \cup {k}
  /\ UNCHANGED <<diskVars, historyVars, kills, commands>>

MigrateRegardless(i) ==
  /\ stage[i] = "migrate"
  /\ helper' = IF works THEN key[i] ELSE helper
  /\ Goto(i, "remove")
  /\ UNCHANGED <<works, file, key, used, historyVars, kills, commands>>

Migrate(i) ==
  /\ stage[i] = "migrate"
  /\ IF works THEN helper' = key[i] /\ Goto(i, "remove") ELSE Goto(i, "keyed") /\ UNCHANGED helper
  /\ UNCHANGED <<works, file, key, used, historyVars, kills, commands>>

Remove(i) ==
  /\ stage[i] = "remove"
  /\ file' \in {Nothing, file}
  /\ Goto(i, "keyed")
  /\ UNCHANGED <<helper, works, key, used, historyVars, kills, commands>>

\* WriteFile creates or empties the file before it writes; it may do neither, or write
\* nothing or a part of the key.
Keep(i) ==
  /\ stage[i] = "keep"
  /\ \/ works /\ helper' = key[i] /\ Goto(i, "keyed") /\ UNCHANGED <<file, historyVars>>
     \/ ~works /\ file' = Blank /\ Goto(i, "write") /\ UNCHANGED <<helper, historyVars>>
     \/ ~works /\ Goto(i, "keyed") /\ Disturb /\ UNCHANGED <<helper, file, lastKey>>
  /\ UNCHANGED <<works, key, used, kills, commands>>

Write(i) ==
  /\ stage[i] = "write"
  /\ \/ file' = key[i] /\ UNCHANGED <<used, historyVars>>
     \/ Disturb /\ UNCHANGED <<file, used, lastKey>>
     \/ \E part \in Keys \ used :
          file' = part /\ used' = used \cup {part} /\ Disturb /\ UNCHANGED lastKey
  /\ Goto(i, "keyed")
  /\ UNCHANGED <<helper, works, key, kills, commands>>

RunBlank(i) ==
  /\ stage[i] = "keyed"
  /\ Goto(i, "running")
  /\ lastKey' = key[i] /\ disturbed' = ~calm[i]
  /\ UNCHANGED <<diskVars, key, used, calm, kills, commands>>

\* GetPMB: an empty PMB_KEY leads to the helper, and then to a prompt.
Run(i) ==
  /\ stage[i] = "keyed"
  /\ LET k == IF key[i] \in Keys THEN key[i] ELSE CredHelperKey IN
     IF k = Nothing THEN Goto(i, "asking") /\ UNCHANGED <<key, lastKey, disturbed>>
     ELSE /\ Goto(i, "running") /\ Holds(i, k)
          /\ lastKey' = k /\ disturbed' = ~calm[i]
  /\ UNCHANGED <<diskVars, used, calm, kills, commands>>

End(i) ==
  /\ stage[i] \in {"running", "asking"}
  /\ Goto(i, "off") /\ Holds(i, Nothing)
  /\ UNCHANGED <<diskVars, used, historyVars, kills, commands>>

Kill(i) ==
  /\ i \in Starting
  /\ kills < MaxKills /\ kills' = kills + 1
  /\ Goto(i, "off") /\ Holds(i, Nothing)
  /\ UNCHANGED <<diskVars, used, historyVars, commands>>
-----------------------------------------------------------------------------
(* Others *)

Command == commands < MaxCommands /\ commands' = commands + 1

\* pmb key store: a file that cannot be read is stored as an empty key.
StoreKey ==
  /\ Command /\ Disturb
  /\ works
  /\ helper' \in Keys \cup {Blank}
  /\ used' = used \cup ({helper'} \cap Keys)
  /\ UNCHANGED <<works, file, stage, key, lastKey, kills>>

\* pmb key clear
ClearKey ==
  /\ Command /\ Disturb
  /\ works
  /\ helper' = Nothing
  /\ UNCHANGED <<works, file, stage, key, used, lastKey, kills>>

\* A client was given the key of a running introducer, tested it and stores it.
ClientStoresKey(i) ==
  /\ stage[i] = "running" /\ works
  /\ key[i] # helper
  /\ helper' = key[i]
  /\ IF key[i] = lastKey /\ Starting = {} THEN UNCHANGED historyVars ELSE Disturb /\ UNCHANGED lastKey
  /\ UNCHANGED <<works, file, stage, key, used, kills, commands>>

HelperChanges ==
  /\ Command /\ Disturb
  /\ works' = ~works
  /\ UNCHANGED <<helper, file, stage, key, used, lastKey, kills>>
-----------------------------------------------------------------------------
KeyNext ==
  \/ \E i \in Introducers :
       \/ AskHelper(i) \/ ReadFile(i) \/ Migrate(i) \/ Remove(i) \/ Keep(i) \/ Write(i)
       \/ Run(i) \/ End(i) \/ Kill(i) \/ ClientStoresKey(i)
  \/ StoreKey \/ ClearKey \/ HelperChanges

KeySpec == KeyInit /\ [][KeyNext]_keyVars
-----------------------------------------------------------------------------
(* Properties *)

\* Every variable has its type, and a key that a start works with is one of those used.
KeyTypeOK ==
  /\ helper \in Stored /\ works \in BOOLEAN /\ file \in Stored
  /\ stage \in [Introducers -> Resting \cup {"file", "migrate", "remove", "keep", "write", "keyed"}]
  /\ key \in [Introducers -> Stored] /\ used \subseteq Keys /\ lastKey \in Stored \ {Blank}
  /\ disturbed \in BOOLEAN /\ calm \in [Introducers -> BOOLEAN]
  /\ kills \in 0..MaxKills /\ commands \in 0..MaxCommands
  /\ ({helper, file, lastKey} \cup {key[i] : i \in Introducers}) \cap Keys \subseteq used

\* introducer.go:19: "Persist the key and re-use it rather than generating a new key
\* every run."  Wherever introducers are killed in their start, the next one has the key
\* of the one that ran last, and where the helper works so have the commands; unless
\* that one could not write its key to the file, an error that nobody looks at
\* (introducer.go:46), or somebody meddled: a key command, a helper that failed or came
\* back, or another introducer that started at the same time (introducer.go:27-52;
\* api/pmb.go:71-77).
KeyReused ==
  lastKey # Nothing /\ ~disturbed
    => NextKey = lastKey /\ (works => ConfiguredKey = lastKey)
=============================================================================
