--------------------------- MODULE SettingsProofs ---------------------------
(***************************************************************************)
(* Proofs about what a machine keeps between commands, for any number of   *)
(* introducers, commands, kills, files' names and values: the key of       *)
(* KeyStore and the settings of ConfigFiles.                               *)
(***************************************************************************)
EXTENDS MCSettings, TLAPS

-----------------------------------------------------------------------------
(* KeyStore *)

\* Nobody else is in its start beside one that nothing has disturbed since its own
\* start; and since the last introducer came to run, only such ones began.
StartsAlone ==
  /\ \A i, j \in Introducers :
       calm[i] /\ stage[i] \notin Resting /\ stage[j] \notin Resting => i = j
  /\ \A i \in Introducers : ~disturbed /\ stage[i] \notin Resting => calm[i]

\* What the disk has at the stage an undisturbed introducer has come to.
DiskAt(i) ==
  /\ stage[i] = "file" => CredHelperKey = Nothing
  /\ stage[i] = "migrate" => CredHelperKey = Nothing /\ file = key[i] /\ file # Nothing
  /\ stage[i] = "remove" => works /\ helper = key[i] /\ file = key[i]
  /\ stage[i] = "keep" => CredHelperKey = Nothing /\ file = Nothing /\ key[i] \in Keys
  /\ stage[i] = "write" => ~works /\ file = Blank /\ key[i] \in Keys
  /\ stage[i] = "keyed" => IF key[i] \in Keys
                           THEN NextKey = key[i] /\ (works => ConfiguredKey = key[i])
                           ELSE CredHelperKey = Nothing

StartsKnowTheDisk == \A i \in Introducers : calm[i] => DiskAt(i)

RunsWithAKey == \A i \in Introducers : stage[i] = "running" => key[i] \in Keys

KeyIInv == KeyTypeOK /\ StartsAlone /\ StartsKnowTheDisk /\ RunsWithAKey /\ KeyReused

\* The inductive invariant holds initially.
LEMMA KeyInitIInv == KeyInit => KeyIInv
<1> SUFFICES ASSUME KeyInit PROVE KeyIInv
    OBVIOUS
<1> USE KeyAssumption DEF KeyInit
<1>1. KeyTypeOK
  <2>1. works \in BOOLEAN /\ disturbed \in BOOLEAN
        BY Zenon
  <2>2. calm \in [Introducers -> BOOLEAN]
        OBVIOUS
  <2>3. helper \in Stored /\ file \in Stored /\ lastKey \in Stored \ {Blank}
        BY DEF Stored
  <2>4. key \in [Introducers -> Stored] /\ used \subseteq Keys
        BY DEF Stored
  <2>5. stage \in [Introducers -> Resting \cup {"file", "migrate", "remove", "keep", "write", "keyed"}]
        BY DEF Resting
  <2>6. kills \in 0..MaxKills /\ commands \in 0..MaxCommands
        OBVIOUS
  <2>7. ({helper, file, lastKey} \cup {key[i] : i \in Introducers}) \cap Keys \subseteq used
        OBVIOUS
  <2> QED BY <2>1, <2>2, <2>3, <2>4, <2>5, <2>6, <2>7 DEF KeyTypeOK
<1>2. StartsAlone
      BY DEF StartsAlone, Resting
<1>3. StartsKnowTheDisk
      BY DEF StartsKnowTheDisk, DiskAt
<1>4. RunsWithAKey /\ KeyReused
      BY DEF RunsWithAKey, KeyReused
<1> QED BY <1>1, <1>2, <1>3, <1>4 DEF KeyIInv

\* An introducer comes to run with a key it may use, or asks for one.
LEMMA RunOutcome ==
  ASSUME KeyTypeOK, NEW i \in Introducers, Run(i)
  PROVE  /\ stage[i] = "keyed"
         /\ UNCHANGED <<helper, works, file, used, calm, kills, commands>>
         /\ \/ /\ Goto(i, "asking") /\ UNCHANGED <<key, lastKey, disturbed>>
               /\ key[i] \notin Keys /\ CredHelperKey = Nothing
            \/ \E k \in Keys :
                 /\ Goto(i, "running") /\ Holds(i, k)
                 /\ lastKey' = k /\ disturbed' = ~calm[i]
                 /\ k = IF key[i] \in Keys THEN key[i] ELSE CredHelperKey
<1> DEFINE k == IF key[i] \in Keys THEN key[i] ELSE CredHelperKey
<1>1. /\ stage[i] = "keyed"
      /\ UNCHANGED <<helper, works, file, used, calm, kills, commands>>
      /\ IF k = Nothing THEN Goto(i, "asking") /\ UNCHANGED <<key, lastKey, disturbed>>
         ELSE Goto(i, "running") /\ Holds(i, k) /\ lastKey' = k /\ disturbed' = ~calm[i]
      BY DEF Run, diskVars
<1>2. k = Nothing => key[i] \notin Keys /\ CredHelperKey = Nothing
      BY KeyAssumption DEF CredHelperKey
<1>3. k # Nothing => k \in Keys
      BY DEF CredHelperKey
<1> QED BY <1>1, <1>2, <1>3

\* Storing the key fails, or nothing is disturbed.
LEMMA HistoryTypes ==
  ASSUME KeyTypeOK, NEW i \in Introducers, Keep(i) \/ Write(i)
  PROVE  disturbed' \in BOOLEAN /\ calm' \in [Introducers -> BOOLEAN]
<1>1. CASE Disturb
  <2>1. disturbed' = TRUE /\ calm' = [j \in Introducers |-> FALSE]
        BY <1>1 DEF Disturb
  <2> QED BY <2>1
<1>2. CASE UNCHANGED historyVars
      BY <1>2 DEF KeyTypeOK, historyVars
<1> QED BY <1>1, <1>2 DEF Keep, Write

\* Every step keeps the types.
LEMMA KeyTypeStep == KeyTypeOK /\ [KeyNext]_keyVars => KeyTypeOK'
<1> SUFFICES ASSUME KeyTypeOK, [KeyNext]_keyVars PROVE KeyTypeOK'
    OBVIOUS
<1> USE KeyAssumption DEF KeyTypeOK, Stored, Resting, Goto, Holds, Disturb, diskVars, historyVars,
        CredHelperKey
<1>1. ASSUME NEW i \in Introducers, AskHelper(i) PROVE KeyTypeOK'
      BY <1>1 DEF AskHelper
<1>2. ASSUME NEW i \in Introducers, ReadFile(i) PROVE KeyTypeOK'
      BY <1>2 DEF ReadFile
<1>3. ASSUME NEW i \in Introducers, Migrate(i) PROVE KeyTypeOK'
      BY <1>3 DEF Migrate
<1>4. ASSUME NEW i \in Introducers, Remove(i) PROVE KeyTypeOK'
      BY <1>4 DEF Remove
<1>b. \A i \in Introducers : stage[i] \in Resting \cup {"file", "migrate", "remove", "keep", "write", "keyed"}
                            /\ key[i] \in Stored /\ (key[i] \in Keys => key[i] \in used)
      OBVIOUS
<1>5. ASSUME NEW i \in Introducers, Keep(i) PROVE KeyTypeOK'
  <2>1. /\ helper' \in {helper, key[i]} /\ file' \in {file, Blank}
        /\ \E where \in {"keyed", "write"} : stage' = [stage EXCEPT ![i] = where]
        /\ UNCHANGED <<works, key, used, lastKey, kills, commands>>
        BY <1>5 DEF Keep
  <2>2. disturbed' \in BOOLEAN /\ calm' \in [Introducers -> BOOLEAN]
        BY <1>5, HistoryTypes
  <2>3. stage' \in [Introducers -> Resting \cup {"file", "migrate", "remove", "keep", "write", "keyed"}]
        BY <2>1
  <2>4. /\ helper' \in Stored /\ file' \in Stored
        /\ ({helper', file', lastKey} \cup {key[j] : j \in Introducers}) \cap Keys \subseteq used
        BY <2>1, <1>b
  <2> QED BY ONLY KeyTypeOK, <2>1, <2>2, <2>3, <2>4 DEF KeyTypeOK
<1>6. ASSUME NEW i \in Introducers, Write(i) PROVE KeyTypeOK'
  <2>1. /\ \/ file' \in {file, key[i]} /\ UNCHANGED used
           \/ \E part \in Keys : file' = part /\ used' = used \cup {part}
        /\ stage' = [stage EXCEPT ![i] = "keyed"]
        /\ UNCHANGED <<helper, works, key, lastKey, kills, commands>>
        BY <1>6 DEF Write
  <2>2. disturbed' \in BOOLEAN /\ calm' \in [Introducers -> BOOLEAN]
        BY <1>6, HistoryTypes
  <2>3. stage' \in [Introducers -> Resting \cup {"file", "migrate", "remove", "keep", "write", "keyed"}]
        BY <2>1
  <2>4. /\ file' \in Stored /\ used' \subseteq Keys
        /\ ({helper, file', lastKey} \cup {key[j] : j \in Introducers}) \cap Keys \subseteq used'
        BY <2>1, <1>b
  <2> QED BY ONLY KeyTypeOK, <2>1, <2>2, <2>3, <2>4 DEF KeyTypeOK
<1>7. ASSUME NEW i \in Introducers, Run(i) PROVE KeyTypeOK'
  <2>1. CASE Goto(i, "asking") /\ UNCHANGED <<key, lastKey, disturbed>>
    <3>1. UNCHANGED <<helper, works, file, used, calm, kills, commands>>
          BY <1>7, RunOutcome
    <3> QED BY <2>1, <3>1
  <2>2. ASSUME NEW k \in Keys, Goto(i, "running"), Holds(i, k), lastKey' = k,
               disturbed' = ~calm[i], k = IF key[i] \in Keys THEN key[i] ELSE CredHelperKey
        PROVE  KeyTypeOK'
    <3>1. k \in used
          BY <2>2
    <3>2. UNCHANGED <<helper, works, file, used, calm, kills, commands>>
          BY <1>7, RunOutcome
    <3> QED BY <2>2, <3>1, <3>2
  <2>3. \/ Goto(i, "asking") /\ UNCHANGED <<key, lastKey, disturbed>>
        \/ \E k \in Keys :
             /\ Goto(i, "running") /\ Holds(i, k)
             /\ lastKey' = k /\ disturbed' = ~calm[i]
             /\ k = IF key[i] \in Keys THEN key[i] ELSE CredHelperKey
        BY <1>7, RunOutcome
  <2> QED BY <2>1, <2>2, <2>3
<1>8. ASSUME NEW i \in Introducers, End(i) PROVE KeyTypeOK'
      BY <1>8 DEF End
<1>9. ASSUME NEW i \in Introducers, Kill(i) PROVE KeyTypeOK'
      BY <1>9 DEF Kill
<1>10. ASSUME NEW i \in Introducers, ClientStoresKey(i) PROVE KeyTypeOK'
      BY <1>10 DEF ClientStoresKey
<1>11. CASE StoreKey
      BY <1>11 DEF StoreKey, Command
<1>12. CASE ClearKey
      BY <1>12 DEF ClearKey, Command
<1>13. CASE HelperChanges
      BY <1>13 DEF HelperChanges, Command
<1>14. CASE UNCHANGED keyVars
      BY <1>14 DEF keyVars
<1> QED BY <1>1, <1>2, <1>3, <1>4, <1>5, <1>6, <1>7, <1>8, <1>9, <1>10, <1>11,
           <1>12, <1>13, <1>14 DEF KeyNext

\* Nobody starts unnoticed beside an undisturbed introducer.
LEMMA AloneStep ==
  KeyTypeOK /\ StartsAlone /\ [KeyNext]_keyVars => StartsAlone'
<1> SUFFICES ASSUME KeyTypeOK, StartsAlone, [KeyNext]_keyVars PROVE StartsAlone'
    OBVIOUS
<1> USE KeyAssumption DEF KeyTypeOK, StartsAlone, Starting, Resting, Goto, Holds, Disturb, diskVars,
        historyVars
<1>1. ASSUME NEW i \in Introducers, AskHelper(i) PROVE StartsAlone'
      BY <1>1 DEF AskHelper
<1>2. ASSUME NEW i \in Introducers, ReadFile(i) PROVE StartsAlone'
      BY <1>2 DEF ReadFile
<1>3. ASSUME NEW i \in Introducers, Migrate(i) PROVE StartsAlone'
      BY <1>3 DEF Migrate
<1>4. ASSUME NEW i \in Introducers, Remove(i) PROVE StartsAlone'
      BY <1>4 DEF Remove
<1>5. ASSUME NEW i \in Introducers, Keep(i) PROVE StartsAlone'
      BY <1>5 DEF Keep
<1>6. ASSUME NEW i \in Introducers, Write(i) PROVE StartsAlone'
      BY <1>6 DEF Write
<1>7. ASSUME NEW i \in Introducers, Run(i) PROVE StartsAlone'
      BY <1>7, RunOutcome
<1>8. ASSUME NEW i \in Introducers, End(i) PROVE StartsAlone'
      BY <1>8 DEF End
<1>9. ASSUME NEW i \in Introducers, Kill(i) PROVE StartsAlone'
      BY <1>9 DEF Kill
<1>10. ASSUME NEW i \in Introducers, ClientStoresKey(i) PROVE StartsAlone'
      BY <1>10 DEF ClientStoresKey
<1>11. CASE StoreKey
      BY <1>11 DEF StoreKey, Command
<1>12. CASE ClearKey
      BY <1>12 DEF ClearKey, Command
<1>13. CASE HelperChanges
      BY <1>13 DEF HelperChanges, Command
<1>14. CASE UNCHANGED keyVars
      BY <1>14 DEF keyVars
<1> QED BY <1>1, <1>2, <1>3, <1>4, <1>5, <1>6, <1>7, <1>8, <1>9, <1>10, <1>11,
           <1>12, <1>13, <1>14 DEF KeyNext

\* What an undisturbed introducer knows of the disk stays true: of the others only
\* those move that are in no start.
LEMMA DiskStep ==
  KeyTypeOK /\ StartsAlone /\ StartsKnowTheDisk /\ [KeyNext]_keyVars => StartsKnowTheDisk'
<1> SUFFICES ASSUME KeyTypeOK, StartsAlone, StartsKnowTheDisk, [KeyNext]_keyVars
             PROVE  StartsKnowTheDisk'
    OBVIOUS
<1> USE KeyAssumption DEF Goto, Holds, diskVars, historyVars
<1>a. ASSUME NEW i \in Introducers, stage[i] \notin Resting, UNCHANGED calm,
             \A j \in Introducers \ {i} : stage'[j] = stage[j],
             calm[i] => DiskAt(i)'
      PROVE  StartsKnowTheDisk'
  <2>1. ASSUME NEW j \in Introducers, calm[j], j # i PROVE DiskAt(j)'
    <3>1. stage'[j] \in Resting
          BY <1>a, <2>1 DEF StartsAlone
    <3> QED BY <3>1 DEF DiskAt, Resting
  <2> QED BY <1>a, <2>1 DEF StartsKnowTheDisk
<1>1. ASSUME NEW i \in Introducers, AskHelper(i) PROVE StartsKnowTheDisk'
  <2>1. CASE Starting # {}
        BY <1>1, <2>1 DEF AskHelper, Disturb, StartsKnowTheDisk
  <2>2. CASE Starting = {}
    <3>1. ASSUME NEW j \in Introducers, j # i PROVE DiskAt(j)'
          BY <1>1, <2>2, <3>1 DEF AskHelper, Starting, KeyTypeOK, DiskAt, Resting
    <3>2. DiskAt(i)'
          BY <1>1, <2>2 DEF AskHelper, KeyTypeOK, DiskAt, CredHelperKey, NextKey, ConfiguredKey
    <3> QED BY <3>1, <3>2 DEF StartsKnowTheDisk
  <2> QED BY <2>1, <2>2
<1>2. ASSUME NEW i \in Introducers, ReadFile(i) PROVE StartsKnowTheDisk'
  <2>1. stage[i] \notin Resting /\ UNCHANGED calm /\ \A j \in Introducers \ {i} : stage'[j] = stage[j]
        BY <1>2 DEF ReadFile, Resting, KeyTypeOK
  <2>2. calm[i] => DiskAt(i)'
        BY <1>2 DEF ReadFile, StartsKnowTheDisk, DiskAt, KeyTypeOK, CredHelperKey, NextKey, ConfiguredKey
  <2> QED BY <2>1, <2>2, <1>a
<1>3. ASSUME NEW i \in Introducers, Migrate(i) PROVE StartsKnowTheDisk'
  <2>1. stage[i] \notin Resting /\ UNCHANGED calm /\ \A j \in Introducers \ {i} : stage'[j] = stage[j]
        BY <1>3 DEF Migrate, Resting, KeyTypeOK
  <2>2. calm[i] => DiskAt(i)'
        BY <1>3 DEF Migrate, StartsKnowTheDisk, DiskAt, KeyTypeOK, CredHelperKey, NextKey, ConfiguredKey
  <2> QED BY <2>1, <2>2, <1>a
<1>4. ASSUME NEW i \in Introducers, Remove(i) PROVE StartsKnowTheDisk'
  <2>1. stage[i] \notin Resting /\ UNCHANGED calm /\ \A j \in Introducers \ {i} : stage'[j] = stage[j]
        BY <1>4 DEF Remove, Resting, KeyTypeOK
  <2>2. calm[i] => DiskAt(i)'
        BY <1>4 DEF Remove, StartsKnowTheDisk, DiskAt, KeyTypeOK, CredHelperKey, NextKey, ConfiguredKey
  <2> QED BY <2>1, <2>2, <1>a
<1>5. ASSUME NEW i \in Introducers, Keep(i) PROVE StartsKnowTheDisk'
  <2>1. CASE Disturb
        BY <2>1 DEF Disturb, StartsKnowTheDisk
  <2>2. CASE UNCHANGED <<lastKey, disturbed, calm>>
    <3>1. stage[i] \notin Resting /\ \A j \in Introducers \ {i} : stage'[j] = stage[j]
          BY <1>5 DEF Keep, Resting, KeyTypeOK
    <3>2. calm[i] => DiskAt(i)'
          BY <1>5, <2>2 DEF Keep, Disturb, StartsKnowTheDisk, DiskAt, KeyTypeOK, CredHelperKey, NextKey,
             ConfiguredKey
    <3> QED BY <2>2, <3>1, <3>2, <1>a
  <2> QED BY <1>5, <2>1, <2>2 DEF Keep
<1>6. ASSUME NEW i \in Introducers, Write(i) PROVE StartsKnowTheDisk'
  <2>1. CASE Disturb
        BY <2>1 DEF Disturb, StartsKnowTheDisk
  <2>2. CASE UNCHANGED <<lastKey, disturbed, calm>>
    <3>1. stage[i] \notin Resting /\ \A j \in Introducers \ {i} : stage'[j] = stage[j]
          BY <1>6 DEF Write, Resting, KeyTypeOK
    <3>2. calm[i] => DiskAt(i)'
          BY <1>6, <2>2 DEF Write, Disturb, StartsKnowTheDisk, DiskAt, KeyTypeOK, CredHelperKey, NextKey,
             ConfiguredKey
    <3> QED BY <2>2, <3>1, <3>2, <1>a
  <2> QED BY <1>6, <2>1, <2>2 DEF Write
<1>7. ASSUME NEW i \in Introducers, Run(i) PROVE StartsKnowTheDisk'
  <2>1. stage[i] = "keyed" /\ UNCHANGED calm /\ stage'[i] \in {"asking", "running"}
        /\ \A j \in Introducers \ {i} : stage'[j] = stage[j]
        BY <1>7, RunOutcome DEF KeyTypeOK
  <2>2. DiskAt(i)' /\ stage[i] \notin Resting
        BY <2>1 DEF DiskAt, Resting
  <2> QED BY <2>1, <2>2, <1>a
<1>8. ASSUME NEW i \in Introducers, End(i) PROVE StartsKnowTheDisk'
      BY <1>8 DEF End, StartsKnowTheDisk, DiskAt, KeyTypeOK, CredHelperKey, NextKey, ConfiguredKey
<1>9. ASSUME NEW i \in Introducers, Kill(i) PROVE StartsKnowTheDisk'
      BY <1>9 DEF Kill, Starting, StartsKnowTheDisk, DiskAt, KeyTypeOK, CredHelperKey, NextKey,
             ConfiguredKey
<1>10. ASSUME NEW i \in Introducers, ClientStoresKey(i) PROVE StartsKnowTheDisk'
  <2>1. CASE key[i] = lastKey /\ Starting = {}
        BY <1>10, <2>1 DEF ClientStoresKey, Starting, Resting, StartsKnowTheDisk, DiskAt
  <2>2. CASE ~(key[i] = lastKey /\ Starting = {})
        BY <1>10, <2>2 DEF ClientStoresKey, Disturb, StartsKnowTheDisk
  <2> QED BY <2>1, <2>2
<1>11. CASE StoreKey
      BY <1>11 DEF StoreKey, Disturb, StartsKnowTheDisk
<1>12. CASE ClearKey
      BY <1>12 DEF ClearKey, Disturb, StartsKnowTheDisk
<1>13. CASE HelperChanges
      BY <1>13 DEF HelperChanges, Disturb, StartsKnowTheDisk
<1>14. CASE UNCHANGED keyVars
      BY <1>14 DEF keyVars, StartsKnowTheDisk, DiskAt, CredHelperKey, NextKey, ConfiguredKey
<1> QED BY <1>1, <1>2, <1>3, <1>4, <1>5, <1>6, <1>7, <1>8, <1>9, <1>10, <1>11,
           <1>12, <1>13, <1>14 DEF KeyNext

\* The key of the introducer that came to run last is found again.
LEMMA ReusedStep ==
  KeyIInv /\ [KeyNext]_keyVars => RunsWithAKey' /\ KeyReused'
<1> SUFFICES ASSUME KeyIInv, [KeyNext]_keyVars PROVE RunsWithAKey' /\ KeyReused'
    OBVIOUS
<1> USE KeyAssumption DEF KeyIInv, KeyTypeOK, RunsWithAKey, KeyReused, Goto, Holds, Disturb,
        diskVars, historyVars, CredHelperKey, NextKey, ConfiguredKey
<1>a. ASSUME NEW i \in Introducers, stage[i] \notin Resting, ~disturbed
      PROVE  DiskAt(i)
      BY <1>a DEF StartsAlone, StartsKnowTheDisk
<1>1. ASSUME NEW i \in Introducers, AskHelper(i) PROVE RunsWithAKey' /\ KeyReused'
      BY <1>1 DEF AskHelper, Starting, Resting
<1>2. ASSUME NEW i \in Introducers, ReadFile(i) PROVE RunsWithAKey' /\ KeyReused'
      BY <1>2, <1>a DEF ReadFile, DiskAt, Resting
<1>3. ASSUME NEW i \in Introducers, Migrate(i) PROVE RunsWithAKey' /\ KeyReused'
      BY <1>3, <1>a DEF Migrate, DiskAt, Resting
<1>4. ASSUME NEW i \in Introducers, Remove(i) PROVE RunsWithAKey' /\ KeyReused'
      BY <1>4, <1>a DEF Remove, DiskAt, Resting
<1>5. ASSUME NEW i \in Introducers, Keep(i) PROVE RunsWithAKey' /\ KeyReused'
      BY <1>5, <1>a DEF Keep, DiskAt, Resting
<1>6. ASSUME NEW i \in Introducers, Write(i) PROVE RunsWithAKey' /\ KeyReused'
      BY <1>6, <1>a DEF Write, DiskAt, Resting
<1>7. ASSUME NEW i \in Introducers, Run(i) PROVE RunsWithAKey' /\ KeyReused'
  <2>1. CASE Goto(i, "asking") /\ UNCHANGED <<key, lastKey, disturbed>>
        BY <1>7, <2>1, RunOutcome
  <2>2. ASSUME NEW k \in Keys, Goto(i, "running"), Holds(i, k), lastKey' = k,
               disturbed' = ~calm[i], k = IF key[i] \in Keys THEN key[i] ELSE CredHelperKey
        PROVE  RunsWithAKey' /\ KeyReused'
    <3>1. UNCHANGED <<helper, works, file>> /\ stage[i] = "keyed"
          BY <1>7, RunOutcome
    <3>2. calm[i] => DiskAt(i)
          BY DEF StartsKnowTheDisk
    <3>3. KeyReused'
          BY <2>2, <3>1, <3>2 DEF DiskAt
    <3> QED BY <2>2, <3>3
  <2>3. \/ Goto(i, "asking") /\ UNCHANGED <<key, lastKey, disturbed>>
        \/ \E k \in Keys :
             /\ Goto(i, "running") /\ Holds(i, k)
             /\ lastKey' = k /\ disturbed' = ~calm[i]
             /\ k = IF key[i] \in Keys THEN key[i] ELSE CredHelperKey
        BY <1>7, RunOutcome
  <2> QED BY <2>1, <2>2, <2>3
<1>8. ASSUME NEW i \in Introducers, End(i) PROVE RunsWithAKey' /\ KeyReused'
      BY <1>8 DEF End, Starting, Resting
<1>9. ASSUME NEW i \in Introducers, Kill(i) PROVE RunsWithAKey' /\ KeyReused'
      BY <1>9 DEF Kill, Starting, Resting
<1>10. ASSUME NEW i \in Introducers, ClientStoresKey(i) PROVE RunsWithAKey' /\ KeyReused'
      BY <1>10 DEF ClientStoresKey, Starting, Resting
<1>11. CASE StoreKey
      BY <1>11 DEF StoreKey
<1>12. CASE ClearKey
      BY <1>12 DEF ClearKey
<1>13. CASE HelperChanges
      BY <1>13 DEF HelperChanges
<1>14. CASE UNCHANGED keyVars
      BY <1>14 DEF keyVars
<1> QED BY <1>1, <1>2, <1>3, <1>4, <1>5, <1>6, <1>7, <1>8, <1>9, <1>10, <1>11,
           <1>12, <1>13, <1>14 DEF KeyNext

\* The inductive invariant holds in every reachable state of KeyStore.
LEMMA KeyInvariance == KeySpec => []KeyIInv
<1>1. KeyIInv /\ [KeyNext]_keyVars => KeyIInv'
      BY KeyTypeStep, AloneStep, DiskStep, ReusedStep DEF KeyIInv
<1> QED BY KeyInitIInv, <1>1, PTL DEF KeySpec
-----------------------------------------------------------------------------
(* ConfigFiles *)

\* Names that were not overtaken are in the file as asked for; and whoever is at a file is
\* going to write its own change, and of the names it knows to be current what was asked
\* for.
FilesAreKept ==
  /\ \A l \in Layers : \A n \in Names \ overtaken[l] : disk[l][n] = asked[l][n]
  /\ \A w \in Writers, l \in Layers : At(w, l) =>
       /\ copy[w][change[w].name] = change[w].value
       /\ \A n \in Names : n \notin behind[w] /\ n # change[w].name => copy[w][n] = asked[l][n]

ConfigIInv == ConfigTypeOK /\ FilesAreKept

\* The inductive invariant holds initially.
LEMMA ConfigInitIInv == ConfigInit => ConfigIInv
<1> SUFFICES ASSUME ConfigInit PROVE ConfigIInv
    OBVIOUS
<1>1. Empty \in Contents /\ NoChange \in Change
      BY ConfigAssumption DEF Empty, Contents, NoChange, Change, Layers
<1>2. ConfigTypeOK
      BY <1>1, ConfigAssumption DEF ConfigInit, ConfigTypeOK
<1>3. FilesAreKept
      BY DEF ConfigInit, FilesAreKept, At, Layers, Empty
<1> QED BY <1>2, <1>3 DEF ConfigIInv

\* A change of a file is again a file.
LEMMA ModifyType ==
  ASSUME NEW f \in Contents, NEW c \in Change
  PROVE  Modify(f, c) \in Contents
BY DEF Contents, Change, Modify

\* Every step keeps the types.
LEMMA ConfigTypeStep == ConfigTypeOK /\ [ConfigNext]_configVars => ConfigTypeOK'
<1> SUFFICES ASSUME ConfigTypeOK, [ConfigNext]_configVars PROVE ConfigTypeOK'
    OBVIOUS
<1> USE ConfigAssumption DEF ConfigTypeOK
<1>a. Empty \in Contents /\ NoChange \in Change
      BY DEF Empty, Contents, NoChange, Change, Layers
<1>1. ASSUME NEW w \in Writers, Load(w) PROVE ConfigTypeOK'
  <2>1. PICK c \in Change :
          /\ change' = [change EXCEPT ![w] = c]
          /\ copy' = [copy EXCEPT ![w] = Modify(disk[c.layer], c)]
          /\ behind' = [behind EXCEPT ![w] = overtaken[c.layer] \ {c.name}]
        BY <1>1 DEF Load
  <2>2. c.layer \in Layers /\ Modify(disk[c.layer], c) \in Contents
        BY ModifyType DEF Change
  <2>3. /\ change' \in [Writers -> Change] /\ copy' \in [Writers -> Contents]
        /\ behind' \in [Writers -> SUBSET Names]
        BY <2>1, <2>2
  <2> QED BY <1>1, <2>1, <2>3 DEF Load
<1>2. ASSUME NEW w \in Writers, Truncate(w) PROVE ConfigTypeOK'
      BY <1>2, <1>a DEF Truncate, Change
<1>3. ASSUME NEW w \in Writers, WriteOut(w) PROVE ConfigTypeOK'
  <2>1. change[w] \in Change /\ copy[w] \in Contents /\ behind[w] \in SUBSET Names
        OBVIOUS
  <2>2. change[w].layer \in Layers /\ change[w].name \in Names
        /\ change[w].value \in Values \cup {Absent}
        BY <2>1 DEF Change
  <2>3. disk' \in [Layers -> Contents] /\ asked' \in [Layers -> Contents]
        BY <1>3, <2>1, <2>2 DEF WriteOut, Contents
  <2>4. behind' \in [Writers -> SUBSET Names] /\ overtaken' \in [Layers -> SUBSET Names]
        /\ behind'[w] = {}
        BY <1>3, <2>1, <2>2 DEF WriteOut
  <2>5. \A v \in Writers \ {w} : step[v] = "idle" => behind'[v] = behind[v]
        BY <1>3 DEF WriteOut, At
  <2> QED BY <1>3, <1>a, <2>3, <2>4, <2>5 DEF WriteOut, Idle
<1>4. ASSUME NEW w \in Writers, KillWriter(w) PROVE ConfigTypeOK'
      BY <1>4, <1>a DEF KillWriter, Idle, Change
<1>5. CASE UNCHANGED configVars
      BY <1>5 DEF configVars
<1> QED BY <1>1, <1>2, <1>3, <1>4, <1>5 DEF ConfigNext

\* Names that were not overtaken are kept by every step.
LEMMA KeptStep == ConfigIInv /\ [ConfigNext]_configVars => FilesAreKept'
<1> SUFFICES ASSUME ConfigTypeOK, FilesAreKept, [ConfigNext]_configVars PROVE FilesAreKept'
    BY DEF ConfigIInv
<1> USE DEF ConfigTypeOK, FilesAreKept, At
<1>a. ASSUME NEW c \in Change PROVE c.layer \in Layers /\ c.name \in Names
      BY DEF Change
<1>1. ASSUME NEW w \in Writers, Load(w) PROVE FilesAreKept'
  <2>1. PICK c \in Change :
          /\ change' = [change EXCEPT ![w] = c]
          /\ copy' = [copy EXCEPT ![w] = Modify(disk[c.layer], c)]
          /\ behind' = [behind EXCEPT ![w] = overtaken[c.layer] \ {c.name}]
        BY <1>1 DEF Load
  <2>2. /\ step[w] = "idle" /\ step' = [step EXCEPT ![w] = "loaded"]
        /\ UNCHANGED <<disk, asked, overtaken>> /\ c.layer \in Layers /\ c.name \in Names
        BY <1>1, <1>a DEF Load
  <2>3. /\ change'[w] = c /\ copy'[w] = Modify(disk[c.layer], c)
        /\ behind'[w] = overtaken[c.layer] \ {c.name}
        BY <2>1
  <2>4. /\ copy'[w][c.name] = c.value
        /\ \A n \in Names : n # c.name => copy'[w][n] = disk[c.layer][n]
        BY <2>2, <2>3 DEF Modify, Contents
  <2>5. \A v \in Writers \ {w} : /\ copy'[v] = copy[v] /\ change'[v] = change[v]
                                 /\ behind'[v] = behind[v] /\ step'[v] = step[v]
        BY <2>1, <2>2
  <2> QED BY <2>2, <2>3, <2>4, <2>5
<1>2. ASSUME NEW w \in Writers, Truncate(w) PROVE FilesAreKept'
  <2>0. PICK k \in Layers : k = change[w].layer
        BY <1>a
  <2>1. /\ disk' = [disk EXCEPT ![k] = Empty] /\ overtaken' = [overtaken EXCEPT ![k] = Names]
        /\ step[w] = "loaded" /\ step' = [step EXCEPT ![w] = "saving"]
        /\ UNCHANGED <<change, copy, asked, behind>>
        BY <1>2, <2>0 DEF Truncate
  <2>2. \A v \in Writers, l \in Layers : At(v, l)' <=> At(v, l)
        BY <2>1
  <2>3. \A l \in Layers : \A n \in Names \ overtaken'[l] : disk'[l][n] = asked'[l][n]
        BY <2>1
  <2> QED BY <2>1, <2>2, <2>3
<1>3. ASSUME NEW w \in Writers, WriteOut(w) PROVE FilesAreKept'
  <2>0. PICK c \in Change : c = change[w]
        OBVIOUS
  <2>1. /\ step[w] = "saving" /\ disk' = [disk EXCEPT ![c.layer] = copy[w]]
        /\ asked' = [asked EXCEPT ![c.layer][c.name] = c.value]
        /\ overtaken' = [overtaken EXCEPT ![c.layer] = behind[w]]
        /\ step' = [step EXCEPT ![w] = "idle"]
        /\ change' = [change EXCEPT ![w] = NoChange] /\ copy' = [copy EXCEPT ![w] = Empty]
        /\ \A v \in Writers \ {w} :
             behind'[v] = IF At(v, c.layer) THEN behind[v] \cup ({c.name} \ {change[v].name})
                          ELSE behind[v]
        BY <1>3, <2>0 DEF WriteOut, Idle
  <2>2. c.layer \in Layers /\ c.name \in Names /\ asked[c.layer] \in Contents
        BY <1>a
  <2>3. /\ asked'[c.layer][c.name] = c.value
        /\ \A n \in Names : n # c.name => asked'[c.layer][n] = asked[c.layer][n]
        /\ \A l \in Layers \ {c.layer} : asked'[l] = asked[l] /\ disk'[l] = disk[l]
                                          /\ overtaken'[l] = overtaken[l]
        /\ disk'[c.layer] = copy[w] /\ overtaken'[c.layer] = behind[w]
        BY <2>1, <2>2 DEF Contents
  <2>4. /\ copy[w][c.name] = c.value
        /\ \A n \in Names : n \notin behind[w] /\ n # c.name => copy[w][n] = asked[c.layer][n]
        BY <2>0, <2>1, <2>2
  <2>5. \A l \in Layers : \A n \in Names \ overtaken'[l] : disk'[l][n] = asked'[l][n]
    <3>1. ASSUME NEW n \in Names \ behind[w] PROVE disk'[c.layer][n] = asked'[c.layer][n]
          BY <2>3, <2>4
    <3> QED BY <2>3, <3>1
  <2>6. ASSUME NEW v \in Writers, NEW l \in Layers, At(v, l)'
        PROVE  /\ copy'[v][change'[v].name] = change'[v].value
               /\ \A n \in Names : n \notin behind'[v] /\ n # change'[v].name
                                  => copy'[v][n] = asked'[l][n]
    <3>1. v # w /\ At(v, l) /\ copy'[v] = copy[v] /\ change'[v] = change[v]
          BY <2>1, <2>6
    <3>2. /\ copy[v][change[v].name] = change[v].value
          /\ \A n \in Names : n \notin behind[v] /\ n # change[v].name => copy[v][n] = asked[l][n]
          BY <3>1
    <3>3. CASE l = c.layer
      <4>1. behind'[v] = behind[v] \cup ({c.name} \ {change[v].name})
            BY <2>1, <3>1, <3>3
      <4> QED BY <2>3, <3>1, <3>2, <3>3, <4>1
    <3>4. CASE l # c.layer
      <4>1. behind'[v] = behind[v]
            BY <2>1, <3>1, <3>4
      <4> QED BY <2>3, <3>1, <3>2, <3>4, <4>1
    <3> QED BY <3>3, <3>4
  <2> HIDE DEF ConfigTypeOK
  <2> QED BY <2>5, <2>6
<1>4. ASSUME NEW w \in Writers, KillWriter(w) PROVE FilesAreKept'
  <2>1. /\ step' = [step EXCEPT ![w] = "idle"]
        /\ \A v \in Writers \ {w} : /\ copy'[v] = copy[v] /\ change'[v] = change[v]
                                     /\ behind'[v] = behind[v] /\ step'[v] = step[v]
        /\ UNCHANGED <<disk, asked, overtaken>>
        BY <1>4 DEF KillWriter, Idle
  <2> QED BY <2>1
<1>5. CASE UNCHANGED configVars
      BY <1>5 DEF configVars
<1> QED BY <1>1, <1>2, <1>3, <1>4, <1>5 DEF ConfigNext

\* The inductive invariant holds in every reachable state of ConfigFiles.
LEMMA ConfigInvariance == ConfigSpec => []ConfigIInv
<1>1. ConfigIInv /\ [ConfigNext]_configVars => ConfigIInv'
      BY ConfigTypeStep, KeptStep DEF ConfigIInv
<1> QED BY ConfigInitIInv, <1>1, PTL DEF ConfigSpec

\* What a file holds of a name that was not overtaken is what a lookup finds.
LEMMA KeptIsFound == FilesAreKept => SettingsKept
BY DEF FilesAreKept, SettingsKept, Get, Layers
-----------------------------------------------------------------------------
(* The theorems *)

\* A behaviour of both parts is one of each.
LEMMA Parts == Spec => KeySpec /\ ConfigSpec
<1>1. Init => KeyInit /\ ConfigInit
      BY DEF Init
<1>2. [Next]_vars => [KeyNext]_keyVars /\ [ConfigNext]_configVars
      BY DEF Next, vars
<1> QED BY <1>1, <1>2, PTL DEF Spec, KeySpec, ConfigSpec

\* Every variable of the key and of the files keeps its type.
THEOREM TypeCorrect == Spec => []TypeOK
<1>1. KeyIInv /\ ConfigIInv => TypeOK
      BY DEF KeyIInv, ConfigIInv, TypeOK
<1> QED BY <1>1, Parts, KeyInvariance, ConfigInvariance, PTL

\* An introducer that starts again has the key of the one that ran last, wherever
\* the ones between were killed, unless its key could not be written or somebody meddled
\* (introducer.go:27-52).
THEOREM KeyIsReused == Spec => []KeyReused
<1>1. KeyIInv => KeyReused
      BY DEF KeyIInv
<1> QED BY <1>1, Parts, KeyInvariance, PTL

\* However many commands change the files at the same time or are killed, a lookup finds
\* what was asked for last, except of names that were overtaken (api/config_api.go:28-96).
THEOREM SettingsAreKept == Spec => []SettingsKept
<1>1. ConfigIInv => SettingsKept
      BY KeptIsFound DEF ConfigIInv
<1> QED BY <1>1, Parts, ConfigInvariance, PTL
=============================================================================
