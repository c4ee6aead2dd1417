---------------------------- MODULE ConfigFiles ----------------------------
(***************************************************************************)
(* The two configuration files of api/config_api.go, and the pmb config    *)
(* commands that change them and look up a value.  A file is a function    *)
(* from names, pairs of a section and a key, to values.  Set and Unset     *)
(* load it, change the copy and save the whole; the ini library, which is  *)
(* external, empties the file before it writes it.  Commands run at once   *)
(* and may be killed; nothing keeps one from writing what another has      *)
(* changed since it loaded the file.                                       *)
(***************************************************************************)
EXTENDS Naturals

CONSTANTS Writers,  \* processes that run pmb config
          Names, Values,
          Absent,   \* no value
          MaxJobs,  \* bound: commands that change a file
          MaxKilled \* bound: commands that are killed

ASSUME ConfigAssumption == /\ Absent \notin Values /\ Names # {}
                           /\ {MaxJobs, MaxKilled} \subseteq Nat

Layers == {"system", "user"}
Contents == [Names -> Values \cup {Absent}]
Empty == [n \in Names |-> Absent]
Change == [layer : Layers, name : Names, value : Values \cup {Absent}]
NoChange == [layer |-> "user", name |-> CHOOSE n \in Names : TRUE, value |-> Absent]

VARIABLES
  disk,    \* disk[l]: what the file has
  step,    \* step[w]: "idle", "loaded" or "saving"
  change,  \* change[w]: what the command of w changes
  copy,    \* copy[w]: what it is going to write
  asked,   \* history: asked[l]: what the commands that ended asked for
  behind,  \* history: behind[w]: names of which the copy of w may be out of date
  overtaken, \* history: overtaken[l]: names of which the file may be out of date
  jobs, killed

configVars == <<disk, step, change, copy, asked, behind, overtaken, jobs, killed>>

ConfigInit ==
  /\ disk = [l \in Layers |-> Empty] /\ asked = disk
  /\ step = [w \in Writers |-> "idle"]
  /\ change = [w \in Writers |-> NoChange]
  /\ copy = [w \in Writers |-> Empty]
  /\ behind = [w \in Writers |-> {}] /\ overtaken = [l \in Layers |-> {}]
  /\ jobs = 0 /\ killed = 0

GetSystemFirst(n) ==
  IF disk["system"][n] # Absent THEN disk["system"][n] ELSE disk["user"][n]

\* Get and GetAll: the user's file is laid over that of the system.
Get(n) == IF disk["user"][n] # Absent THEN disk["user"][n] ELSE disk["system"][n]
-----------------------------------------------------------------------------
\* NewKey or DeleteKey; a section without keys is deleted, which no lookup sees.
Modify(file, c) == [file EXCEPT ![c.name] = c.value]

\* The command of w is at the file l.
At(w, l) == step[w] # "idle" /\ change[w].layer = l

\* Set and Unset, which load the file ...
Load(w) ==
  /\ step[w] = "idle"
  /\ jobs < MaxJobs /\ jobs' = jobs + 1
  /\ \E c \in Change :
       /\ change' = [change EXCEPT ![w] = c]
       /\ copy' = [copy EXCEPT ![w] = Modify(disk[c.layer], c)]
       /\ behind' = [behind EXCEPT ![w] = overtaken[c.layer] \ {c.name}]
  /\ step' = [step EXCEPT ![w] = "loaded"]
  /\ UNCHANGED <<disk, asked, overtaken, killed>>

\* ... and save it: SaveToIndent empties the file and writes it.
Truncate(w) ==
  /\ step[w] = "loaded"
  /\ disk' = [disk EXCEPT ![change[w].layer] = Empty]
  /\ overtaken' = [overtaken EXCEPT ![change[w].layer] = Names]
  /\ step' = [step EXCEPT ![w] = "saving"]
  /\ UNCHANGED <<change, copy, asked, behind, jobs, killed>>

Idle(w) ==
  /\ step' = [step EXCEPT ![w] = "idle"]
  /\ change' = [change EXCEPT ![w] = NoChange]
  /\ copy' = [copy EXCEPT ![w] = Empty]
  /\ UNCHANGED jobs

\* Whoever is at the same file does not know of the change.
WriteOut(w) ==
  LET c == change[w] IN
  /\ step[w] = "saving"
  /\ disk' = [disk EXCEPT ![c.layer] = copy[w]]
  /\ asked' = [asked EXCEPT ![c.layer][c.name] = c.value]
  /\ overtaken' = [overtaken EXCEPT ![c.layer] = behind[w]]
  /\ behind' = [v \in Writers |->
                  IF v = w THEN {}
                  ELSE IF At(v, c.layer) THEN behind[v] \cup ({c.name} \ {change[v].name})
                  ELSE behind[v]]
  /\ Idle(w)
  /\ UNCHANGED killed

\* Killed, or unable to save.
KillWriter(w) ==
  /\ step[w] # "idle"
  /\ killed < MaxKilled /\ killed' = killed + 1
  /\ behind' = [behind EXCEPT ![w] = {}]
  /\ Idle(w)
  /\ UNCHANGED <<disk, asked, overtaken>>

ConfigNext == \E w \in Writers : Load(w) \/ Truncate(w) \/ WriteOut(w) \/ KillWriter(w)

ConfigSpec == ConfigInit /\ [][ConfigNext]_configVars
-----------------------------------------------------------------------------
(* Properties *)

\* Every variable has its type, and who is idle has nothing in hand.
ConfigTypeOK ==
  /\ {disk, asked} \subseteq [Layers -> Contents]
  /\ step \in [Writers -> {"idle", "loaded", "saving"}]
  /\ change \in [Writers -> Change] /\ copy \in [Writers -> Contents]
  /\ behind \in [Writers -> SUBSET Names] /\ overtaken \in [Layers -> SUBSET Names]
  /\ jobs \in 0..MaxJobs /\ killed \in 0..MaxKilled
  /\ \A w \in Writers : step[w] = "idle" => change[w] = NoChange /\ copy[w] = Empty /\ behind[w] = {}

\* A lookup finds what the command that ended last asked for, in the file of the user or
\* else in that of the system, whatever other commands did at the same time; except of a
\* name that was overtaken: the file is being written, or was when somebody loaded it or
\* was killed, or a command wrote it that had loaded it before the name was changed
\* (api/config_api.go:28-96).
SettingsKept ==
  \A n \in Names :
    n \notin overtaken["user"] =>
      /\ asked["user"][n] # Absent => Get(n) = asked["user"][n]
      /\ asked["user"][n] = Absent /\ n \notin overtaken["system"] => Get(n) = asked["system"][n]
=============================================================================
