------------------------------ MODULE Library --------------------------------
(***************************************************************************)
(* The authored library on disk: sequences.json, one map of saved sequences *)
(* per camera, and mix_sequences.json, one map of saved mixes, with the     *)
(* lists of names the clients are shown.  The worker of each camera saves   *)
(* and deletes sequences; the threads of clients save and delete mixes and  *)
(* import a library; the process can die at any time, also while a file is  *)
(* being rewritten, and is started again.                                   *)
(*                                                                          *)
(* Grain: persist::load_* and persist::store_* are a step each, under g_mu; *)
(* what a command does to its list of names is another.                     *)
(* Abstracted: the content of an entry; the active scratch; a sequences.json*)
(* of version 1 is there from the start and no import is merged into it.    *)
(***************************************************************************)
EXTENDS Integers, FiniteSets

CONSTANTS
  Cams,         \* cameras
  Callers,      \* client threads
  Names,        \* names of sequences and mixes
  None,
  MaxCommands,  \* bound on the commands
  MaxRestarts   \* bound on the times the process dies

ASSUME LibraryAssumption ==
  /\ Cams \cap Callers = {} /\ "mixes" \notin Cams /\ None \notin Names
  /\ MaxCommands \in Nat /\ MaxRestarts \in Nat

Threads == Cams \cup Callers
Ops     == {"save", "load", "delete"}

VARIABLES
  sequences,    \* sequences.json: the names saved for each camera
  legacy,       \* sequences.json: the names of a file of version 1
  mixes,        \* mix_sequences.json
  work,         \* each thread: its place, command, name, and the map it loaded
  attached,     \* cameras that have a session
  available,    \* available_sequences of each camera
  loaded,       \* loaded_sequence of each camera
  mix_available, mix_loaded,
  kept,         \* history: the names that belong in each camera's map, by the
                \*   commands that stored and the imports that were made
  mix_kept,     \* history: the same for mixes
  lost,         \* history: what may have cost entries: a "torn" file, a command
                \*   "overtaken" by an import, two mix commands that "crossed"
  stale,       \* history: cameras, and "mixes", imported into since they were listed
  commands, restarts

files  == <<sequences, legacy, mixes>>
lists  == <<available, loaded, mix_available, mix_loaded>>
ghosts == <<kept, mix_kept, lost>>
libraryVars == <<files, work, attached, lists, ghosts, stale, commands, restarts>>

Rest == [at |-> "idle", op |-> None, name |-> None, map |-> {}]

LibraryInit ==
  /\ sequences \in [Cams -> {{}, Names}] /\ mixes = {}
  /\ legacy \in {{}, Names}
  /\ legacy # {} => sequences = [c \in Cams |-> {}]
  /\ work = [t \in Threads |-> Rest] /\ attached = {}
  /\ available = [c \in Cams |-> {}] /\ loaded = [c \in Cams |-> None]
  /\ mix_available = {} /\ mix_loaded = None
  /\ kept = sequences /\ mix_kept = {} /\ lost = {} /\ stale = {}
  /\ commands = 0 /\ restarts = 0

(* A command's effect on a map, and on the map of camera c.                 *)
Edited(w, map) == IF w.op = "save" THEN map \cup {w.name} ELSE map \ {w.name}

Command(t, op, n, map) ==
  /\ work[t] = Rest /\ commands < MaxCommands /\ commands' = commands + 1
  /\ op # "save" => n \in map
  /\ work' = [work EXCEPT ![t] = [at |-> (IF op = "load" THEN "list" ELSE "store"),
                                  op |-> op, name |-> n, map |-> map]]

-----------------------------------------------------------------------------
(* A camera: attach migrates and hydrates; then its worker runs commands.   *)

migrate_v1_if_needed(c) ==
  IF legacy = {} THEN UNCHANGED <<sequences, legacy, kept>>
  ELSE /\ sequences' = [sequences EXCEPT ![c] = legacy] /\ legacy' = {}
       /\ kept' = [kept EXCEPT ![c] = legacy]

attach(c) ==
  /\ c \notin attached /\ attached' = attached \cup {c}
  /\ migrate_v1_if_needed(c)
  /\ available' = [available EXCEPT ![c] = sequences'[c]]
  /\ stale' = stale \ {c}
  /\ UNCHANGED <<mixes, work, loaded, mix_available, mix_loaded, mix_kept, lost, commands,
                 restarts>>

(* cmd_sequence_save_as, _load and _delete load the camera's map ...        *)
LoadSequences(c, op, n) ==
  /\ c \in attached /\ Command(c, op, n, sequences[c])
  /\ UNCHANGED <<files, attached, lists, ghosts, stale, restarts>>

(* A fault: the camera's map is all there is to store.                      *)
OnlyOwn(c) == [d \in Cams |-> IF d = c THEN Edited(work[c], work[c].map) ELSE {}]

(* store_sequence_library reads the file again for the others.              *)
Reread(c) == [sequences EXCEPT ![c] = Edited(work[c], work[c].map)]

(* ... and store it.                                                        *)
StoreSequences(c) ==
  /\ work[c].at = "store"
  /\ sequences' = Reread(c)
  /\ kept' = [kept EXCEPT ![c] = Edited(work[c], @)]
  /\ lost' = IF work[c].map # sequences[c] THEN lost \cup {"overtaken"} ELSE lost
  /\ work' = [work EXCEPT ![c].at = "list"]
  /\ UNCHANGED <<legacy, mixes, attached, lists, mix_kept, stale, commands, restarts>>

(* A fault: the name of a deleted sequence stays in force.                  *)
LoadedStays(w, name) == IF w.op # "delete" THEN w.name ELSE name

(* The loaded name after a command.                                         *)
LoadedAfter(w, name) ==
  IF w.op # "delete" THEN w.name ELSE IF name = w.name THEN None ELSE name

(* Loading lists nothing.                                                   *)
ListAfter(w, list) == IF w.op = "load" THEN list ELSE Edited(w, w.map)

ListSequences(c) ==
  /\ work[c].at = "list"
  /\ available' = [available EXCEPT ![c] = ListAfter(work[c], @)]
  /\ loaded' = [loaded EXCEPT ![c] = LoadedAfter(work[c], @)]
  /\ work' = [work EXCEPT ![c] = Rest]
  /\ UNCHANGED <<files, attached, mix_available, mix_loaded, ghosts, stale, commands,
                 restarts>>

-----------------------------------------------------------------------------
(* mix_save_as, mix_load and mix_delete, on the threads of clients.         *)

LoadMixes(t, op, n) ==
  /\ Command(t, op, n, mixes)
  /\ UNCHANGED <<files, attached, lists, ghosts, stale, restarts>>

StoreMixes(t) ==
  /\ work[t].at = "store"
  /\ mixes' = Edited(work[t], work[t].map)
  /\ mix_kept' = Edited(work[t], mix_kept)
  /\ lost' = IF \E u \in Callers \ {t} : work[u].at # "idle"
             THEN lost \cup {"crossed"}
             ELSE IF work[t].map # mixes THEN lost \cup {"overtaken"} ELSE lost
  /\ work' = [work EXCEPT ![t].at = "list"]
  /\ UNCHANGED <<sequences, legacy, attached, lists, kept, stale, commands, restarts>>

ListMixes(t) ==
  /\ work[t].at = "list"
  /\ mix_available' = ListAfter(work[t], mix_available)
  /\ mix_loaded' = LoadedAfter(work[t], mix_loaded)
  /\ work' = [work EXCEPT ![t] = Rest]
  /\ UNCHANGED <<files, attached, available, loaded, ghosts, stale, commands, restarts>>

(* Incoming wins: for sequences the map of a camera as a whole, for mixes   *)
(* name by name.  The lists are not made again.                             *)
import_library(c, map) ==
  /\ legacy = {} /\ commands < MaxCommands /\ commands' = commands + 1
  /\ sequences' = [sequences EXCEPT ![c] = map] /\ kept' = [kept EXCEPT ![c] = map]
  /\ mixes' = mixes \cup map /\ mix_kept' = mix_kept \cup map
  /\ stale' = stale \cup {c, "mixes"}
  /\ UNCHANGED <<legacy, work, attached, lists, lost, restarts>>

-----------------------------------------------------------------------------
(* What a file is after the process died: as it was, or - if a thread was   *)
(* rewriting it - truncated, which reads as an empty map.                   *)
Rewriting(threads) == \E t \in threads : work[t].at = "store"

Restart ==
  /\ restarts < MaxRestarts /\ restarts' = restarts + 1
  /\ \/ UNCHANGED <<sequences, mixes, lost>>
     \/ /\ Rewriting(Cams) /\ sequences' = [c \in Cams |-> {}]
        /\ lost' = lost \cup {"torn"} /\ mixes' = mixes
     \/ /\ Rewriting(Callers) /\ mixes' = {}
        /\ lost' = lost \cup {"torn"} /\ sequences' = sequences
  /\ work' = [t \in Threads |-> Rest] /\ attached' = {}
  /\ available' = [c \in Cams |-> {}] /\ loaded' = [c \in Cams |-> None]
  /\ mix_available' = mixes' /\ mix_loaded' = None
  /\ stale' = {}
  /\ UNCHANGED <<legacy, kept, mix_kept, commands>>

LibraryNext ==
  \/ \E c \in Cams : attach(c) \/ StoreSequences(c) \/ ListSequences(c)
  \/ \E c \in Cams, n \in Names, op \in Ops : LoadSequences(c, op, n)
  \/ \E t \in Callers, n \in Names, op \in Ops : LoadMixes(t, op, n)
  \/ \E t \in Callers : StoreMixes(t) \/ ListMixes(t)
  \/ \E c \in Cams, map \in SUBSET Names : import_library(c, map)
  \/ Restart

LibrarySpec == LibraryInit /\ [][LibraryNext]_libraryVars

-----------------------------------------------------------------------------
LibraryTypeOK ==
  /\ sequences \in [Cams -> SUBSET Names] /\ legacy \subseteq Names /\ mixes \subseteq Names
  /\ work \in [Threads -> [at : {"idle", "store", "list"}, op : Ops \cup {None},
                          name : Names \cup {None}, map : SUBSET Names]]
  /\ attached \subseteq Cams
  /\ available \in [Cams -> SUBSET Names] /\ loaded \in [Cams -> Names \cup {None}]
  /\ mix_available \subseteq Names /\ mix_loaded \in Names \cup {None}
  /\ kept \in [Cams -> SUBSET Names] /\ mix_kept \subseteq Names
  /\ lost \subseteq {"torn", "overtaken", "crossed"} /\ stale \subseteq Cams \cup {"mixes"}
  /\ commands \in 0..MaxCommands /\ restarts \in 0..MaxRestarts

(* The file holds exactly what the commands that stored and the imports     *)
(* made of it, although the workers of all cameras rewrite one file and the *)
(* process may die and start again - unless it died while rewriting the     *)
(* file, an import came between the load and the store of a command, or,    *)
(* for mixes, two clients' commands crossed.                                *)
SavedIsKept ==
  /\ lost \subseteq {"crossed"} => sequences = kept
  /\ lost = {} => mixes = mix_kept

(* With the same exceptions, the names shown are those on file, and the     *)
(* loaded name is one of them, for a camera or the mixes with no command at *)
(* work and no import since.                                                *)
ListsAreStored ==
  /\ \A c \in attached \ stale :
       lost \subseteq {"crossed"} /\ work[c].at # "list" =>
         available[c] = sequences[c] /\ loaded[c] \in sequences[c] \cup {None}
  /\ lost = {} /\ "mixes" \notin stale /\ (\A t \in Callers : work[t].at # "list") =>
       mix_available = mixes /\ mix_loaded \in mixes \cup {None}
=============================================================================
