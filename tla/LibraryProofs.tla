--------------------------- MODULE LibraryProofs ----------------------------
(***************************************************************************)
(* What holds of Library for any cameras, clients and names and any number  *)
(* of commands and restarts: the files hold what was stored in them, and    *)
(* the lists of names shown to the clients are those on file.               *)
(***************************************************************************)
EXTENDS Library, TLAPS

(* A thread at work has a command; what it stores is a save or a delete;    *)
(* and only a camera with a session works.                                  *)
WorkOK ==
  /\ \A t \in Threads :
       IF work[t].at = "idle" THEN work[t] = Rest
       ELSE /\ work[t].op \in Ops /\ work[t].name \in Names
            /\ work[t].at = "store" => work[t].op # "load"
  /\ \A c \in Cams \ attached : work[c] = Rest /\ loaded[c] = None

Untorn == lost \subseteq {"crossed"}

(* An edit that is on file and not yet in the list.                         *)
Unlisted(t) == work[t].at = "list" /\ work[t].op # "load"

(* A camera's map belongs to its worker from load to list.                  *)
SequencesListed ==
  Untorn => \A c \in attached \ stale :
    /\ work[c].at = "store" => work[c].map = sequences[c]
    /\ work[c].at = "list" /\ work[c].op = "load" => work[c].name \in sequences[c]
    /\ IF Unlisted(c)
       THEN /\ sequences[c] = Edited(work[c], work[c].map)
            /\ loaded[c] \in work[c].map \cup {None}
       ELSE available[c] = sequences[c] /\ loaded[c] \in sequences[c] \cup {None}

(* The file of mixes does not belong to anybody: as long as no two commands *)
(* crossed, at most one thread has stored and has yet to list.              *)
MixesListed ==
  lost = {} /\ "mixes" \notin stale =>
    /\ \A t \in Callers :
         /\ work[t].at = "store" => work[t].map = mixes
         /\ work[t].at = "list" /\ work[t].op = "load" => work[t].name \in mixes
         /\ Unlisted(t) => /\ mixes = Edited(work[t], work[t].map)
                           /\ mix_loaded \in mixes \cup {None, work[t].name}
                           /\ \A u \in Callers \ {t} : ~Unlisted(u)
    /\ (\A t \in Callers : ~Unlisted(t)) =>
         mix_available = mixes /\ mix_loaded \in mixes \cup {None}

LInv == LibraryTypeOK /\ WorkOK /\ SavedIsKept /\ SequencesListed /\ MixesListed

-----------------------------------------------------------------------------
(* What a thread can carry.                                                 *)
Carried == [at : {"idle", "store", "list"}, op : Ops \cup {None}, name : Names \cup {None},
            map : SUBSET Names]

LEMMA Carries ==
  ASSUME work \in [Threads -> Carried], NEW t \in Threads
  PROVE  /\ Rest \in Carried /\ [work EXCEPT ![t] = Rest] \in [Threads -> Carried]
         /\ [work EXCEPT ![t].at = "list"] \in [Threads -> Carried]
<1>1. Rest \in Carried
  BY DEF Rest, Carried
<1>2. [work[t] EXCEPT !.at = "list"] \in Carried
  BY DEF Carried
<1> QED
  BY <1>1, <1>2

LEMMA LInvInit == LibraryInit => LInv
<1> SUFFICES ASSUME LibraryInit PROVE LInv
  OBVIOUS
<1> USE LibraryAssumption DEF LibraryInit, Threads
<1>1. LibraryTypeOK
  BY DEF LibraryTypeOK, Rest
<1>2. WorkOK
  BY DEF WorkOK, Rest
<1>3. SavedIsKept /\ SequencesListed
  BY DEF SavedIsKept, SequencesListed
<1>4. MixesListed
  BY DEF MixesListed, Unlisted, Rest
<1> QED
  BY <1>1, <1>2, <1>3, <1>4 DEF LInv

LEMMA LInvAttach ==
  ASSUME LInv, NEW c \in Cams, attach(c)
  PROVE  LInv'
<1> USE LibraryAssumption DEF Threads
<1>1. LibraryTypeOK /\ WorkOK /\ SavedIsKept /\ SequencesListed /\ MixesListed
  BY DEF LInv
<1>2. /\ sequences' \in [Cams -> SUBSET Names] /\ kept' \in [Cams -> SUBSET Names]
      /\ legacy' \subseteq Names
      /\ \A d \in Cams \ {c} : sequences'[d] = sequences[d]
      /\ sequences = kept => sequences' = kept'
  <2>0. /\ sequences \in [Cams -> SUBSET Names] /\ kept \in [Cams -> SUBSET Names]
        /\ legacy \subseteq Names /\ migrate_v1_if_needed(c)
    BY <1>1 DEF LibraryTypeOK, attach
  <2>1. CASE legacy = {}
    BY <2>0, <2>1 DEF migrate_v1_if_needed
  <2>2. CASE legacy # {}
    BY <2>0, <2>2 DEF migrate_v1_if_needed
  <2> QED
    BY <2>1, <2>2
<1>3. LibraryTypeOK'
  BY <1>1, <1>2 DEF LibraryTypeOK, attach
<1>4. WorkOK'
  BY <1>1 DEF LibraryTypeOK, WorkOK, attach
<1>5. SavedIsKept'
  BY <1>1, <1>2 DEF SavedIsKept, attach
<1>6. work[c] = Rest /\ loaded[c] = None
  BY <1>1 DEF WorkOK, attach
<1>7. SequencesListed'
  <2> SUFFICES ASSUME Untorn', NEW d \in attached' \ stale'
               PROVE  /\ work[d].at = "store" => work[d].map = sequences'[d]
                      /\ work[d].at = "list" /\ work[d].op = "load" => work[d].name \in sequences'[d]
                      /\ IF Unlisted(d)
                         THEN /\ sequences'[d] = Edited(work[d], work[d].map)
                              /\ loaded[d] \in work[d].map \cup {None}
                         ELSE available'[d] = sequences'[d] /\ loaded[d] \in sequences'[d] \cup {None}
    BY DEF SequencesListed, attach, Unlisted, Edited
  <2>1. CASE d = c
    BY <2>1, <1>1, <1>2, <1>6 DEF attach, Rest, Unlisted, LibraryTypeOK
  <2>2. CASE d # c
    <3>1. /\ Untorn /\ d \in attached \ stale /\ d \in Cams /\ sequences'[d] = sequences[d]
          /\ available'[d] = available[d]
      BY <2>2, <1>1, <1>2 DEF attach, Untorn, LibraryTypeOK
    <3> QED
      BY <3>1, <1>1 DEF SequencesListed
  <2> QED
    BY <2>1, <2>2
<1>8. MixesListed'
  BY <1>1 DEF MixesListed, attach, Unlisted, Edited
<1> QED
  BY <1>3, <1>4, <1>5, <1>7, <1>8 DEF LInv

(* A command begins, on the thread of a camera or of a client.              *)
LEMMA LInvLoad ==
  ASSUME LInv, NEW n \in Names, NEW op \in Ops, NEW t \in Threads,
         \/ t \in Cams /\ LoadSequences(t, op, n)
         \/ t \in Callers /\ LoadMixes(t, op, n)
  PROVE  LInv'
<1> USE LibraryAssumption DEF Threads
<1> DEFINE map == IF t \in Cams THEN sequences[t] ELSE mixes
<1>1. LibraryTypeOK /\ WorkOK /\ SavedIsKept /\ SequencesListed /\ MixesListed
  BY DEF LInv
<1>2. /\ Command(t, op, n, map) /\ (t \in Cams => t \in attached)
      /\ UNCHANGED <<files, attached, lists, ghosts, stale, restarts>>
  BY DEF LoadSequences, LoadMixes
<1>3. map \subseteq Names
  BY <1>1 DEF LibraryTypeOK
<1>4. /\ work[t] = Rest /\ (op # "save" => n \in map)
      /\ work'[t] = [at |-> (IF op = "load" THEN "list" ELSE "store"), op |-> op,
                     name |-> n, map |-> map]
      /\ \A u \in Threads \ {t} : work'[u] = work[u]
  BY <1>1, <1>2 DEF Command, LibraryTypeOK
<1> HIDE DEF map
<1>5. LibraryTypeOK'
  <2>1. commands' \in 0..MaxCommands
    BY <1>1, <1>2 DEF Command, LibraryTypeOK
  <2>2. work' \in [Threads -> Carried]
    BY <1>1, <1>2, <1>3 DEF Command, LibraryTypeOK, Carried
  <2> QED
    BY <1>1, <1>2, <2>1, <2>2 DEF LibraryTypeOK, Carried, files, lists, ghosts
<1>6. WorkOK'
  BY <1>1, <1>2, <1>4 DEF WorkOK, lists, Ops
<1>7. SavedIsKept'
  BY <1>1, <1>2 DEF SavedIsKept, files, ghosts
<1>8. SequencesListed'
  <2> SUFFICES ASSUME Untorn, NEW d \in attached \ stale
               PROVE  /\ work'[d].at = "store" => work'[d].map = sequences[d]
                      /\ work'[d].at = "list" /\ work'[d].op = "load" => work'[d].name \in sequences[d]
                      /\ IF Unlisted(d)'
                         THEN /\ sequences[d] = Edited(work'[d], work'[d].map)
                              /\ loaded[d] \in work'[d].map \cup {None}
                         ELSE available[d] = sequences[d] /\ loaded[d] \in sequences[d] \cup {None}
    BY <1>2 DEF SequencesListed, Untorn, Unlisted, Edited, files, lists, ghosts
  <2>0. d \in Cams
    BY <1>1 DEF LibraryTypeOK
  <2>1. CASE d = t
    <3>1. ~Unlisted(d) /\ ~Unlisted(d)'
      BY <2>1, <1>4 DEF Rest, Unlisted
    <3>2. map = sequences[d]
      BY <2>0, <2>1 DEF map
    <3> QED
      BY <2>1, <3>1, <3>2, <1>1, <1>4 DEF SequencesListed
  <2>2. CASE d # t
    BY <2>0, <2>2, <1>1, <1>4 DEF SequencesListed, Unlisted
  <2> QED
    BY <2>1, <2>2
<1>9. MixesListed'
  <2> SUFFICES ASSUME lost = {}, "mixes" \notin stale PROVE MixesListed'
    BY <1>2 DEF MixesListed, ghosts
  <2>1. \A u \in Callers : u # t => work'[u] = work[u]
    BY <1>4
  <2>2. t \in Callers => map = mixes
    BY DEF map
  <2>3. \A u \in Callers : Unlisted(u)' <=> Unlisted(u)
    BY <1>4 DEF Rest, Unlisted
  <2>4. \A u \in Callers : /\ work'[u].at = "store" => work'[u].map = mixes
                           /\ work'[u].at = "list" /\ work'[u].op = "load" => work'[u].name \in mixes
    BY <1>1, <1>4, <2>1, <2>2 DEF MixesListed
  <2>5. \A u \in Callers : Unlisted(u) => u # t /\ work'[u] = work[u]
    BY <1>4 DEF Rest, Unlisted
  <2> QED
    BY <1>1, <1>2, <2>3, <2>4, <2>5 DEF MixesListed, Edited, files, lists
<1> QED
  BY <1>5, <1>6, <1>7, <1>8, <1>9 DEF LInv

(* A camera's worker stores, then lists.                                    *)
LEMMA LInvStoreSequences ==
  ASSUME LInv, NEW c \in Cams, StoreSequences(c)
  PROVE  LInv'
<1> USE LibraryAssumption DEF Threads
<1>1. LibraryTypeOK /\ WorkOK /\ SavedIsKept /\ SequencesListed /\ MixesListed
  BY DEF LInv
<1>2. /\ work[c].op \in {"save", "delete"} /\ work[c].name \in Names /\ work[c].map \subseteq Names
      /\ work[c] # Rest /\ c \in attached
  BY <1>1 DEF WorkOK, LibraryTypeOK, StoreSequences, Ops, Rest
<1>3. Edited(work[c], work[c].map) \subseteq Names /\ Edited(work[c], kept[c]) \subseteq Names
  BY <1>1, <1>2 DEF Edited, LibraryTypeOK
<1>4. /\ sequences' = [sequences EXCEPT ![c] = Edited(work[c], work[c].map)]
      /\ kept' = [kept EXCEPT ![c] = Edited(work[c], kept[c])]
      /\ work' = [work EXCEPT ![c].at = "list"]
      /\ Untorn' => Untorn /\ work[c].map = sequences[c]
      /\ lost' = {} => lost = {}
  BY <1>1 DEF StoreSequences, Reread, Untorn, LibraryTypeOK
<1>5. LibraryTypeOK'
  <2>1. lost' \subseteq {"torn", "overtaken", "crossed"}
    BY <1>1 DEF StoreSequences, LibraryTypeOK
  <2>2. work' \in [Threads -> Carried]
    BY <1>1, <1>4, Carries DEF LibraryTypeOK, Carried
  <2>3. sequences' \in [Cams -> SUBSET Names] /\ kept' \in [Cams -> SUBSET Names]
    BY <1>1, <1>3, <1>4 DEF LibraryTypeOK
  <2> QED
    BY <1>1, <2>1, <2>2, <2>3 DEF LibraryTypeOK, Carried, StoreSequences, lists
<1>6. WorkOK'
  BY <1>1, <1>2, <1>4 DEF LibraryTypeOK, WorkOK, StoreSequences, lists
<1>7. SavedIsKept'
  BY <1>1, <1>4 DEF SavedIsKept, StoreSequences, Untorn, LibraryTypeOK
<1>8. SequencesListed'
  <2> SUFFICES ASSUME Untorn', NEW d \in attached \ stale
               PROVE  /\ work'[d].at = "store" => work'[d].map = sequences'[d]
                      /\ work'[d].at = "list" /\ work'[d].op = "load" => work'[d].name \in sequences'[d]
                      /\ IF Unlisted(d)'
                         THEN /\ sequences'[d] = Edited(work'[d], work'[d].map)
                              /\ loaded[d] \in work'[d].map \cup {None}
                         ELSE available[d] = sequences'[d] /\ loaded[d] \in sequences'[d] \cup {None}
    BY DEF SequencesListed, StoreSequences, Unlisted, Edited, lists
  <2>0. d \in Cams
    BY <1>1 DEF LibraryTypeOK
  <2>1. CASE d = c
    <3>1. work'[c].at = "list" /\ work'[c].op = work[c].op /\ work'[c].name = work[c].name
          /\ work'[c].map = work[c].map /\ Unlisted(c)' /\ ~Unlisted(c)
      BY <1>1, <1>2, <1>4 DEF LibraryTypeOK, Unlisted, StoreSequences
    <3>2. Edited(work'[c], work'[c].map) = Edited(work[c], work[c].map)
      BY <3>1 DEF Edited
    <3>3. sequences'[c] = Edited(work[c], work[c].map)
      BY <1>1, <1>4 DEF LibraryTypeOK
    <3>4. loaded[c] \in sequences[c] \cup {None}
      BY <1>1, <1>4, <2>1, <3>1 DEF SequencesListed
    <3> QED
      BY <1>2, <1>4, <2>1, <3>1, <3>2, <3>3, <3>4
  <2>2. CASE d # c
    <3>1. work'[d] = work[d] /\ sequences'[d] = sequences[d] /\ Untorn /\ (Unlisted(d)' <=> Unlisted(d))
      BY <2>0, <2>2, <1>1, <1>4 DEF LibraryTypeOK, Unlisted
    <3> QED
      BY <3>1, <1>1 DEF SequencesListed
  <2> QED
    BY <2>1, <2>2
<1>9. MixesListed'
  <2>1. \A u \in Callers : work'[u] = work[u] /\ (Unlisted(u)' <=> Unlisted(u))
    BY <1>1, <1>4 DEF LibraryTypeOK, Unlisted
  <2> QED
    BY <1>1, <1>4, <2>1 DEF MixesListed, Edited, StoreSequences, lists
<1> QED
  BY <1>5, <1>6, <1>7, <1>8, <1>9 DEF LInv

LEMMA LInvListSequences ==
  ASSUME LInv, NEW c \in Cams, ListSequences(c)
  PROVE  LInv'
<1> USE LibraryAssumption DEF Threads
<1>1. LibraryTypeOK /\ WorkOK /\ SavedIsKept /\ SequencesListed /\ MixesListed
  BY DEF LInv
<1>2. /\ work[c].at = "list" /\ work[c].op \in Ops /\ work[c].name \in Names
      /\ work[c].map \subseteq Names /\ work[c] # Rest /\ c \in attached
  BY <1>1 DEF WorkOK, LibraryTypeOK, ListSequences, Rest
<1>3. /\ work' = [work EXCEPT ![c] = Rest]
      /\ available' = [available EXCEPT ![c] = ListAfter(work[c], available[c])]
      /\ loaded' = [loaded EXCEPT ![c] = LoadedAfter(work[c], loaded[c])]
  BY DEF ListSequences
<1>4. /\ ListAfter(work[c], available[c]) \subseteq Names
      /\ LoadedAfter(work[c], loaded[c]) \in Names \cup {None}
  BY <1>1, <1>2 DEF ListAfter, LoadedAfter, Edited, LibraryTypeOK
<1>5. LibraryTypeOK'
  <2>2. work' \in [Threads -> Carried]
    BY <1>1, <1>3, Carries DEF LibraryTypeOK, Carried
  <2>3. available' \in [Cams -> SUBSET Names] /\ loaded' \in [Cams -> Names \cup {None}]
    BY <1>1, <1>3, <1>4 DEF LibraryTypeOK
  <2> QED
    BY <1>1, <2>2, <2>3 DEF LibraryTypeOK, Carried, ListSequences, files, ghosts
<1>6. WorkOK'
  <2>1. work'[c] = Rest /\ \A u \in Threads \ {c} : work'[u] = work[u]
    BY <1>1, <1>3 DEF LibraryTypeOK
  <2>2. \A d \in Cams \ attached : work'[d] = Rest /\ loaded'[d] = None
    BY <1>1, <1>2, <1>3, <2>1 DEF LibraryTypeOK, WorkOK, ListSequences
  <2>3. attached' = attached
    BY DEF ListSequences
  <2>4. Rest.at = "idle"
    BY DEF Rest
  <2> QED
    BY <1>1, <2>1, <2>2, <2>3, <2>4 DEF WorkOK
<1>7. SavedIsKept'
  BY <1>1 DEF SavedIsKept, ListSequences, files, ghosts
<1>8. SequencesListed'
  <2> SUFFICES ASSUME Untorn, NEW d \in attached \ stale
               PROVE  /\ work'[d].at = "store" => work'[d].map = sequences[d]
                      /\ work'[d].at = "list" /\ work'[d].op = "load" => work'[d].name \in sequences[d]
                      /\ IF Unlisted(d)'
                         THEN /\ sequences[d] = Edited(work'[d], work'[d].map)
                              /\ loaded'[d] \in work'[d].map \cup {None}
                         ELSE available'[d] = sequences[d] /\ loaded'[d] \in sequences[d] \cup {None}
    BY DEF SequencesListed, ListSequences, Untorn, Unlisted, Edited, files, ghosts
  <2>0. d \in Cams
    BY <1>1 DEF LibraryTypeOK
  <2>1. CASE d = c
    <3>1. work'[c] = Rest /\ ~Unlisted(c)'
      BY <1>1, <1>3 DEF LibraryTypeOK, Unlisted, Rest
    <3>2. /\ available'[c] = ListAfter(work[c], available[c])
          /\ loaded'[c] = LoadedAfter(work[c], loaded[c])
      BY <1>1, <1>3 DEF LibraryTypeOK
    <3>3. ListAfter(work[c], available[c]) = sequences[c]
      BY <1>1, <1>2, <2>1 DEF SequencesListed, Unlisted, ListAfter
    <3>4. LoadedAfter(work[c], loaded[c]) \in sequences[c] \cup {None}
      BY <1>1, <1>2, <2>1 DEF SequencesListed, Unlisted, LoadedAfter, Edited, Ops
    <3> QED
      BY <2>1, <3>1, <3>2, <3>3, <3>4 DEF Rest
  <2>2. CASE d # c
    <3>1. /\ work'[d] = work[d] /\ available'[d] = available[d] /\ loaded'[d] = loaded[d]
          /\ (Unlisted(d)' <=> Unlisted(d))
      BY <2>0, <2>2, <1>1, <1>3 DEF LibraryTypeOK, Unlisted
    <3> QED
      BY <3>1, <1>1 DEF SequencesListed
  <2> QED
    BY <2>1, <2>2
<1>9. MixesListed'
  <2>1. \A u \in Callers : work'[u] = work[u] /\ (Unlisted(u)' <=> Unlisted(u))
    BY <1>1, <1>3 DEF LibraryTypeOK, Unlisted
  <2> QED
    BY <1>1, <2>1 DEF MixesListed, Edited, ListSequences, files, ghosts
<1> QED
  BY <1>5, <1>6, <1>7, <1>8, <1>9 DEF LInv

(* A client's thread stores, then lists.                                    *)
LEMMA LInvStoreMixes ==
  ASSUME LInv, NEW t \in Callers, StoreMixes(t)
  PROVE  LInv'
<1> USE LibraryAssumption DEF Threads
<1>1. LibraryTypeOK /\ WorkOK /\ SavedIsKept /\ SequencesListed /\ MixesListed
  BY DEF LInv
<1>2. /\ work[t].at = "store" /\ work[t].op \in {"save", "delete"}
      /\ work[t].name \in Names /\ work[t].map \subseteq Names
  BY <1>1 DEF WorkOK, LibraryTypeOK, StoreMixes, Ops
<1>3. Edited(work[t], work[t].map) \subseteq Names /\ Edited(work[t], mix_kept) \subseteq Names
  BY <1>1, <1>2 DEF Edited, LibraryTypeOK
<1>4. /\ mixes' = Edited(work[t], work[t].map) /\ mix_kept' = Edited(work[t], mix_kept)
      /\ work' = [work EXCEPT ![t].at = "list"]
      /\ Untorn' => Untorn
      /\ lost' = {} => /\ lost = {} /\ work[t].map = mixes
                       /\ \A u \in Callers \ {t} : work[u].at = "idle"
      /\ lost' \subseteq {"torn", "overtaken", "crossed"}
  BY <1>1 DEF StoreMixes, Untorn, LibraryTypeOK
<1>5. LibraryTypeOK'
  <2>1. work' \in [Threads -> Carried]
    BY <1>1, <1>4, Carries DEF LibraryTypeOK, Carried
  <2> QED
    BY <1>1, <1>3, <1>4, <2>1 DEF LibraryTypeOK, Carried, StoreMixes, lists
<1>6. WorkOK'
  BY <1>1, <1>2, <1>4 DEF LibraryTypeOK, WorkOK, StoreMixes, lists
<1>7. SavedIsKept'
  BY <1>1, <1>4 DEF SavedIsKept, StoreMixes, Untorn
<1>8. SequencesListed'
  <2>1. \A d \in Cams : work'[d] = work[d] /\ (Unlisted(d)' <=> Unlisted(d))
    BY <1>1, <1>4 DEF LibraryTypeOK, Unlisted
  <2>2. attached \subseteq Cams /\ UNCHANGED <<attached, stale, sequences, available, loaded>>
    BY <1>1 DEF LibraryTypeOK, StoreMixes, lists
  <2>3. \A d \in Cams : Edited(work[d], work[d].map)' = Edited(work[d], work[d].map)
    BY <2>1 DEF Edited
  <2> QED
    BY <1>1, <1>4, <2>1, <2>2, <2>3 DEF SequencesListed
<1>9. MixesListed'
  <2> SUFFICES ASSUME lost' = {}, "mixes" \notin stale PROVE MixesListed'
    BY DEF MixesListed, StoreMixes
  <2>1. /\ work'[t].at = "list" /\ work'[t].op = work[t].op /\ work'[t].name = work[t].name
        /\ work'[t].map = work[t].map /\ Unlisted(t)'
    BY <1>1, <1>2, <1>4 DEF LibraryTypeOK, Unlisted
  <2>2. \A u \in Callers \ {t} : work'[u] = work[u] /\ work[u].at = "idle" /\ ~Unlisted(u)'
    BY <1>1, <1>4 DEF LibraryTypeOK, Unlisted
  <2>3. Edited(work'[t], work'[t].map) = mixes'
    BY <1>4, <2>1 DEF Edited
  <2>4. ~Unlisted(t) /\ \A u \in Callers \ {t} : ~Unlisted(u)
    BY <1>2, <2>2 DEF Unlisted
  <2>5. mix_loaded \in mixes \cup {None}
    BY <1>1, <1>4, <2>4 DEF MixesListed
  <2>6. mix_loaded' \in mixes' \cup {None, work'[t].name}
    BY <1>2, <1>4, <2>1, <2>5 DEF Edited, StoreMixes, lists
  <2>7. work'[t].at # "store"
    BY <2>1
  <2>8. \A u \in Callers \ {t} : work'[u].at \notin {"store", "list"}
    BY <2>2
  <2> QED
    BY <2>1, <2>2, <2>3, <2>6, <2>7, <2>8 DEF MixesListed, Unlisted, Edited
<1> QED
  BY <1>5, <1>6, <1>7, <1>8, <1>9 DEF LInv

LEMMA LInvListMixes ==
  ASSUME LInv, NEW t \in Callers, ListMixes(t)
  PROVE  LInv'
<1> USE LibraryAssumption DEF Threads
<1>1. LibraryTypeOK /\ WorkOK /\ SavedIsKept /\ SequencesListed /\ MixesListed
  BY DEF LInv
<1>2. /\ work[t].at = "list" /\ work[t].op \in Ops /\ work[t].name \in Names
      /\ work[t].map \subseteq Names
  BY <1>1 DEF WorkOK, LibraryTypeOK, ListMixes
<1>3. /\ work' = [work EXCEPT ![t] = Rest]
      /\ mix_available' = ListAfter(work[t], mix_available)
      /\ mix_loaded' = LoadedAfter(work[t], mix_loaded)
  BY DEF ListMixes
<1>4. mix_available' \subseteq Names /\ mix_loaded' \in Names \cup {None}
  BY <1>1, <1>2, <1>3 DEF ListAfter, LoadedAfter, Edited, LibraryTypeOK
<1>5. LibraryTypeOK'
  <2>2. work' \in [Threads -> Carried]
    BY <1>1, <1>3, Carries DEF LibraryTypeOK, Carried
  <2> QED
    BY <1>1, <1>4, <2>2 DEF LibraryTypeOK, Carried, ListMixes, files, ghosts
<1>6. WorkOK'
  <2>1. work'[t] = Rest /\ \A u \in Threads \ {t} : work'[u] = work[u]
    BY <1>1, <1>3 DEF LibraryTypeOK
  <2>2. \A d \in Cams \ attached : work'[d] = Rest /\ loaded'[d] = None
    BY <1>1, <1>2, <1>3, <2>1 DEF LibraryTypeOK, WorkOK, ListMixes
  <2>3. attached' = attached
    BY DEF ListMixes
  <2>4. Rest.at = "idle"
    BY DEF Rest
  <2> QED
    BY <1>1, <2>1, <2>2, <2>3, <2>4 DEF WorkOK
<1>7. SavedIsKept'
  BY <1>1 DEF SavedIsKept, ListMixes, files, ghosts
<1>8. SequencesListed'
  <2>1. \A d \in Cams : work'[d] = work[d] /\ (Unlisted(d)' <=> Unlisted(d))
    BY <1>1, <1>3 DEF LibraryTypeOK, Unlisted
  <2>2. attached \subseteq Cams
    BY <1>1 DEF LibraryTypeOK
  <2> QED
    BY <1>1, <2>1, <2>2 DEF SequencesListed, Untorn, Edited, ListMixes, files, ghosts
<1>9. MixesListed'
  <2> SUFFICES ASSUME lost = {}, "mixes" \notin stale PROVE MixesListed'
    BY DEF MixesListed, ListMixes, ghosts
  <2>1. work'[t] = Rest /\ ~Unlisted(t)'
    BY <1>1, <1>3 DEF LibraryTypeOK, Unlisted, Rest
  <2>2. \A u \in Callers \ {t} : work'[u] = work[u] /\ (Unlisted(u)' <=> Unlisted(u))
    BY <1>1, <1>3 DEF LibraryTypeOK, Unlisted
  <2>3. mixes' = mixes
    BY DEF ListMixes, files
  <2>4. CASE Unlisted(t)
    <3>1. mix_available' = mixes /\ mix_loaded' \in mixes \cup {None}
      BY <1>1, <1>2, <1>3, <2>4 DEF MixesListed, Unlisted, ListAfter, LoadedAfter, Edited, Ops
    <3>2. \A u \in Callers \ {t} : ~Unlisted(u)'
      BY <1>1, <2>2, <2>4 DEF MixesListed
    <3> QED
      BY <1>1, <2>1, <2>2, <2>3, <3>1, <3>2 DEF MixesListed, Rest
  <2>5. CASE ~Unlisted(t)
    <3>1. mix_available' = mix_available /\ mix_loaded' \in mixes
      BY <1>1, <1>2, <1>3, <2>5 DEF MixesListed, Unlisted, ListAfter, LoadedAfter
    <3>2. (\A u \in Callers : ~Unlisted(u)') => \A u \in Callers : ~Unlisted(u)
      BY <2>2, <2>5
    <3>3. \A u \in Callers : Unlisted(u)' => u # t /\ work'[u] = work[u] /\ Unlisted(u)
      BY <2>1, <2>2
    <3> QED
      BY <1>1, <2>1, <2>2, <2>3, <3>1, <3>2, <3>3 DEF MixesListed, Rest, Edited
  <2> QED
    BY <2>4, <2>5
<1> QED
  BY <1>5, <1>6, <1>7, <1>8, <1>9 DEF LInv

-----------------------------------------------------------------------------
(* What was imported into counts as stale, so that nothing is said of it.   *)
LEMMA LInvImport ==
  ASSUME LInv, NEW c \in Cams, NEW map \in SUBSET Names, import_library(c, map)
  PROVE  LInv'
<1> USE LibraryAssumption DEF Threads
<1>1. LibraryTypeOK /\ WorkOK /\ SavedIsKept /\ SequencesListed /\ MixesListed
  BY DEF LInv
<1>2. LibraryTypeOK'
  BY <1>1 DEF LibraryTypeOK, import_library, lists
<1>3. WorkOK'
  BY <1>1 DEF WorkOK, import_library, lists
<1>4. SavedIsKept'
  BY <1>1 DEF SavedIsKept, import_library
<1>5. SequencesListed'
  BY <1>1 DEF SequencesListed, Untorn, Unlisted, Edited, import_library, lists, LibraryTypeOK
<1>6. MixesListed'
  BY DEF MixesListed, import_library
<1> QED
  BY <1>2, <1>3, <1>4, <1>5, <1>6 DEF LInv

LEMMA LInvRestart ==
  ASSUME LInv, Restart
  PROVE  LInv'
<1> USE LibraryAssumption DEF Threads
<1>1. LibraryTypeOK /\ WorkOK /\ SavedIsKept /\ SequencesListed /\ MixesListed
  BY DEF LInv
<1>2. LibraryTypeOK'
  <2>1. work' \in [Threads -> Carried]
    BY <1>1, Carries DEF LibraryTypeOK, Carried, Restart
  <2>2. /\ sequences' \in [Cams -> SUBSET Names] /\ mixes' \subseteq Names
        /\ lost' \subseteq {"torn", "overtaken", "crossed"}
    BY <1>1 DEF LibraryTypeOK, Restart
  <2> QED
    BY <1>1, <2>1, <2>2 DEF LibraryTypeOK, Carried, Restart
<1>3. WorkOK'
  BY DEF WorkOK, Restart, Rest
<1>4. SavedIsKept'
  BY <1>1 DEF SavedIsKept, Restart
<1>5. SequencesListed'
  BY DEF SequencesListed, Restart
<1>6. MixesListed'
  BY DEF MixesListed, Unlisted, Restart, Rest
<1> QED
  BY <1>2, <1>3, <1>4, <1>5, <1>6 DEF LInv

LEMMA LInvNext == LInv /\ [LibraryNext]_libraryVars => LInv'
<1> SUFFICES ASSUME LInv, [LibraryNext]_libraryVars PROVE LInv'
  OBVIOUS
<1>1. CASE UNCHANGED libraryVars
  BY <1>1 DEF LInv, LibraryTypeOK, WorkOK, SavedIsKept, SequencesListed, MixesListed, Untorn,
     Unlisted, Edited, libraryVars, files, lists, ghosts
<1>2. CASE LibraryNext
  BY <1>2, LInvAttach, LInvLoad, LInvStoreSequences, LInvListSequences, LInvStoreMixes,
     LInvListMixes, LInvImport, LInvRestart DEF LibraryNext, Threads
<1> QED
  BY <1>1, <1>2

LEMMA LInvariance == LibrarySpec => []LInv
  BY LInvInit, LInvNext, PTL DEF LibrarySpec

(* Files, lists and what the threads carry are made of names.               *)
THEOREM LibraryTypeCorrect == LibrarySpec => []LibraryTypeOK
  BY LInvariance, PTL DEF LInv

(* No save is lost and no deleted entry comes back, save for a torn file,   *)
(* an import that overtakes a command, and mix commands that crossed.       *)
THEOREM Kept == LibrarySpec => []SavedIsKept
  BY LInvariance, PTL DEF LInv

(* Clients are shown the names on file.                                     *)
THEOREM Listed == LibrarySpec => []ListsAreStored
<1>1. LInv => ListsAreStored
  <2> SUFFICES ASSUME LInv PROVE ListsAreStored
    OBVIOUS
  <2>1. SequencesListed /\ MixesListed
    BY DEF LInv
  <2>2. \A c \in attached \ stale : lost \subseteq {"crossed"} /\ work[c].at # "list" =>
           available[c] = sequences[c] /\ loaded[c] \in sequences[c] \cup {None}
    BY <2>1 DEF SequencesListed, Untorn, Unlisted
  <2>3. lost = {} /\ "mixes" \notin stale /\ (\A t \in Callers : work[t].at # "list") =>
           mix_available = mixes /\ mix_loaded \in mixes \cup {None}
    BY <2>1 DEF MixesListed, Unlisted
  <2> QED
    BY <2>2, <2>3 DEF ListsAreStored
<1> QED
  BY <1>1, LInvariance, PTL
=============================================================================
