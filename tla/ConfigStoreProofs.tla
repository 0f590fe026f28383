------------------------- MODULE ConfigStoreProofs -------------------------
(***************************************************************************)
(* What ConfigStore promises, for any number of commands at once.          *)
(*                                                                         *)
(* The invariant says why one temporary name is enough as long as saves do *)
(* not overlap: the one process that is saving has the inode that the name *)
(* stands for, if it still stands for one, and nobody else has it; and why *)
(* a removed instance stays away: whatever is in memory to be saved has an *)
(* identity that was not removed, and a new one is nobody else's.          *)
(***************************************************************************)
EXTENDS ConfigStore, TLAPS

Carries(s) == sess[s].pc = "work" \/ Saving(s)

\* What is in memory to be saved is a configuration; no instance is from the future.
Carried ==
  /\ \A s \in Sessions : Carries(s) => sess[s].mine \in Versions /\ sess[s].mine.id <= ids
  /\ \A i \in Inodes : text[i].id <= ids

\* The one who is saving, and what it has written so far.
Alone ==
  /\ name["config"] # NoInode => Whole(name["config"])
  /\ \A s, t \in Sessions : Saving(s) /\ Saving(t) => s = t
  /\ \A s \in Sessions : Saving(s) =>
       /\ sess[s].file # name["config"]
       /\ name["tmp"] \in {NoInode, sess[s].file}
       /\ sess[s].pc = "opened" => text[sess[s].file] = Empty
       /\ sess[s].pc \in {"written", "moded"} => text[sess[s].file] = sess[s].mine

\* The instance on disk, and the ones in memory.
Kept ==
  /\ name["config"] # NoInode => text[name["config"]].id \in 1 .. ids \ removed
  /\ \A s \in Sessions : Carries(s) => sess[s].mine.id \notin removed
  /\ \A s \in Sessions : Carries(s) /\ ~sess[s].mine.ready =>
       /\ name["config"] # NoInode => text[name["config"]].id # sess[s].mine.id
       /\ \A t \in Sessions \ {s} : Carries(t) => sess[t].mine.id # sess[s].mine.id

IInv ==
  /\ TypeOK
  /\ Carried
  /\ overlapped \/ Alone
  /\ overlapped \/ crossed \/ Kept

SessionRecords ==
  [pc : {"idle", "work", "opened", "written", "moded", "remove"},
   mine : {Empty} \cup Versions, file : {NoInode} \cup Inodes,
   left : SUBSET Names, again : BOOLEAN]

\* Session s has moved, and no other.
Moved(s, pc, mine, file) ==
  /\ sess' \in [Sessions -> SessionRecords]
  /\ \A t \in Sessions \ {s} : sess'[t] = sess[t]
  /\ sess'[s].pc = pc /\ sess'[s].mine = mine /\ sess'[s].file = file

LEMMA VersionFields ==
  /\ Empty \notin Versions
  /\ \A v \in Versions : v.id \in 1 .. MaxIds /\ v.ready \in BOOLEAN
  /\ \A i \in 1 .. MaxIds, r \in BOOLEAN : [id |-> i, ready |-> r] \in Versions
<1>1. \A v \in Versions : v.id \in 1 .. MaxIds /\ v.ready \in BOOLEAN
  BY DEF Versions
<1>2. Empty.id = 0
  BY DEF Empty
<1>3. Empty \notin Versions
  BY <1>1, <1>2, MaxIdsAssumption
<1>4. \A i \in 1 .. MaxIds, r \in BOOLEAN : [id |-> i, ready |-> r] \in Versions
  BY DEF Versions
<1> QED
  BY <1>1, <1>3, <1>4

LEMMA IdleRecord == Idle \in SessionRecords /\ Idle.pc = "idle" /\ Idle.file = NoInode /\ Idle.mine = Empty
  BY DEF Idle, SessionRecords

LEMMA GoMoves ==
  ASSUME TypeOK, NEW s \in Sessions, NEW pc \in {"idle", "work", "opened", "written", "moded", "remove"}, Go(s, pc)
  PROVE  Moved(s, pc, sess[s].mine, sess[s].file)
  BY DEF Go, Moved, TypeOK, SessionRecords

LEMMA EndMoves ==
  ASSUME TypeOK, NEW s \in Sessions, End(s)
  PROVE  Moved(s, "idle", Empty, NoInode)
  BY IdleRecord DEF End, Moved, TypeOK, SessionRecords

LEMMA UpdateKeeps ==
  ASSUME IInv, NEW s \in Sessions, Update(s)
  PROVE  IInv'
<1>1. Moved(s, "work", [id |-> text[name["config"]].id, ready |-> TRUE], NoInode)
  <2>1. sess \in [Sessions -> SessionRecords] /\ sess[s] = Idle
    BY DEF IInv, Update, TypeOK, SessionRecords
  <2>2. text[name["config"]] \in Versions
    BY DEF Update, Loads, Whole
  <2>3. [id |-> text[name["config"]].id, ready |-> TRUE] \in Versions
    BY <2>2, VersionFields
  <2> QED
    BY <2>1, <2>3, IdleRecord DEF Update, Moved, SessionRecords
<1> USE DEF IInv
<1>2. TypeOK'
  BY <1>1, VersionFields DEF Update, TypeOK, Moved, SessionRecords, Saving, Names, NoInode
<1>3. Carried'
  <2>1. name["config"] \in Inodes /\ text[name["config"]] \in Versions
    BY DEF Update, Loads, Whole, TypeOK, Names
  <2>2. text[name["config"]].id \in 1 .. MaxIds /\ text[name["config"]].id <= ids
    BY <2>1, VersionFields DEF Carried
  <2> DEFINE v == [id |-> text[name["config"]].id, ready |-> TRUE]
  <2>3. v \in Versions /\ v.id <= ids
    <3>1. TRUE \in BOOLEAN /\ v.id = text[name["config"]].id
      OBVIOUS
    <3> QED
      BY <2>2, <3>1, VersionFields
  <2>4. sess'[s].mine = v
    BY <1>1 DEF Moved
  <2> QED
    BY <1>1, <2>3, <2>4 DEF Update, Carried, Carries, Saving, Moved
<1>4. (overlapped \/ Alone)'
  <2>1. UNCHANGED <<name, text, overlapped>>
    BY DEF Update
  <2>2. \A t \in Sessions : Saving(t)' => Saving(t) /\ sess'[t] = sess[t]
    BY <1>1 DEF Moved, Saving
  <2> QED
    BY <2>1, <2>2 DEF Alone, Whole
<1>5. ASSUME Kept PROVE Kept'
  <2>1. /\ name["config"] # NoInode /\ name' = name /\ text' = text /\ removed' = removed /\ ids' = ids
        /\ text[name["config"]].id \notin removed
    BY <1>5 DEF Update, Loads, Kept
  <2>2. \A t \in Sessions \ {s} : Carries(t)' => Carries(t) /\ sess'[t].mine = sess[t].mine
    BY <1>1 DEF Moved, Carries, Saving
  <2>3. sess'[s].mine.id = text[name["config"]].id /\ sess'[s].mine.ready
    BY <1>1 DEF Moved
  <2> QED
    BY <1>5, <2>1, <2>2, <2>3 DEF Kept
<1> QED
  BY <1>2, <1>3, <1>4, <1>5 DEF Update


\* Ending, wherever one is, disturbs nobody.
LEMMA StoppedKeeps ==
  ASSUME IInv, NEW s \in Sessions, Moved(s, "idle", Empty, NoInode),
         UNCHANGED <<name, text, ids, removed, overlapped, crossed>>
  PROVE  IInv'
<1> USE DEF IInv
<1>1. TypeOK'
  BY DEF TypeOK, Moved, SessionRecords, Saving, Names, NoInode
<1>2. Carried'
  BY DEF Carried, Carries, Saving, Moved
<1>3. (overlapped \/ Alone)'
  BY DEF Alone, Saving, Whole, Moved
<1>4. (overlapped \/ crossed \/ Kept)'
  BY DEF Kept, Carries, Saving, Moved
<1> QED
  BY <1>1, <1>2, <1>3, <1>4

LEMMA ChmodKeeps ==
  ASSUME IInv, NEW s \in Sessions, Chmod(s)
  PROVE  IInv'
<1> USE DEF IInv
<1>1. CASE name["tmp"] = NoInode
  <2>1. Moved(s, "idle", Empty, NoInode)
    BY <1>1, EndMoves DEF Chmod
  <2> QED
    BY <2>1, StoppedKeeps DEF Chmod
<1>2. CASE name["tmp"] # NoInode
  <2>1. Moved(s, "moded", sess[s].mine, sess[s].file)
    BY <1>2, GoMoves DEF Chmod
  <2>2. TypeOK'
    BY <2>1 DEF Chmod, TypeOK, Moved, SessionRecords, Saving, Names, NoInode
  <2>3. Carried'
    BY <2>1 DEF Chmod, Carried, Carries, Saving, Moved
  <2>4. (overlapped \/ Alone)'
    BY <2>1 DEF Chmod, Alone, Saving, Whole, Moved
  <2>5. (overlapped \/ crossed \/ Kept)'
    BY <2>1 DEF Chmod, Kept, Carries, Saving, Moved
  <2> QED
    BY <2>2, <2>3, <2>4, <2>5
<1> QED
  BY <1>1, <1>2
LEMMA WriteKeeps ==
  ASSUME IInv, NEW s \in Sessions, Write(s)
  PROVE  IInv'
<1> USE DEF IInv
<1>1. Moved(s, "written", sess[s].mine, sess[s].file)
  BY GoMoves DEF Write
<1>2. PICK t \in {sess[s].mine} \cup (IF text[sess[s].file] = Empty THEN {} ELSE {Mixed}) :
        text' = [text EXCEPT ![sess[s].file] = t]
  BY DEF Write
<1>3. Saving(s) /\ sess[s].file \in Inodes /\ sess[s].mine \in Versions
  BY DEF Write, Saving, TypeOK, SessionRecords, Carried, Carries
<1>4. TypeOK'
  BY <1>1, <1>2, <1>3 DEF Write, TypeOK, Moved, SessionRecords, Saving, Names, NoInode
<1>5. Carried'
  <2>1. t.id <= ids
    BY <1>2, <1>3 DEF Carried, Carries, Mixed, TypeOK
  <2> QED
    BY <1>1, <1>2, <2>1 DEF Write, Carried, Carries, Saving, Moved, TypeOK
<1>6. (overlapped \/ Alone)'
  BY <1>1, <1>2, <1>3 DEF Write, Alone, Saving, Whole, Moved, TypeOK
<1>7. (overlapped \/ crossed \/ Kept)'
  <2>1. CASE overlapped
    BY <2>1 DEF Write
  <2>2. CASE ~overlapped
    <3>1. sess[s].file # name["config"]
      BY <1>3, <2>2 DEF Alone
    <3>2. name["config"] # NoInode => text'[name["config"]] = text[name["config"]]
      BY <1>2, <3>1 DEF TypeOK, Names
    <3> QED
      BY <1>1, <3>2 DEF Write, Kept, Carries, Saving, Moved
  <2> QED
    BY <2>1, <2>2
<1> QED
  BY <1>4, <1>5, <1>6, <1>7

\* What Open does, with the inode it opens.
LEMMA OpenMoves ==
  ASSUME IInv, NEW s \in Sessions, Open(s)
  PROVE  \E i \in Inodes :
           /\ i = name["tmp"] \/ (name["tmp"] = NoInode /\ Unused(i))
           /\ name' = [name EXCEPT !["tmp"] = i] /\ text' = [text EXCEPT ![i] = Empty]
           /\ Moved(s, "opened", sess[s].mine, i)
<1> DEFINE i == IF name["tmp"] = NoInode THEN NewInode ELSE name["tmp"]
<1>1. i \in Inodes /\ (i = name["tmp"] \/ (name["tmp"] = NoInode /\ Unused(i)))
  <2>1. CASE name["tmp"] = NoInode
    <3>1. \E j \in Inodes : Unused(j)
      BY <2>1 DEF Open
    <3> QED
      BY <2>1, <3>1 DEF NewInode
  <2>2. CASE name["tmp"] # NoInode
    BY <2>2 DEF IInv, TypeOK, Names
  <2> QED
    BY <2>1, <2>2
<1>2. Opens(s, "tmp", i)
  BY DEF Open
<1> HIDE DEF i
<1>3. Moved(s, "opened", sess[s].mine, i)
  BY <1>1, <1>2 DEF Opens, IInv, TypeOK, SessionRecords, Moved
<1> QED
  BY <1>1, <1>2, <1>3 DEF Opens

LEMMA OpenKeeps ==
  ASSUME IInv, NEW s \in Sessions, Open(s)
  PROVE  IInv'
<1> USE DEF IInv
<1>1. PICK i \in Inodes :
        /\ i = name["tmp"] \/ (name["tmp"] = NoInode /\ Unused(i))
        /\ name' = [name EXCEPT !["tmp"] = i] /\ text' = [text EXCEPT ![i] = Empty]
        /\ Moved(s, "opened", sess[s].mine, i)
  BY OpenMoves
<1>2. /\ overlapped' = (overlapped \/ \E t \in Sessions \ {s} : Saving(t))
      /\ sess[s].pc = "work" /\ UNCHANGED <<ids, removed, crossed>>
  BY DEF Open, Opens
<1>3. /\ name["config"] # i /\ name'["config"] = name["config"] /\ name'["tmp"] = i
      /\ i # NoInode
  BY <1>1, InodesAssumption DEF Unused, TypeOK, Names, NoInode
<1>4. name["config"] # NoInode => text'[name["config"]] = text[name["config"]]
  BY <1>1, <1>3 DEF TypeOK, Names
<1>5. TypeOK'
  BY <1>1, <1>2, <1>3 DEF TypeOK, Moved, SessionRecords, Saving, Names, NoInode
<1>6. Carried'
  BY <1>1, <1>2 DEF Carried, Carries, Saving, Moved, TypeOK, Empty
<1>7. (overlapped \/ Alone)'
  <2> SUFFICES ASSUME ~overlapped, Alone, \A t \in Sessions \ {s} : ~Saving(t) PROVE Alone'
    BY <1>2 DEF TypeOK
  <2>1. \A t \in Sessions : Saving(t)' <=> t = s
    BY <1>1 DEF Moved, Saving
  <2> QED
    BY <1>1, <1>3, <1>4, <2>1 DEF Alone, Whole, Moved, TypeOK
<1>8. (overlapped \/ crossed \/ Kept)'
  BY <1>1, <1>2, <1>3, <1>4 DEF Kept, Carries, Saving, Moved, TypeOK
<1> QED
  BY <1>5, <1>6, <1>7, <1>8
LEMMA CreateKeeps ==
  ASSUME IInv, NEW s \in Sessions, Create(s)
  PROVE  IInv'
<1> USE DEF IInv
<1>1. ids' = ids + 1 /\ ids' \in 1 .. MaxIds
  BY MaxIdsAssumption DEF Create, TypeOK
<1>2. Moved(s, "work", [id |-> ids', ready |-> FALSE], NoInode)
  BY <1>1, VersionFields, IdleRecord DEF Create, Moved, TypeOK, SessionRecords
<1>3. [id |-> ids', ready |-> FALSE] \in Versions
  BY <1>1, VersionFields
<1>4. UNCHANGED <<name, text, removed, overlapped, crossed>>
  BY DEF Create
<1>5. TypeOK'
  BY <1>1, <1>2, <1>4 DEF TypeOK, Moved, SessionRecords, Saving, Names, NoInode
<1>6. Carried'
  <2>1. \A i \in Inodes : text[i].id <= ids + 1
    <3>1. \A i \in Inodes : text[i].id \in Nat
      BY VersionFields, MaxIdsAssumption DEF TypeOK, Empty, Mixed
    <3> QED
      BY <3>1 DEF Carried, TypeOK
  <2>2. \A t \in Sessions \ {s} : Carries(t) => sess[t].mine \in Versions /\ sess[t].mine.id <= ids + 1
    BY VersionFields, MaxIdsAssumption DEF Carried, TypeOK
  <2> QED
    BY <1>1, <1>2, <1>3, <1>4, <2>1, <2>2 DEF Carried, Carries, Saving, Moved
<1>7. (overlapped \/ Alone)'
  BY <1>2, <1>4 DEF Alone, Saving, Whole, Moved
<1>8. (overlapped \/ crossed \/ Kept)'
  <2> SUFFICES ASSUME Kept PROVE Kept'
    BY <1>4
  <2>1. ids' \notin removed /\ ids' # ids /\ 1 .. ids \subseteq 1 .. ids'
    BY <1>1 DEF TypeOK
  <2>2. \A t \in Sessions \ {s} : Carries(t) => sess[t].mine.id # ids'
    BY <1>1, VersionFields DEF Carried, TypeOK
  <2>3. name["config"] # NoInode => text[name["config"]].id # ids' /\ text[name["config"]].id \in 1 .. ids' \ removed
    BY <1>1, <2>1 DEF Kept, TypeOK
  <2>4. sess'[s].mine.id = ids'
    BY <1>2 DEF Moved
  <2>5. \A t \in Sessions \ {s} : (Carries(t)' <=> Carries(t)) /\ sess'[t] = sess[t]
    BY <1>2 DEF Moved, Carries, Saving
  <2> QED
    BY <1>4, <2>1, <2>2, <2>3, <2>4, <2>5 DEF Kept
<1> QED
  BY <1>5, <1>6, <1>7, <1>8

LEMMA UninstallKeeps ==
  ASSUME IInv, NEW s \in Sessions, Uninstall(s)
  PROVE  IInv'
<1> USE DEF IInv
<1>1. Moved(s, "remove", Empty, NoInode)
  <2>1. PICK again \in BOOLEAN :
          sess' = [sess EXCEPT ![s] = [Idle EXCEPT !.pc = "remove", !.left = Names, !.again = again]]
    BY DEF Uninstall
  <2>2. PICK r : r = [Idle EXCEPT !.pc = "remove", !.left = Names, !.again = again]
    OBVIOUS
  <2>3. r \in SessionRecords /\ r.pc = "remove" /\ r.mine = Empty /\ r.file = NoInode
    BY <2>2 DEF Idle, SessionRecords
  <2> QED
    BY <2>1, <2>2, <2>3 DEF Moved, TypeOK, SessionRecords
<1>2. UNCHANGED <<name, text, ids, removed, overlapped, crossed>>
  BY DEF Uninstall
<1>3. TypeOK'
  BY <1>1, <1>2 DEF TypeOK, Moved, SessionRecords, Saving, Names, NoInode
<1>4. Carried'
  BY <1>1, <1>2 DEF Carried, Carries, Saving, Moved
<1>5. (overlapped \/ Alone)'
  BY <1>1, <1>2 DEF Alone, Saving, Whole, Moved
<1>6. (overlapped \/ crossed \/ Kept)'
  BY <1>1, <1>2 DEF Kept, Carries, Saving, Moved
<1> QED
  BY <1>3, <1>4, <1>5, <1>6

LEMMA RemoveKeeps ==
  ASSUME IInv, NEW s \in Sessions, Remove(s)
  PROVE  IInv'
<1> USE DEF IInv
<1>1. PICK n \in sess[s].left :
        /\ name' = [name EXCEPT ![n] = NoInode]
        /\ sess' = [sess EXCEPT ![s].left = @ \ {n}]
        /\ IF n = "config" /\ Loads # "absent"
           THEN /\ removed' = removed \cup (IF Loads = "loaded" THEN {text[name[n]].id} ELSE {})
                /\ crossed' = (crossed \/ \E t \in Sessions \ {s} : Updating(t))
           ELSE UNCHANGED <<removed, crossed>>
  BY DEF Remove
<1>2. UNCHANGED <<text, ids, overlapped>> /\ sess[s].pc = "remove" /\ n \in Names
  BY DEF Remove, TypeOK, SessionRecords
<1>3. Moved(s, "remove", sess[s].mine, sess[s].file)
  BY <1>1, <1>2 DEF Moved, TypeOK, SessionRecords
<1>4. name' \in [Names -> {NoInode} \cup Inodes] /\ \A m \in Names : name'[m] \in {name[m], NoInode}
  BY <1>1, <1>2 DEF TypeOK
<1>5. TypeOK'
  <2>1. removed' \subseteq 1 .. ids
    <3>1. CASE n = "config" /\ Loads = "loaded"
      <4>1. text[name[n]] \in Versions /\ name[n] \in Inodes
        BY <3>1 DEF Loads, Whole, TypeOK, Names
      <4>2. text[name[n]].id \in 1 .. ids
        BY <4>1, VersionFields, MaxIdsAssumption DEF Carried, TypeOK
      <4> QED
        BY <1>1, <3>1, <4>2 DEF TypeOK
    <3>2. CASE ~(n = "config" /\ Loads = "loaded")
      BY <1>1, <3>2 DEF TypeOK
    <3> QED
      BY <3>1, <3>2
  <2>2. crossed' \in BOOLEAN
    BY <1>1 DEF TypeOK
  <2>3. name'["config"] = name'["tmp"] => name'["config"] = NoInode
    BY <1>4 DEF TypeOK, Names
  <2>4. \A t \in Sessions : (Saving(t) <=> sess[t].file # NoInode)'
    BY <1>2, <1>3 DEF TypeOK, Moved, Saving
  <2> QED
    BY <1>2, <1>3, <1>4, <2>1, <2>2, <2>3, <2>4 DEF TypeOK, Moved, SessionRecords
<1>6. Carried'
  BY <1>2, <1>3 DEF Carried, Carries, Saving, Moved
<1>7. (overlapped \/ Alone)'
  <2> SUFFICES ASSUME Alone PROVE Alone'
    BY <1>2
  <2>1. \A t \in Sessions : (Saving(t)' <=> Saving(t)) /\ (Saving(t) => sess'[t] = sess[t] /\ sess[t].file # NoInode)
    BY <1>2, <1>3 DEF Moved, Saving, TypeOK
  <2>2. name'["config"] \in {name["config"], NoInode} /\ name'["tmp"] \in {name["tmp"], NoInode}
    BY <1>4 DEF Names
  <2> QED
    BY <1>2, <2>1, <2>2 DEF Alone, Whole
<1>8. (overlapped \/ crossed \/ Kept)'
  <2> SUFFICES ASSUME Kept, ~overlapped, ~crossed, ~crossed' PROVE Kept'
    BY <1>1, <1>2 DEF TypeOK
  <2>1. \A t \in Sessions : (Carries(t)' <=> Carries(t)) /\ (Carries(t) => t # s /\ sess'[t] = sess[t])
    BY <1>2, <1>3 DEF Moved, Carries, Saving
  <2>2. CASE n = "config" /\ Loads = "loaded"
    <3>1. removed' = removed \cup {text[name["config"]].id} /\ name["config"] # NoInode
      BY <1>1, <2>2 DEF Loads
    <3>2. name'["config"] = NoInode
      BY <1>1, <2>2 DEF TypeOK, Names
    <3>3. \A t \in Sessions : Carries(t) => ~sess[t].mine.ready
      BY <1>1, <2>1, <2>2 DEF Updating, Carries, TypeOK
    <3> QED
      BY <1>2, <2>1, <3>1, <3>2, <3>3 DEF Kept
  <2>3. CASE ~(n = "config" /\ Loads = "loaded")
    <3>1. removed' = removed
      BY <1>1, <2>3
    <3>2. name'["config"] \in {name["config"], NoInode}
      BY <1>4 DEF Names
    <3> QED
      BY <1>2, <2>1, <3>1, <3>2 DEF Kept
  <2> QED
    BY <2>2, <2>3
<1> QED
  BY <1>5, <1>6, <1>7, <1>8

LEMMA RenameKeeps ==
  ASSUME IInv, NEW s \in Sessions, Rename(s)
  PROVE  IInv'
<1> USE DEF IInv
<1>1. CASE name["tmp"] = NoInode
  <2>1. Moved(s, "idle", Empty, NoInode)
    BY EndMoves DEF Rename
  <2> QED
    BY <1>1, <2>1, StoppedKeeps DEF Rename
<1>2. CASE name["tmp"] # NoInode
  <2>1. Moved(s, "idle", Empty, NoInode) /\ sess[s].pc = "moded" /\ Saving(s)
    BY EndMoves DEF Rename, Saving
  <2>2. /\ name' \in [Names -> {NoInode} \cup Inodes]
        /\ name'["config"] = name["tmp"] /\ name'["tmp"] = NoInode /\ name["tmp"] \in Inodes
        /\ UNCHANGED <<text, ids, removed, overlapped, crossed>>
    BY <1>2 DEF Rename, TypeOK, Names
  <2>3. TypeOK'
    BY <2>1, <2>2, InodesAssumption DEF TypeOK, Moved, SessionRecords, Saving, NoInode
  <2>4. Carried'
    BY <2>1, <2>2 DEF Carried, Carries, Saving, Moved
  <2>5. Alone => text[name["tmp"]] = sess[s].mine /\ sess[s].mine \in Versions
    BY <1>2, <2>1 DEF Alone, Carried, Carries
  <2>6. (overlapped \/ Alone)'
    <3> SUFFICES ASSUME Alone PROVE Alone'
      BY <2>2
    <3>1. \A t \in Sessions : ~Saving(t)'
      BY <2>1 DEF Alone, Moved, Saving
    <3> QED
      BY <2>2, <2>5, <3>1 DEF Alone, Whole
  <2>7. (overlapped \/ crossed \/ Kept)'
    <3> SUFFICES ASSUME Alone, Kept PROVE Kept'
      BY <2>2
    <3>1. /\ text'[name'["config"]].id = sess[s].mine.id
          /\ sess[s].mine.id \in 1 .. ids
          /\ sess[s].mine.id \notin removed
      BY <2>1, <2>2, <2>5, VersionFields, MaxIdsAssumption DEF Kept, Carried, Carries, TypeOK
    <3>2. \A t \in Sessions : Carries(t)' => t # s /\ Carries(t) /\ sess'[t] = sess[t]
      BY <2>1 DEF Moved, Carries, Saving
    <3>3. Carries(s)
      BY <2>1 DEF Carries
    <3> QED
      BY <2>2, <3>1, <3>2, <3>3 DEF Kept
  <2> QED
    BY <2>3, <2>4, <2>6, <2>7
<1> QED
  BY <1>1, <1>2

LEMMA InitEstablishes == Init => IInv
<1> SUFFICES ASSUME Init PROVE IInv
  OBVIOUS
<1>1. \A s \in Sessions : sess[s] = Idle
  BY DEF Init
<1>2. TypeOK
  <2>1. ids \in 0 .. MaxIds /\ removed \subseteq 1 .. ids
    BY MaxIdsAssumption DEF Init
  <2>2. /\ sess \in [Sessions -> SessionRecords]
        /\ \A s \in Sessions : ~Saving(s) /\ sess[s].file = NoInode
    BY <1>1, IdleRecord DEF Init, Saving
  <2>3. name \in [Names -> {NoInode} \cup Inodes] /\ name["config"] = NoInode
    BY DEF Init, Names
  <2>4. text \in [Inodes -> {Empty, Mixed} \cup Versions] /\ overlapped \in BOOLEAN /\ crossed \in BOOLEAN
    BY DEF Init
  <2> QED
    BY <2>1, <2>2, <2>3, <2>4 DEF TypeOK, SessionRecords
<1>3. Carried
  BY <1>1, IdleRecord DEF Init, Carried, Carries, Saving, Empty
<1>4. Alone
  BY <1>1, IdleRecord DEF Init, Alone, Saving, Names
<1>5. Kept
  BY <1>1, IdleRecord DEF Init, Kept, Carries, Saving, Names
<1> QED
  BY <1>2, <1>3, <1>4, <1>5 DEF IInv

LEMMA StepKeeps == IInv /\ [Next]_vars => IInv'
<1> SUFFICES ASSUME IInv, [Next]_vars PROVE IInv'
  OBVIOUS
<1>1. CASE UNCHANGED vars
  BY <1>1 DEF vars, IInv, TypeOK, Carried, Carries, Alone, Kept, Saving, Whole
<1>2. ASSUME NEW s \in Sessions, Return(s) \/ Stops(s) PROVE IInv'
  <2>1. Moved(s, "idle", Empty, NoInode)
    BY <1>2, EndMoves DEF Return, Stops, IInv
  <2> QED
    BY <1>2, <2>1, StoppedKeeps DEF Return, Stops
<1> QED
  BY <1>1, <1>2, UpdateKeeps, CreateKeeps, UninstallKeeps, RemoveKeeps,
     OpenKeeps, WriteKeeps, ChmodKeeps, RenameKeeps DEF Next

LEMMA Invariance == Spec => []IInv
  BY InitEstablishes, StepKeeps, PTL DEF Spec

\* However many commands save, update, create and remove the file at once, and
\* wherever they are killed, the state keeps its shape.
THEOREM TypeCorrect == Spec => []TypeOK
<1>1. IInv => TypeOK
  BY DEF IInv
<1> QED
  BY <1>1, Invariance, PTL

\* The file can be parsed unless two saves have overlapped: no kill tears it.
THEOREM FileStaysWhole == Spec => []ConfigWhole
<1>1. IInv => ConfigWhole
  BY DEF IInv, ConfigWhole, Alone, Loads
<1> QED
  BY <1>1, Invariance, PTL

\* An instance that was removed stays so, unless an uninstall has crossed the
\* load and the save of another command.
THEOREM RemovedIsGone == Spec => []RemovedStaysRemoved
<1>1. IInv => RemovedStaysRemoved
  BY DEF IInv, RemovedStaysRemoved, Kept, Loads
<1> QED
  BY <1>1, Invariance, PTL

\* What a successful WriteFile puts in place is what its caller gave it.
THEOREM PublishesItsOwn == Spec => SavesItsOwn
<1>1. IInv /\ [Next]_vars =>
        [\A s \in Sessions :
           /\ sess[s].pc = "moded" /\ sess'[s].pc = "idle"
           /\ name'["config"] \notin {name["config"], NoInode}
           /\ ~overlapped
           => text[name'["config"]] = sess[s].mine]_vars
  <2> SUFFICES ASSUME IInv, [Next]_vars, NEW s \in Sessions,
                      sess[s].pc = "moded", sess'[s].pc = "idle",
                      name'["config"] \notin {name["config"], NoInode}, ~overlapped
               PROVE  text[name'["config"]] = sess[s].mine
    OBVIOUS
  <2>1. Alone /\ TypeOK
    BY DEF IInv
  <2>2. name' # name
    OBVIOUS
  <2>3. PICK t \in Sessions : Remove(t) \/ Open(t) \/ Rename(t)
    BY <2>2 DEF Next, vars, Update, Create, Uninstall, Return, Write, Chmod, Stops
  <2>4. ~Remove(t)
    BY <2>1 DEF Remove, TypeOK, Names
  <2>5. ~Open(t)
    BY <2>1 DEF Open, Opens, TypeOK, Names
  <2>6. Rename(t)
    BY <2>3, <2>4, <2>5
  <2>7. t = s
    BY <2>6 DEF Rename, End
  <2>8. name'["config"] = name["tmp"] /\ name["tmp"] # NoInode /\ text' = text
    BY <2>6 DEF Rename, Names
  <2>9. text[sess[s].file] = sess[s].mine /\ name["tmp"] = sess[s].file
    BY <2>1, <2>8 DEF Alone, Saving
  <2> QED
    BY <2>8, <2>9
<1> QED
  BY <1>1, Invariance, PTL DEF Spec, SavesItsOwn
=============================================================================
