---------------------------- MODULE ConfigStore ----------------------------
(***************************************************************************)
(* /etc/hamara/config.json, which several commands at once may load, save  *)
(* and remove: Hamara takes no lock.                                       *)
(*                                                                         *)
(* Accept and Doctor load it, work for a while, and save what they loaded. *)
(* Init and Join save a new instance if there is no file.  Uninstall loads *)
(* it and removes the directory; with --force, init and join do that first.*)
(* WriteFile writes config.json.tmp and renames it.  A file is an inode,   *)
(* which a process can go on writing after its name is gone or moved.      *)
(***************************************************************************)
EXTENDS Naturals

CONSTANTS
  Sessions,   \* the processes that run commands
  Inodes,     \* the inodes of the file system
  MaxIds,     \* bound on the number of instances
  Faults      \* what may go wrong

ASSUME InodesAssumption == 0 \notin Inodes
ASSUME MaxIdsAssumption == MaxIds \in Nat
ASSUME FaultsAssumption == Faults \subseteq {"kill", "stepFails"}

Names   == {"config", "tmp"}
NoInode == 0

\* What cannot be parsed: nothing, and a file with the tail of another.
Empty    == [id |-> 0, ready |-> FALSE]
Mixed    == [id |-> 0, ready |-> TRUE]
Versions == [id : 1 .. MaxIds, ready : BOOLEAN]

VARIABLES
  name,        \* name[n]: the inode that n names
  text,        \* text[i]: what inode i holds
  sess,        \* sess[s]: what session s is doing
  ids,         \* the number of instances so far
  removed,     \* the instances that an uninstall has removed
  overlapped,  \* a save has begun while another was under way
  crossed      \* an uninstall has removed the file between a load and its save

vars == <<name, text, sess, ids, removed, overlapped, crossed>>

\* `mine` is the configuration in memory, `file` the open inode, `left` the
\* names an uninstall has still to remove, `again` whether a save follows.
Idle == [pc |-> "idle", mine |-> Empty, file |-> NoInode, left |-> {}, again |-> FALSE]

Saving(s)   == sess[s].pc \in {"opened", "written", "moded"}
Updating(s) == (sess[s].pc = "work" \/ Saving(s)) /\ sess[s].mine.ready

Whole(i) == text[i] \in Versions

\* LoadConfig: "absent" and "unreadable" are different errors.
Loads == IF name["config"] = NoInode THEN "absent"
         ELSE IF Whole(name["config"]) THEN "loaded" ELSE "unreadable"

Go(s, pc) == sess' = [sess EXCEPT ![s].pc = pc]
End(s)    == sess' = [sess EXCEPT ![s] = Idle]

Init ==
  /\ name = [n \in Names |-> NoInode]
  /\ text = [i \in Inodes |-> Empty]
  /\ sess = [s \in Sessions |-> Idle]
  /\ ids = 0 /\ removed = {} /\ overlapped = FALSE /\ crossed = FALSE

----------------------------------------------------------------------------
(***************************************************************************)
(* The commands, up to their save.                                         *)
(***************************************************************************)

\* Accept and Doctor: what is saved later is what is read now.
Update(s) ==
  /\ sess[s] = Idle /\ Loads = "loaded"
  /\ sess' = [sess EXCEPT ![s].pc = "work",
                          ![s].mine = [id |-> text[name["config"]].id, ready |-> TRUE]]
  /\ UNCHANGED <<name, text, ids, removed, overlapped, crossed>>

\* A new instance, from InitOutside or Join, once there is no file.
Create(s) ==
  /\ ids < MaxIds
  /\ \/ sess[s] = Idle /\ name["config"] = NoInode
     \/ sess[s].pc = "remove" /\ sess[s].left = {} /\ sess[s].again
  /\ ids' = ids + 1
  /\ sess' = [sess EXCEPT ![s] = [Idle EXCEPT !.pc = "work",
                                              !.mine = [id |-> ids', ready |-> FALSE]]]
  /\ UNCHANGED <<name, text, removed, overlapped, crossed>>

\* Uninstall by itself, or for --force, which needs a file to be there.
Uninstall(s) ==
  /\ sess[s] = Idle /\ Loads # "unreadable"
  /\ \E again \in BOOLEAN :
       /\ again => Loads = "loaded" /\ ids < MaxIds
       /\ sess' = [sess EXCEPT ![s] = [Idle EXCEPT !.pc = "remove", !.left = Names,
                                                   !.again = again]]
  /\ UNCHANGED <<name, text, ids, removed, overlapped, crossed>>

\* RemoveAll, in the order in which the directory lists its entries.
Remove(s) ==
  /\ sess[s].pc = "remove"
  /\ \E n \in sess[s].left :
       /\ name' = [name EXCEPT ![n] = NoInode]
       /\ sess' = [sess EXCEPT ![s].left = @ \ {n}]
       /\ IF n = "config" /\ Loads # "absent"
          THEN /\ removed' = removed \cup (IF Loads = "loaded" THEN {text[name[n]].id} ELSE {})
               /\ crossed' = (crossed \/ \E t \in Sessions \ {s} : Updating(t))
          ELSE UNCHANGED <<removed, crossed>>
  /\ UNCHANGED <<text, ids, overlapped>>

Return(s) ==
  /\ sess[s].pc = "remove" /\ sess[s].left = {}
  /\ sess[s].again => ids = MaxIds
  /\ End(s)
  /\ UNCHANGED <<name, text, ids, removed, overlapped, crossed>>

----------------------------------------------------------------------------
(***************************************************************************)
(* WriteFile.                                                              *)
(***************************************************************************)

Unused(i) == (\A n \in Names : name[n] # i) /\ (\A s \in Sessions : sess[s].file # i)
NewInode  == CHOOSE i \in Inodes : Unused(i)

Opens(s, n, i) ==
  /\ name' = [name EXCEPT ![n] = i]
  /\ text' = [text EXCEPT ![i] = Empty]
  /\ sess' = [sess EXCEPT ![s].pc = "opened", ![s].file = i]
  /\ overlapped' = (overlapped \/ \E t \in Sessions \ {s} : Saving(t))
  /\ UNCHANGED <<ids, removed, crossed>>

\* Two faults: the file is written in place; a temporary file that is there is
\* taken for one's own.
OpenInPlace(s) ==
  /\ sess[s].pc = "work"
  /\ Opens(s, "config", IF name["config"] = NoInode THEN NewInode ELSE name["config"])

OpenWithoutTruncating(s) ==
  /\ sess[s].pc = "work"
  /\ IF name["tmp"] = NoInode THEN Opens(s, "tmp", NewInode)
     ELSE /\ sess' = [sess EXCEPT ![s].pc = IF Whole(name["tmp"]) THEN "written" ELSE "opened",
                                  ![s].file = name["tmp"]]
          /\ overlapped' = (overlapped \/ \E t \in Sessions \ {s} : Saving(t))
          /\ UNCHANGED <<name, text, ids, removed, crossed>>

\* os.WriteFile opens the one temporary name, truncating a file that is there.
Open(s) ==
  /\ sess[s].pc = "work"
  /\ name["tmp"] = NoInode => \E i \in Inodes : Unused(i)
  /\ Opens(s, "tmp", IF name["tmp"] = NoInode THEN NewInode ELSE name["tmp"])

\* What is written over another's text may be shorter, and leave its tail.
Write(s) ==
  /\ sess[s].pc = "opened"
  /\ \E t \in {sess[s].mine} \cup (IF text[sess[s].file] = Empty THEN {} ELSE {Mixed}) :
       text' = [text EXCEPT ![sess[s].file] = t]
  /\ Go(s, "written")
  /\ UNCHANGED <<name, ids, removed, overlapped, crossed>>

\* Chmod and Rename go by the name, and fail if it is gone.
Chmod(s) ==
  /\ sess[s].pc = "written"
  /\ IF name["tmp"] = NoInode THEN End(s) ELSE Go(s, "moded")
  /\ UNCHANGED <<name, text, ids, removed, overlapped, crossed>>

\* A fault: the temporary name stays.
RenameKeepsTmp(s) ==
  /\ sess[s].pc = "moded"
  /\ name' = IF name["tmp"] = NoInode THEN name
             ELSE [name EXCEPT !["config"] = name["tmp"]]
  /\ End(s)
  /\ UNCHANGED <<text, ids, removed, overlapped, crossed>>

Rename(s) ==
  /\ sess[s].pc = "moded"
  /\ name' = IF name["tmp"] = NoInode THEN name
             ELSE [n \in Names |-> IF n = "config" THEN name["tmp"] ELSE NoInode]
  /\ End(s)
  /\ UNCHANGED <<text, ids, removed, overlapped, crossed>>

----------------------------------------------------------------------------
\* A command is killed, or one of its other steps fails.
Stops(s) ==
  /\ Faults # {} /\ sess[s] # Idle
  /\ sess[s].pc = "remove" => "kill" \in Faults   \* Uninstall ignores errors
  /\ End(s)
  /\ UNCHANGED <<name, text, ids, removed, overlapped, crossed>>

Next ==
  \E s \in Sessions :
    \/ Update(s) \/ Create(s) \/ Uninstall(s) \/ Remove(s) \/ Return(s)
    \/ Open(s) \/ Write(s) \/ Chmod(s) \/ Rename(s) \/ Stops(s)

Spec == Init /\ [][Next]_vars

----------------------------------------------------------------------------
(***************************************************************************)
(* Properties.                                                             *)
(***************************************************************************)

\* The shape of the state; no two names name one inode.
TypeOK ==
  /\ name \in [Names -> {NoInode} \cup Inodes]
  /\ name["config"] = name["tmp"] => name["config"] = NoInode
  /\ text \in [Inodes -> {Empty, Mixed} \cup Versions]
  /\ sess \in [Sessions -> [pc : {"idle", "work", "opened", "written", "moded", "remove"},
                            mine : {Empty} \cup Versions, file : {NoInode} \cup Inodes,
                            left : SUBSET Names, again : BOOLEAN]]
  /\ \A s \in Sessions : Saving(s) <=> sess[s].file # NoInode
  /\ ids \in 0 .. MaxIds /\ removed \subseteq 1 .. ids
  /\ overlapped \in BOOLEAN /\ crossed \in BOOLEAN

\* config.json can be parsed, whatever command is killed wherever (WriteFile),
\* unless two saves have overlapped.  A file that cannot be parsed stops both
\* uninstall and init --force.
ConfigWhole == overlapped \/ Loads # "unreadable"

\* An instance that was removed does not come back, neither from a temporary
\* file that was left behind nor from a command that loads it in time, unless an
\* uninstall removed the file between another command's load and its save.
RemovedStaysRemoved ==
  crossed \/ overlapped \/ (Loads = "loaded" => text[name["config"]].id \notin removed)

\* A save that reports success has put what its command meant to save in place:
\* WriteFile never publishes another's text, unless two saves have overlapped.
SavesItsOwn ==
  [][\A s \in Sessions :
       /\ sess[s].pc = "moded" /\ sess'[s].pc = "idle"
       /\ name'["config"] \notin {name["config"], NoInode}
       /\ ~overlapped
       => text[name'["config"]] = sess[s].mine]_vars

=============================================================================
