---------------------------- MODULE PairingKeys ----------------------------
(***************************************************************************)
(* Proofs about Pairing, third part: whose key is whose.                   *)
(*                                                                         *)
(* A gateway knows a peer by a key, an edge is paired with the instance in *)
(* its configuration, and the two are compared only in the token that      *)
(* carries both.  Paired says that a key an edge uses, has written to its  *)
(* token file or is about to write is claimed by no other edge and for no  *)
(* other instance, and that every response that was printed with that key  *)
(* names that instance: whoever gets through with it is the one that was   *)
(* accepted.                                                               *)
(*                                                                         *)
(* CurrentAt, Fresh, Handed and Applied follow the files instead: the      *)
(* token is made of the keys that are there, the certificate authority's   *)
(* key is deleted before the offer is shown, and accept restarts the link  *)
(* before it records that the pairing is done.                             *)
(***************************************************************************)
EXTENDS PairingImplements

\* e uses the key k, or is about to, as one of the instance i.
Claims(e, k, i) ==
  \/ token[e] # None /\ token[e].key = k /\ token[e].id = i
  \/ config[e] # NoConfig /\ link[e] # NoLink /\ link[e].own = k /\ config[e].id = i
  \/ up[e] # NoLink /\ up[e].own = k /\ config[e].id = i
  \/ proc[e].cmd = "join" /\ proc[e].new.key = k /\ proc[e].cfg.id = i

\* The link of an edge runs, or will after a reboot, only with a configuration.
Running(e) ==
  /\ up[e] # NoLink \/ e \in enabled => config[e] # NoConfig
  /\ up[e] # NoLink /\ link[e] # NoLink => up[e] = link[e]
  /\ "wipe" \in Left(e) /\ "down" \notin Left(e) => up[e] = NoLink /\ e \notin enabled

Ready(e) ==
  config[e].state = "ready" /\ link[e] # NoLink => Answered(link[e].own, config[e].id)

\* What a join has written so far.
Joining(e) ==
  LET p == proc[e]  left == Left(e) IN
  p.cmd = "join" =>
    /\ p.cfg.state = "pending"
    /\ "link" \in left => "save" \in left
    /\ "save" \in left => config[e] = NoConfig
    /\ "save" \notin left => config[e] = p.cfg
    /\ "keys" \notin left => secrets[e] = p.new
    /\ "link" \notin left => link[e].own = p.new.key

\* A doctor that has got through the link has got through to its own instance.
Probing(e) ==
  LET p == proc[e] IN
  p.cmd = "doctor" =>
    /\ config[e] # NoConfig /\ p.cfg.id = config[e].id
    /\ "probe" \notin Left(e) /\ link[e] # NoLink => Answered(link[e].own, config[e].id)

Placed(e) ==
  /\ Running(e) /\ Ready(e) /\ Joining(e) /\ Probing(e)
  /\ token[e] # None => token[e].kind = "response"

Paired ==
  /\ token[Gateway] # None => token[Gateway].kind = "offer"
  /\ \A e \in Edges : Placed(e)
  /\ \A r \in tokens : r.kind = "response" => r.key \in Ids
  /\ \A e \in Edges : \A k, i \in Names : Claims(e, k, i) =>
       /\ k \in Ids
       /\ \A r \in tokens : r.kind = "response" /\ r.key = k => r.id = i
       /\ \A f \in Edges : \A j \in Names : Claims(f, k, j) => e = f /\ i = j

----------------------------------------------------------------------------
\* Nothing of e has changed.
Same(e) ==
  /\ config'[e] = config[e] /\ secrets'[e] = secrets[e] /\ token'[e] = token[e]
  /\ link'[e] = link[e] /\ up'[e] = up[e] /\ (e \in enabled' <=> e \in enabled)
  /\ proc'[e] = proc[e] /\ Left(e)' = Left(e)

Acts(e) ==
  \/ Join(e) \/ Doctor(e) \/ Probe(e) \/ Uninstall(e) \/ ShowToken(e) \/ ManageLink(e)
  \/ Step(e) \/ FailStep(e) \/ Kill(e) \/ Reboot(e)

\* An edge changes only by what it does itself.
LEMMA OnlyOwnActs ==
  ASSUME Typed, Next, NEW e \in Edges
  PROVE  Same(e) \/ Acts(e)
<1>1. /\ mode' = mode /\ e \in Hosts /\ Gateway \in Hosts /\ e # Gateway /\ Edges \subseteq Hosts
      /\ config \in [Hosts -> Configs] /\ secrets \in [Hosts -> KeyPairs]
      /\ token \in [Hosts -> Spoken \cup {None}] /\ link \in [Hosts -> Links] /\ up \in [Hosts -> Links]
  BY HostsAssumption, Types DEF Next, Hosts
<1> DEFINE Still == proc'[e] = proc[e] /\ Left(e)' = Left(e)
<1>2. ASSUME NEW h \in Hosts \ {e}, NEW step, Moved(h, step)
      PROVE  Still
  BY <1>1, <1>2 DEF Moved
<1>3. ASSUME NEW h \in Hosts \ {e}, NEW cmd, NEW S, NEW cfg, NEW new, Begun(h, cmd, S, cfg, new)
      PROVE  Still
  BY <1>1, <1>3 DEF Begun
<1>4. CASE InitOutside \/ Accept
  BY <1>1, <1>3, <1>4, InitOutsideTyped, AcceptTyped DEF InitOutside, Accept, Begin, Same
<1>5. CASE PrepareMTLS \/ ScrubMTLS \/ AuthorizePeer
  BY <1>1, <1>2, <1>5, PrepareMTLSTyped, ScrubMTLSTyped, AuthorizePeerTyped
     DEF PrepareMTLS, ScrubMTLS, AuthorizePeer, Same
<1>6. ASSUME NEW f \in Edges, f # e, Join(f) \/ Doctor(f)
      PROVE  Same(e)
  BY <1>1, <1>3, <1>6, JoinTyped, DoctorTyped DEF Join, Doctor, Begin, Same
<1>7. ASSUME NEW f \in Edges, f # e, Probe(f)
      PROVE  Same(e)
  BY <1>1, <1>2, <1>7, ProbeTyped DEF Probe, Same
<1>8. ASSUME NEW h \in Hosts, h # e, Uninstall(h)
      PROVE  Same(e)
  BY <1>1, <1>3, <1>8, UninstallTyped DEF Uninstall, Begin, Same
<1>9. ASSUME NEW h \in Hosts, h # e, ShowToken(h) \/ ManageLink(h)
      PROVE  Same(e)
  BY <1>1, <1>2, <1>9, ShowTokenTyped, ManageLinkTyped DEF ShowToken, ManageLink, Same
<1>10. ASSUME NEW h \in Hosts, h # e, FailStep(h) \/ Kill(h) \/ Reboot(h)
       PROVE  Same(e)
  BY <1>1, <1>2, <1>10, FailStepTyped, KillTyped, RebootTyped DEF FailStep, Kill, Reboot, Same
<1>11. ASSUME NEW h \in Hosts, h # e, CheckConflicts(h) \/ GenerateKeys(h) \/ WriteLink(h) \/ SaveConfig(h)
       PROVE  Same(e)
  BY <1>1, <1>2, <1>11, CheckConflictsTyped, GenerateKeysTyped, WriteLinkTyped, SaveConfigTyped
     DEF CheckConflicts, GenerateKeys, WriteLink, SaveConfig, Same
<1>12. ASSUME NEW h \in Hosts, h # e, StartLink(h) \/ WriteToken(h) \/ PrintToken(h)
       PROVE  Same(e)
  BY <1>1, <1>2, <1>12, StartLinkTyped, WriteTokenTyped, PrintTokenTyped
     DEF StartLink, WriteToken, PrintToken, Same
<1>13. ASSUME NEW h \in Hosts, h # e, TakeDown(h) \/ RevokePeers(h) \/ RemoveLink(h) \/ Wipe(h)
       PROVE  Same(e)
  BY <1>1, <1>2, <1>13, TakeDownTyped, RevokePeersTyped, RemoveLinkTyped, WipeTyped
     DEF TakeDown, RevokePeers, RemoveLink, Wipe, Same
<1> QED
  BY <1>1, <1>4, <1>5, <1>6, <1>7, <1>8, <1>9, <1>10, <1>11, <1>12, <1>13 DEF Next, Step, Acts

\* What e becomes keeps what was placed, and claims nothing new.
Keeps(e) == Placed(e)' /\ \A k, i \in Names : Claims(e, k, i)' => Claims(e, k, i)

LEMMA SameKeeps ==
  ASSUME NEW e \in Edges, Placed(e), Same(e), tokens \subseteq tokens'
  PROVE  Keeps(e)
<1>1. Running(e)' /\ Ready(e)'
  BY AnsweredStays DEF Placed, Running, Ready, Same, Answered
<1>2. Joining(e)' /\ Probing(e)'
  BY DEF Placed, Joining, Probing, Same, Answered
<1>3. \A k, i \in Names : Claims(e, k, i)' => Claims(e, k, i)
  BY DEF Claims, Same
<1> QED
  BY <1>1, <1>2, <1>3 DEF Keeps, Placed, Same

----------------------------------------------------------------------------
(***************************************************************************)
(* What an edge does keeps it placed.                                      *)
(***************************************************************************)

\* What is known when e acts, where keys are made for each instance.
Acting(e) ==
  /\ Typed /\ Trusted /\ Paired /\ mode # "ipip" /\ mode' = mode
  /\ tokens \subseteq tokens'

LEMMA ActingFacts ==
  ASSUME NEW e \in Edges, Acting(e)
  PROVE  /\ e \in Hosts /\ e # Gateway /\ Gateway \in Hosts /\ Placed(e)
         /\ config \in [Hosts -> Configs] /\ secrets \in [Hosts -> KeyPairs]
         /\ token \in [Hosts -> Spoken \cup {None}]
         /\ link \in [Hosts -> Links] /\ up \in [Hosts -> Links]
         /\ NoConfig.state = "none"
  BY HostsAssumption, Types, Records DEF Acting, Paired, Hosts

\* e goes on with its command, or returns, and nothing else of it has changed.
LEMMA MovedKeeps ==
  ASSUME NEW e \in Edges, Acting(e), NEW step \in {"check", "print", "revoke", "nothing"}, Moved(e, step),
         config'[e] = config[e], secrets'[e] = secrets[e], token'[e] = token[e],
         link'[e] = link[e], up'[e] = up[e], enabled' = enabled
  PROVE  Keeps(e)
<1>1. CASE proc'[e] = Free /\ Left(e)' = {}
  <2>1. Running(e)' /\ Ready(e)'
    BY <1>1, AnsweredStays, ActingFacts DEF Acting, Placed, Running, Ready, Answered
  <2>2. Joining(e)' /\ Probing(e)'
    BY <1>1, FreeRuns DEF Joining, Probing
  <2>3. \A k, i \in Names : Claims(e, k, i)' => Claims(e, k, i)
    BY <1>1, FreeRuns DEF Claims
  <2> QED
    BY <2>1, <2>2, <2>3, ActingFacts DEF Keeps, Placed
<1>2. CASE /\ proc'[e].cmd = proc[e].cmd /\ proc'[e].cfg = proc[e].cfg /\ proc'[e].new = proc[e].new
           /\ Left(e)' = Left(e) \ {step}
  <2>1. Running(e)' /\ Ready(e)'
    BY <1>2, AnsweredStays, ActingFacts DEF Acting, Placed, Running, Ready, Answered
  <2>2. Joining(e)' /\ Probing(e)'
    BY <1>2, ActingFacts DEF Acting, Placed, Joining, Probing, Answered
  <2>3. \A k, i \in Names : Claims(e, k, i)' => Claims(e, k, i)
    BY <1>2 DEF Claims
  <2> QED
    BY <2>1, <2>2, <2>3, ActingFacts DEF Keeps, Placed
<1> QED
  BY <1>1, <1>2 DEF Moved, Hosts

LEMMA PlainKeeps ==
  ASSUME NEW e \in Edges, Acting(e),
         CheckConflicts(e) \/ PrintToken(e) \/ RevokePeers(e) \/ ShowToken(e) \/ Kill(e)
  PROVE  Keeps(e)
<1>1. PICK step \in {"check", "print", "revoke", "nothing"} : Moved(e, step)
  BY ActingFacts, CheckConflictsTyped, PrintTokenTyped, RevokePeersTyped, ShowTokenTyped, KillTyped DEF Acting
<1> QED
  BY <1>1, MovedKeeps DEF CheckConflicts, PrintToken, RevokePeers, ShowToken, Kill

\* A host without a command, whose link may have been started or stopped.
LEMMA RunningChangeKeeps ==
  ASSUME NEW e \in Edges, Acting(e), proc'[e] = Free, Left(e)' = {},
         config[e] # NoConfig \/ (e \notin enabled' /\ up'[e] = NoLink),
         config'[e] = config[e], secrets'[e] = secrets[e], token'[e] = token[e],
         link'[e] = link[e], up'[e] \in {up[e], link[e], NoLink}
  PROVE  Keeps(e)
<1>1. Running(e)' /\ Ready(e)'
  BY AnsweredStays, ActingFacts DEF Acting, Placed, Running, Ready, Answered
<1>2. Joining(e)' /\ Probing(e)'
  BY FreeRuns DEF Joining, Probing
<1>3. \A k, i \in Names : Claims(e, k, i)' => Claims(e, k, i)
  BY FreeRuns, ActingFacts DEF Claims, Placed, Running
<1> QED
  BY <1>1, <1>2, <1>3, ActingFacts DEF Keeps, Placed

LEMMA ManageLinkKeeps ==
  ASSUME NEW e \in Edges, Acting(e), ManageLink(e)
  PROVE  Keeps(e)
<1>1. proc'[e] = Free /\ Left(e)' = {}
  BY ActingFacts, FreeIsOrderly, ManageLinkTyped DEF ManageLink, Acting, Moved
<1>2. up'[e] \in {up[e], link[e], NoLink}
  BY ActingFacts DEF ManageLink
<1> QED
  BY <1>1, <1>2, RunningChangeKeeps DEF ManageLink

LEMMA RebootKeeps ==
  ASSUME NEW e \in Edges, Acting(e), Reboot(e)
  PROVE  Keeps(e)
<1>1. proc'[e] = Free /\ Left(e)' = {}
  BY ActingFacts, RebootTyped DEF Acting
<1>2. up'[e] = IF e \in enabled THEN link[e] ELSE NoLink
  BY ActingFacts DEF Reboot
<1>3. config[e] # NoConfig \/ (e \notin enabled /\ up'[e] = NoLink)
  BY <1>2, ActingFacts DEF Placed, Running
<1> QED
  BY <1>1, <1>2, <1>3, RunningChangeKeeps DEF Reboot

\* By the time a join starts the link, its configuration is saved.
LEMMA StartsPlaced ==
  ASSUME NEW e \in Edges, Acting(e), At(e, "activate")
  PROVE  proc[e].cmd = "join" /\ config[e] = proc[e].cfg /\ config[e] # NoConfig
<1>1. proc[e].cmd = "join" /\ "save" \notin Left(e)
  BY ActingFacts, AtHead, Owners DEF Acting, Rank
<1> QED
  BY <1>1, ActingFacts DEF Placed, Joining, Acting, Typed, Keyed, Makes

LEMMA FailStepKeeps ==
  ASSUME NEW e \in Edges, Acting(e), FailStep(e)
  PROVE  Keeps(e)
<1>1. proc'[e] = Free /\ Left(e)' = {}
  BY ActingFacts, FailStepTyped DEF Acting
<1>2. PICK step : /\ At(e, step)
                  /\ enabled' = IF step = "activate" THEN enabled \cup {e} ELSE enabled
                  /\ up' = [up EXCEPT ![e] = IF step = "restart" THEN NoLink ELSE @]
  BY DEF FailStep
<1>3. up'[e] \in {up[e], link[e], NoLink}
  BY <1>2, ActingFacts
<1>4. config[e] # NoConfig \/ (e \notin enabled' /\ up'[e] = NoLink)
  BY <1>2, StartsPlaced, ActingFacts DEF Placed, Running
<1> QED
  BY <1>1, <1>3, <1>4, RunningChangeKeeps DEF FailStep

LEMMA StartLinkKeeps ==
  ASSUME NEW e \in Edges, Acting(e), StartLink(e)
  PROVE  Keeps(e)
<1>1. At(e, "activate") /\ Moved(e, "activate")
  <2>1. PICK step \in {"activate", "restart"} : At(e, step) /\ Moved(e, step)
    BY ActingFacts, StartLinkTyped DEF Acting
  <2> QED
    BY <2>1, ActingFacts, AtHead, Owners DEF Acting
<1>2. config[e] # NoConfig
  BY <1>1, StartsPlaced
<1>3. up'[e] \in {up[e], link[e]}
  BY ActingFacts DEF StartLink
<1>4. Running(e)' /\ Ready(e)'
  <2>1. "wipe" \in Left(e)' => "wipe" \in Left(e)
    BY <1>1 DEF Moved
  <2>2. "wipe" \notin Left(e)
    BY <1>1, ActingFacts, AtHead DEF Acting, Rank
  <2> QED
    BY <1>2, <1>3, <2>1, <2>2, AnsweredStays, ActingFacts
       DEF StartLink, Acting, Placed, Running, Ready, Answered
<1>5. Joining(e)' /\ Probing(e)'
  BY <1>1, FreeRuns, ActingFacts DEF StartLink, Acting, Placed, Joining, Probing, Answered, Moved
<1>6. \A k, i \in Names : Claims(e, k, i)' => Claims(e, k, i)
  BY <1>1, <1>2, <1>3, FreeRuns DEF StartLink, Claims, Moved
<1> QED
  BY <1>4, <1>5, <1>6, ActingFacts DEF Keeps, Placed, StartLink

LEMMA TakeDownKeeps ==
  ASSUME NEW e \in Edges, Acting(e), "ignoredFails" \notin Faults, TakeDown(e)
  PROVE  Keeps(e)
<1>1. Moved(e, "down") /\ up'[e] = NoLink /\ e \notin enabled'
  BY ActingFacts, TakeDownTyped DEF Acting, TakeDown
<1>2. Running(e)' /\ Ready(e)'
  BY <1>1, AnsweredStays, ActingFacts DEF TakeDown, Acting, Placed, Running, Ready, Answered
<1>3. Joining(e)' /\ Probing(e)'
  BY <1>1, FreeRuns, ActingFacts DEF TakeDown, Acting, Placed, Joining, Probing, Answered, Moved
<1>4. \A k, i \in Names : Claims(e, k, i)' => Claims(e, k, i)
  BY <1>1, FreeRuns DEF TakeDown, Claims, Moved
<1> QED
  BY <1>2, <1>3, <1>4, ActingFacts DEF Keeps, Placed, TakeDown

LEMMA RemoveLinkKeeps ==
  ASSUME NEW e \in Edges, Acting(e), RemoveLink(e)
  PROVE  Keeps(e)
<1>1. Moved(e, "unlink") /\ At(e, "unlink") /\ link'[e] = NoLink
  BY ActingFacts, RemoveLinkTyped DEF Acting, RemoveLink
<1>2. Running(e)' /\ Ready(e)'
  BY <1>1, FreeRuns, ActingFacts DEF RemoveLink, Acting, Placed, Running, Ready, Moved
<1>3. proc[e].cmd # "join"
  BY <1>1, ActingFacts, AtHead, Owners DEF Acting
<1>4. Joining(e)' /\ Probing(e)'
  BY <1>1, <1>3, FreeRuns, ActingFacts DEF RemoveLink, Placed, Joining, Probing, Moved
<1>5. \A k, i \in Names : Claims(e, k, i)' => Claims(e, k, i)
  BY <1>1, FreeRuns DEF RemoveLink, Claims, Moved
<1> QED
  BY <1>2, <1>4, <1>5, ActingFacts DEF Keeps, Placed, RemoveLink

LEMMA GenerateKeysKeeps ==
  ASSUME NEW e \in Edges, Acting(e), GenerateKeys(e)
  PROVE  Keeps(e)
<1>1. Moved(e, "keys") /\ secrets'[e] = proc[e].new
  BY ActingFacts, GenerateKeysTyped DEF Acting, GenerateKeys
<1>2. Running(e)' /\ Ready(e)'
  BY <1>1, FreeRuns, AnsweredStays, ActingFacts
     DEF GenerateKeys, Acting, Placed, Running, Ready, Answered, Moved
<1>3. Joining(e)' /\ Probing(e)'
  BY <1>1, FreeRuns, ActingFacts DEF GenerateKeys, Acting, Placed, Joining, Probing, Answered, Moved
<1>4. \A k, i \in Names : Claims(e, k, i)' => Claims(e, k, i)
  BY <1>1, FreeRuns DEF GenerateKeys, Claims, Moved
<1> QED
  BY <1>2, <1>3, <1>4, ActingFacts DEF Keeps, Placed, GenerateKeys

\* What a join tells its peer is the key it has made.
LEMMA JoinsAsNew ==
  ASSUME NEW e \in Edges, Acting(e), NEW step \in {"link", "token"}, At(e, step)
  PROVE  proc[e].cmd = "join" /\ Identity(e) = proc[e].new.key /\ proc[e].new.key \in Ids
<1>1. step \in Left(e) /\ step \in StepsOf(e, proc[e].cmd) /\ proc[e].cmd = "join"
  BY ActingFacts, AtHead, Owners DEF Acting
<1>2. "keys" \notin Left(e)
  BY <1>1, ActingFacts, AtHead DEF Acting, Rank
<1>3. secrets[e] = proc[e].new
  BY <1>1, <1>2, ActingFacts DEF Placed, Joining
<1>4. mode \in {"ara", "wireguard", "ssh"}
  BY ModesAssumption DEF Acting, Typed, TypeOK
<1>5. Identity(e) = secrets[e].key
  BY <1>4, ActingFacts DEF Identity, WG
<1>6. proc[e].new \in KeyPairs /\ proc[e].new # NoSecrets
  BY <1>1, Types, ActingFacts DEF Acting, Typed, Keyed, Makes
<1> QED
  BY <1>1, <1>3, <1>5, <1>6, Records DEF Acting

LEMMA WriteLinkKeeps ==
  ASSUME NEW e \in Edges, Acting(e), WriteLink(e)
  PROVE  Keeps(e)
<1>1. At(e, "link") /\ Moved(e, "link") /\ "link" \in Left(e)
  BY ActingFacts, AtHead, WriteLinkTyped DEF Acting, WriteLink
<1>2. proc[e].cmd = "join" /\ Identity(e) = proc[e].new.key /\ proc[e].new.key \in Ids
  BY <1>1, JoinsAsNew
<1>3. config[e] = NoConfig
  BY <1>1, <1>2, ActingFacts DEF Placed, Joining
<1>4. Running(e)' /\ Ready(e)'
  BY <1>1, <1>3, FreeRuns, ActingFacts DEF WriteLink, Placed, Running, Ready, Moved
<1>5. Joining(e)' /\ Probing(e)'
  <2>1. CASE proc'[e] = Free
    BY <2>1, FreeRuns DEF Joining, Probing
  <2>2. CASE proc'[e] # Free
    <3>1. link'[e].own = proc[e].new.key
      <4>1. ~(WG /\ secrets[e] = NoSecrets)
        BY <2>2, ActingFacts, ReturnMoves DEF WriteLink, Acting
      <4> QED
        BY <1>2, <4>1, ActingFacts DEF WriteLink
    <3> QED
      BY <1>1, <1>2, <2>2, <3>1, ActingFacts DEF WriteLink, Acting, Placed, Joining, Probing, Moved
  <2> QED
    BY <2>1, <2>2
<1>6. \A k, i \in Names : Claims(e, k, i)' => Claims(e, k, i)
  BY <1>1, <1>3, FreeRuns DEF WriteLink, Claims, Moved
<1> QED
  BY <1>4, <1>5, <1>6, ActingFacts DEF Keeps, Placed, WriteLink

LEMMA WriteTokenKeeps ==
  ASSUME NEW e \in Edges, Acting(e), WriteToken(e)
  PROVE  Keeps(e)
<1>1. At(e, "token") /\ Moved(e, "token")
  BY ActingFacts, WriteTokenTyped DEF Acting, WriteToken
<1>2. proc[e].cmd = "join" /\ Identity(e) = proc[e].new.key
  BY <1>1, JoinsAsNew
<1>3. /\ token'[e].kind = "response" /\ token'[e].key = proc[e].new.key
      /\ token'[e].id = proc[e].cfg.id
  BY <1>2, ActingFacts DEF WriteToken
<1>4. Running(e)' /\ Ready(e)'
  BY <1>1, FreeRuns, AnsweredStays, ActingFacts
     DEF WriteToken, Acting, Placed, Running, Ready, Answered, Moved
<1>5. Joining(e)' /\ Probing(e)'
  BY <1>1, FreeRuns, ActingFacts DEF WriteToken, Acting, Placed, Joining, Probing, Answered, Moved
<1>6. \A k, i \in Names : Claims(e, k, i)' => Claims(e, k, i)
  BY <1>1, <1>2, <1>3, FreeRuns DEF WriteToken, Claims, Moved
<1> QED
  BY <1>3, <1>4, <1>5, <1>6 DEF Keeps, Placed

LEMMA SaveConfigKeeps ==
  ASSUME NEW e \in Edges, Acting(e), SaveConfig(e)
  PROVE  Keeps(e)
<1>1. At(e, "save") /\ Moved(e, "save") /\ "save" \in Left(e) /\ config'[e] = proc[e].cfg
  BY ActingFacts, AtHead, SaveConfigTyped DEF Acting, SaveConfig
<1>2. proc[e].cmd \in {"join", "doctor"} /\ "wipe" \notin Left(e)
  BY <1>1, ActingFacts, AtHead, Owners DEF Acting, Rank
<1>3. CASE proc[e].cmd = "join"
  <2>1. "keys" \notin Left(e) /\ "link" \notin Left(e)
    BY <1>1, <1>3, ActingFacts, AtHead DEF Acting, Rank
  <2>2. /\ config[e] = NoConfig /\ link[e].own = proc[e].new.key /\ proc[e].cfg.state = "pending"
        /\ up[e] = NoLink
    BY <1>1, <1>3, <2>1, ActingFacts DEF Placed, Joining, Running
  <2>3. proc[e].cfg # NoConfig
    BY <1>3, ActingFacts DEF Acting, Typed, Keyed, Makes
  <2>4. Running(e)' /\ Ready(e)'
    BY <1>1, <1>2, <2>2, <2>3, FreeRuns DEF SaveConfig, Running, Ready, Moved
  <2>5. Joining(e)' /\ Probing(e)'
    BY <1>1, <1>3, <2>1, FreeRuns, ActingFacts DEF SaveConfig, Placed, Joining, Probing, Moved
  <2>6. \A k, i \in Names : Claims(e, k, i)' => Claims(e, k, i)
    BY <1>1, <1>3, <2>2, FreeRuns DEF SaveConfig, Claims, Moved
  <2> QED
    BY <2>4, <2>5, <2>6, ActingFacts DEF Keeps, Placed, SaveConfig
<1>4. CASE proc[e].cmd = "doctor"
  <2>1. "probe" \notin Left(e)
    BY <1>1, <1>4, ActingFacts, AtHead DEF Acting, Rank
  <2>2. config[e] # NoConfig /\ proc[e].cfg.id = config[e].id
    BY <1>4, ActingFacts DEF Placed, Probing
  <2>3. proc[e].cfg # NoConfig
    <3>1. config[e] \in Configs /\ None \notin Ids /\ NoConfig.id = None
      BY ActingFacts, Records DEF Acting
    <3>2. config[e].id \in Ids
      BY <2>2, <3>1, Records DEF Acting
    <3> QED
      BY <2>2, <3>1, <3>2
  <2>4. Running(e)'
    BY <1>1, <1>2, <2>2, <2>3, FreeRuns, ActingFacts DEF SaveConfig, Placed, Running, Moved
  <2>5. Ready(e)'
    BY <1>1, <1>4, <2>1, <2>2, ActingFacts DEF SaveConfig, Placed, Probing, Ready, Answered
  <2>6. Joining(e)' /\ Probing(e)'
    BY <1>1, <1>4, <2>2, <2>3, FreeRuns, ActingFacts
       DEF SaveConfig, Placed, Joining, Probing, Moved, Answered
  <2>7. \A k, i \in Names : Claims(e, k, i)' => Claims(e, k, i)
    BY <1>1, <1>4, <2>2, FreeRuns DEF SaveConfig, Claims, Moved
  <2> QED
    BY <2>4, <2>5, <2>6, <2>7, ActingFacts DEF Keeps, Placed, SaveConfig
<1> QED
  BY <1>2, <1>3, <1>4

LEMMA WipeKeeps ==
  ASSUME NEW e \in Edges, Acting(e), Wipe(e)
  PROVE  Keeps(e)
<1>1. PICK step \in {"wipe", "nothing"} : Moved(e, step)
  BY ActingFacts, WipeTyped DEF Acting
<1>2. At(e, "wipe") /\ "wipe" \in Left(e) /\ "down" \notin Left(e) /\ proc[e].cmd \in {"init", "uninstall"}
  <2>1. At(e, "wipe")
    BY DEF Wipe
  <2>2. "wipe" \in Left(e) /\ proc[e].cmd \in {"init", "uninstall"}
    BY <2>1, ActingFacts, AtHead, Owners DEF Acting
  <2> QED
    BY <2>1, <2>2, ActingFacts, AtHead DEF Acting, Rank
<1>3. up[e] = NoLink /\ e \notin enabled
  BY <1>2, ActingFacts DEF Placed, Running
<1>4. config'[e] \in {config[e], NoConfig} /\ token'[e] \in {token[e], None}
  BY ActingFacts DEF Wipe
<1>5. Running(e)' /\ Ready(e)'
  BY <1>3, <1>4, ActingFacts DEF Wipe, Acting, Placed, Running, Ready, Answered
<1>6. Joining(e)' /\ Probing(e)'
  BY <1>1, <1>2, FreeRuns DEF Moved, Joining, Probing
<1>7. \A k, i \in Names : Claims(e, k, i)' => Claims(e, k, i)
  BY <1>1, <1>2, <1>3, <1>4, FreeRuns DEF Wipe, Claims, Moved
<1> QED
  BY <1>4, <1>5, <1>6, <1>7, ActingFacts DEF Keeps, Placed

\* Whoever gets through to the gateway has answered the gateway's instance,
\* and it is the edge's own.
LEMMA ThroughToItsOwn ==
  ASSUME Trusted, Paired, mode # "ipip", NEW e \in Edges, Connected(e)
  PROVE  /\ config[Gateway] # NoConfig /\ config[e].id = config[Gateway].id
         /\ Claims(e, up[e].own, config[e].id) /\ up[e].own \in Names /\ config[e].id \in Names
         /\ Answered(up[e].own, config[e].id)
<1>1. /\ e \in Hosts /\ Placed(e) /\ None \notin Ids /\ NoConfig.id = None
      /\ config \in [Hosts -> Configs] /\ up \in [Hosts -> Links]
      /\ \A r \in tokens : r.id \in Ids
  BY Types, Records DEF Trusted, Paired, Hosts, Spoken
<1>2. up[e] # NoLink /\ config[e] # NoConfig
  BY <1>1 DEF Connected, Placed, Running
<1>3. up[e].own \in Names /\ config[e].id \in Names
  BY <1>1, Records DEF Trusted, Links, Configs
<1>4. Claims(e, up[e].own, config[e].id)
  BY <1>2 DEF Claims
<1>5. /\ up[e].own \in Ids
      /\ \A r \in tokens : r.kind = "response" /\ r.key = up[e].own => r.id = config[e].id
  BY <1>3, <1>4 DEF Paired
<1>6. up[e].own \in Admitted
  <2>1. CASE mode = "ssh"
    BY <1>1, <1>5, <2>1 DEF Connected, Admitted
  <2>2. CASE mode # "ssh"
    BY <1>1, <1>5, <2>2 DEF Connected, Admitted
  <2> QED
    BY <2>1, <2>2
<1>7. PICK r \in tokens : r.kind = "response" /\ r.key = up[e].own /\ r.id = config[Gateway].id
  BY <1>6 DEF Trusted, AdmitsOnlyAnswers
<1> QED
  BY <1>1, <1>3, <1>4, <1>5, <1>7 DEF Answered

LEMMA ProbeKeeps ==
  ASSUME NEW e \in Edges, Acting(e), Probe(e)
  PROVE  Keeps(e)
<1>1. At(e, "probe") /\ Moved(e, "probe")
  BY ActingFacts, ProbeTyped DEF Acting, Probe
<1>2. Running(e)' /\ Ready(e)'
  BY <1>1, FreeRuns, AnsweredStays, ActingFacts
     DEF Probe, Acting, Placed, Running, Ready, Answered, Moved
<1>3. Joining(e)' /\ Probing(e)'
  <2>1. CASE proc'[e] = Free
    BY <2>1, FreeRuns DEF Joining, Probing
  <2>2. CASE proc'[e] # Free
    <3>1. Connected(e)
      BY <2>2, ActingFacts, ReturnMoves DEF Probe, Acting
    <3>2. link[e] # NoLink => Answered(link[e].own, config[e].id)
      BY <3>1, ThroughToItsOwn, ActingFacts DEF Acting, Connected, Placed, Running
    <3>3. proc[e].cmd = "doctor"
      BY <1>1, ActingFacts, AtHead, Owners DEF Acting
    <3> QED
      BY <1>1, <2>2, <3>2, <3>3, ActingFacts DEF Probe, Placed, Joining, Probing, Moved, Answered
  <2> QED
    BY <2>1, <2>2
<1>4. \A k, i \in Names : Claims(e, k, i)' => Claims(e, k, i)
  BY <1>1, FreeRuns DEF Probe, Claims, Moved
<1> QED
  BY <1>2, <1>3, <1>4, ActingFacts DEF Keeps, Placed, Probe

LEMMA UninstallKeeps ==
  ASSUME NEW e \in Edges, Acting(e), Uninstall(e)
  PROVE  Keeps(e)
<1>1. Begun(e, "uninstall", UninstallSet, config[e], NoSecrets) /\ Left(e)' = UninstallSet
  BY ActingFacts, UninstallTyped DEF Acting, Begun
<1>2. Running(e)' /\ Ready(e)'
  BY <1>1, AnsweredStays, ActingFacts
     DEF Uninstall, Begin, Acting, Placed, Running, Ready, Answered, UninstallSet
<1>3. Joining(e)' /\ Probing(e)'
  BY <1>1 DEF Begun, Joining, Probing
<1>4. \A k, i \in Names : Claims(e, k, i)' => Claims(e, k, i)
  BY <1>1 DEF Begun, Uninstall, Begin, Claims
<1> QED
  BY <1>2, <1>3, <1>4, ActingFacts DEF Keeps, Placed, Uninstall, Begin

LEMMA DoctorKeeps ==
  ASSUME NEW e \in Edges, Acting(e), Doctor(e)
  PROVE  Keeps(e)
<1>1. PICK c : c.id = config[e].id /\ Begun(e, "doctor", {"probe", "save"}, c, NoSecrets)
  BY ActingFacts, DoctorTyped DEF Acting
<1>2. config[e] # NoConfig /\ Left(e)' = {"probe", "save"}
  BY <1>1 DEF Doctor, Begun
<1>3. Running(e)' /\ Ready(e)'
  BY <1>2, AnsweredStays, ActingFacts
     DEF Doctor, Begin, Acting, Placed, Running, Ready, Answered
<1>4. Joining(e)' /\ Probing(e)'
  BY <1>1, <1>2 DEF Begun, Doctor, Begin, Joining, Probing
<1>5. \A k, i \in Names : Claims(e, k, i)' => Claims(e, k, i)
  BY <1>1 DEF Begun, Doctor, Begin, Claims
<1> QED
  BY <1>3, <1>4, <1>5, ActingFacts DEF Keeps, Placed, Doctor, Begin

\* A join makes a key that nobody has.
LEMMA JoinKeeps ==
  ASSUME NEW e \in Edges, Acting(e), Join(e)
  PROVE  /\ Placed(e)' /\ tokens' = tokens /\ minted' = minted + 1
         /\ \E i \in Names : \A k, j \in Names :
              Claims(e, k, j)' => Claims(e, k, j) \/ (k = minted + 1 /\ j = i)
<1>1. PICK o \in tokens : Begun(e, "join", JoinSet, JoinConfigOf(o), NewKeys(e, o.psk))
  BY ActingFacts, JoinTyped DEF Acting
<1>2. /\ config[e] = NoConfig /\ Left(e)' = JoinSet
      /\ proc'[e].cmd = "join" /\ proc'[e].cfg = JoinConfigOf(o) /\ proc'[e].new = NewKeys(e, o.psk)
  BY <1>1 DEF Join, Begun
<1>3. {"link", "save", "keys"} \subseteq JoinSet /\ "wipe" \notin JoinSet
  BY DEF JoinSet, Acting
<1>4. Running(e)' /\ Ready(e)'
  BY <1>2, <1>3, AnsweredStays, ActingFacts DEF Join, Begin, Acting, Placed, Running, Ready, Answered
<1>5. Joining(e)' /\ Probing(e)'
  BY <1>2, <1>3 DEF Join, Begin, Joining, Probing, JoinConfigOf
<1>6. o.id \in Names
  BY Types, Records DEF Acting, Spoken
<1>7. \A k, j \in Names : Claims(e, k, j)' => Claims(e, k, j) \/ (k = minted + 1 /\ j = o.id)
  BY <1>2 DEF Join, Begin, Claims, NewKeys, FreshKey, JoinConfigOf
<1> QED
  BY <1>4, <1>5, <1>6, <1>7, ActingFacts DEF Placed, Join, Begin

----------------------------------------------------------------------------
(***************************************************************************)
(* Paired is kept.                                                         *)
(***************************************************************************)

LEMMA ActsKeeps ==
  ASSUME NEW e \in Edges, Acting(e), "ignoredFails" \notin Faults, Acts(e), ~Join(e)
  PROVE  Keeps(e)
<1>1. CASE Step(e)
  BY <1>1, PlainKeeps, GenerateKeysKeeps, WriteLinkKeeps, SaveConfigKeeps, StartLinkKeeps, WriteTokenKeeps,
     TakeDownKeeps, RemoveLinkKeeps, WipeKeeps DEF Step
<1>2. CASE ~Step(e)
  BY <1>2, PlainKeeps, DoctorKeeps, ProbeKeeps, UninstallKeeps, ManageLinkKeeps, FailStepKeeps, RebootKeeps
     DEF Acts
<1> QED
  BY <1>1, <1>2

\* The gateway's own token is an offer.
LEMMA OffersStay ==
  ASSUME Typed, Next, token[Gateway] # None => token[Gateway].kind = "offer"
  PROVE  token'[Gateway] # None => token'[Gateway].kind = "offer"
<1>1. token \in [Hosts -> Spoken \cup {None}] /\ Gateway \in Hosts
  BY Types DEF Hosts
<1>2. ASSUME NEW h \in Hosts, WriteToken(h)
      PROVE  token'[Gateway] = token[Gateway] \/ token'[Gateway].kind = "offer"
  BY <1>1, <1>2 DEF WriteToken
<1>3. ASSUME NEW h \in Hosts, Wipe(h)
      PROVE  token'[Gateway] \in {token[Gateway], None}
  BY <1>1, <1>3 DEF Wipe
<1>4. CASE \E h \in Hosts : WriteToken(h) \/ Wipe(h)
  BY <1>2, <1>3, <1>4
<1>5. CASE ~\E h \in Hosts : WriteToken(h) \/ Wipe(h)
  <2>1. token' = token
    BY <1>5 DEF Next, Step, InitOutside, Join, Accept, Uninstall, Doctor, Begin, CheckConflicts,
       GenerateKeys, PrepareMTLS, WriteLink, AuthorizePeer, SaveConfig, StartLink, ScrubMTLS, PrintToken,
       TakeDown, RevokePeers, RemoveLink, Probe, ShowToken, ManageLink, Kill, FailStep, Reboot
  <2> QED
    BY <2>1
<1> QED
  BY <1>4, <1>5

\* A response that is shown is a claim of the edge that shows it.
LEMMA ShownIsClaimed ==
  ASSUME Typed, Paired, Next, NEW r \in tokens', r.kind = "response"
  PROVE  r \in tokens \/ \E e \in Edges : r.key \in Names /\ r.id \in Names /\ Claims(e, r.key, r.id)
<1>1. CASE r \notin tokens
  <2>1. PICK h \in Hosts : token[h] \in Spoken /\ r = token[h]
    BY <1>1, TokensGrow
  <2>2. r # None /\ r.key \in Names /\ r.id \in Names
    BY <2>1, Records, NoTokenAssumption DEF Tokens
  <2>3. h # Gateway
    BY <2>1, <2>2 DEF Paired
  <2> QED
    BY <2>1, <2>2, <2>3 DEF Claims, Hosts
<1> QED
  BY <1>1

LEMMA NextPaired ==
  ASSUME "ignoredFails" \notin Faults, Trusted, Paired, mode # "ipip", Next
  PROVE  Paired'
<1>1. /\ Typed /\ Typed' /\ mode' = mode /\ tokens \subseteq tokens'
      /\ minted' \in {minted, minted + 1} /\ minted \in Nat /\ Ids \subseteq Ids'
  <2>1. Typed /\ Typed' /\ mode' = mode /\ tokens \subseteq tokens' /\ minted \in Nat
    BY NextTyped, TokensGrow, Records DEF Trusted, Next
  <2>2. minted' \in {minted, minted + 1}
    BY DEF Next, Step, InitOutside, Join, Accept, Uninstall, Doctor, Begin, CheckConflicts, WriteToken, Wipe,
       GenerateKeys, PrepareMTLS, WriteLink, AuthorizePeer, SaveConfig, StartLink, ScrubMTLS, PrintToken,
       TakeDown, RevokePeers, RemoveLink, Probe, ShowToken, ManageLink, Kill, FailStep, Reboot
  <2> QED
    BY <2>1, <2>2, MoreIds
<1>2. \A e \in Edges : Acting(e) /\ Placed(e)
  BY <1>1 DEF Acting, Paired
<1>3. \A e \in Edges : Join(e) \/ Keeps(e)
  BY <1>1, <1>2, OnlyOwnActs, ActsKeeps, SameKeeps
<1>4. \A e \in Edges : Placed(e)'
  BY <1>2, <1>3, JoinKeeps DEF Keeps
<1>5. \A r \in tokens' : r.kind = "response" =>
        r \in tokens \/ \E e \in Edges : r.key \in Names /\ r.id \in Names /\ Claims(e, r.key, r.id)
  BY <1>1, ShownIsClaimed
<1>6. \A r \in tokens' : r.kind = "response" => r.key \in Ids
  BY <1>5 DEF Paired
<1>7. PICK n : n = minted + 1
  OBVIOUS
<1>8. n \notin Ids
  BY <1>1, <1>7 DEF Ids
\* What is claimed now was claimed before, or is the new key of the one edge that joins.
<1>9. ASSUME NEW e \in Edges, NEW k \in Names, NEW i \in Names, Claims(e, k, i)'
      PROVE  Claims(e, k, i) \/ (Join(e) /\ k = n)
  BY <1>2, <1>3, <1>7, <1>9, JoinKeeps DEF Keeps
<1>10. ASSUME NEW e \in Edges, Join(e), NEW k \in Names, NEW i \in Names, NEW j \in Names,
              Claims(e, k, i)', Claims(e, k, j)', k = n
       PROVE  i = j
  <2>1. ~Claims(e, k, i) /\ ~Claims(e, k, j)
    BY <1>8, <1>10 DEF Paired
  <2> QED
    BY <1>2, <1>10, <2>1, JoinKeeps
<1>11. ASSUME NEW e \in Edges, NEW f \in Edges, Join(e), Join(f)
       PROVE  e = f
  <2>1. Same(f) \/ Acts(f)
    BY <1>1, OnlyOwnActs
  <2>2. proc'[e].cmd = "join" /\ proc[e] = Free /\ proc'[f].cmd = "join" /\ proc[f] = Free
    BY <1>1, <1>11, JoinTyped DEF Join, Begin, Begun
  <2>3. f # e => proc'[f] = proc[f]
    BY <1>1, <1>11, JoinTyped DEF Begun, Hosts
  <2> QED
    BY <2>2, <2>3, FreeRuns
<1>12. ASSUME NEW e \in Edges, NEW k \in Names, NEW i \in Names, Claims(e, k, i)'
       PROVE  /\ k \in Ids'
              /\ \A r \in tokens' : r.kind = "response" /\ r.key = k => r.id = i
              /\ \A f \in Edges : \A j \in Names : Claims(f, k, j)' => e = f /\ i = j
  <2>1. CASE Claims(e, k, i)
    <3>1. k \in Ids /\ k # n
      BY <1>8, <2>1 DEF Paired
    <3>2. \A r \in tokens' : r.kind = "response" /\ r.key = k => r.id = i
      BY <1>5, <2>1 DEF Paired
    <3>3. \A f \in Edges : \A j \in Names : Claims(f, k, j)' => e = f /\ i = j
      BY <1>9, <2>1, <3>1 DEF Paired
    <3> QED
      BY <1>1, <3>1, <3>2, <3>3
  <2>2. CASE Join(e) /\ k = n
    <3>1. k \in Ids'
      BY <1>1, <1>2, <1>7, <2>2, JoinKeeps DEF Ids
    <3>2. \A r \in tokens' : r.kind = "response" => r.key # k
      BY <1>6, <1>8, <2>2
    <3>3. ASSUME NEW f \in Edges, NEW j \in Names, Claims(f, k, j)'
          PROVE  e = f /\ i = j
      <4>1. ~Claims(f, k, j)
        BY <1>8, <2>2 DEF Paired
      <4>2. Join(f)
        BY <1>9, <3>3, <4>1
      <4>3. e = f
        BY <1>11, <2>2, <4>2
      <4> QED
        BY <1>10, <1>12, <2>2, <3>3, <4>3
    <3> QED
      BY <3>1, <3>2, <3>3
  <2> QED
    BY <1>9, <1>12, <2>1, <2>2
<1>13. token'[Gateway] # None => token'[Gateway].kind = "offer"
  BY <1>1, OffersStay DEF Paired
<1>14. \A r \in tokens' : r.kind = "response" => r.key \in Ids'
  BY <1>1, <1>6
<1> QED
  BY <1>4, <1>12, <1>13, <1>14 DEF Paired

LEMMA InitPaired == Init => Paired
<1> SUFFICES ASSUME Init PROVE Paired
  OBVIOUS
<1>1. /\ Typed /\ Gateway \in Hosts /\ Edges \subseteq Hosts /\ tokens = {} /\ token[Gateway] = None
      /\ \A e \in Edges : /\ up[e] = NoLink /\ e \notin enabled /\ token[e] = None
                          /\ config[e] = NoConfig /\ proc[e] = Free
  BY InitTyped DEF Init, Hosts
<1>2. ASSUME NEW e \in Edges
      PROVE  Placed(e) /\ \A k, i \in Names : ~Claims(e, k, i)
  <2>1. Left(e) = {} /\ NoConfig.state = "none"
    BY <1>1, FreeIsOrderly DEF NoConfig
  <2>2. Running(e) /\ Ready(e) /\ Joining(e) /\ Probing(e)
    BY <1>1, <2>1, FreeRuns DEF Running, Ready, Joining, Probing
  <2> QED
    BY <1>1, <2>2, FreeRuns DEF Placed, Claims
<1> QED
  BY <1>1, <1>2 DEF Paired

----------------------------------------------------------------------------
(***************************************************************************)
(* One peer at a time.                                                     *)
(***************************************************************************)

\* authorizeSSHPeer leaves the one entry of the instance, and an IPIP link is
\* named by the address of its host.
Single ==
  /\ \A a, b \in authorized : a = b
  /\ mode = "ipip" => \A e \in Edges : /\ link[e] # NoLink => link[e].own = e
                                       /\ up[e] # NoLink => up[e].own = e

LEMMA NextSingle ==
  ASSUME Trusted, Next, Single
  PROVE  Single'
<1>1. /\ Typed /\ mode' = mode /\ Edges \subseteq Hosts
      /\ link \in [Hosts -> Links] /\ up \in [Hosts -> Links]
  BY Types DEF Trusted, Next, Hosts
<1>2. \A a, b \in authorized' : a = b
  <2>1. CASE AuthorizePeer
    <3>1. proc[Gateway].cmd = "accept"
      BY <1>1, <2>1, AtHead, Owners DEF AuthorizePeer, Hosts
    <3>2. \A a \in authorized : a.id = proc[Gateway].cfg.id
      BY <3>1 DEF Trusted, Cleared, Accepting
    <3> QED
      BY <2>1, <3>2 DEF AuthorizePeer
  <2>2. CASE ~AuthorizePeer
    <3>1. authorized' \in {authorized, {}}
      BY <2>2 DEF Next, Step, InitOutside, Join, Accept, Uninstall, Doctor, Begin, CheckConflicts,
       GenerateKeys, PrepareMTLS, WriteLink, SaveConfig, StartLink, WriteToken, ScrubMTLS, PrintToken, Wipe,
       TakeDown, RevokePeers, RemoveLink, Probe, ShowToken, ManageLink, Kill, FailStep, Reboot
    <3> QED
      BY <3>1 DEF Single
  <2> QED
    BY <2>1, <2>2
<1>3. ASSUME mode = "ipip", NEW e \in Edges
      PROVE  /\ link'[e] \in {link[e], NoLink} \/ link'[e].own = e
             /\ up'[e] \in {up[e], NoLink, link[e]}
  <2>1. Same(e) \/ Acts(e)
    BY <1>1, OnlyOwnActs
  <2>2. CASE Same(e)
    BY <2>2 DEF Same
  <2>3. CASE WriteLink(e)
    BY <1>1, <1>3, <2>3 DEF WriteLink, Identity, WG
  <2>4. CASE StartLink(e) \/ TakeDown(e) \/ RemoveLink(e) \/ ManageLink(e) \/ FailStep(e) \/ Reboot(e)
    BY <1>1, <1>3, <2>4 DEF StartLink, TakeDown, RemoveLink, ManageLink, FailStep, Reboot
  <2>5. CASE ~(WriteLink(e) \/ StartLink(e) \/ TakeDown(e) \/ RemoveLink(e) \/ ManageLink(e) \/ FailStep(e)
               \/ Reboot(e)) /\ Acts(e)
    <3>1. link' = link /\ up' = up
      BY <2>5 DEF Acts, Step, Join, Uninstall, Doctor, Begin, CheckConflicts, GenerateKeys, SaveConfig,
       WriteToken, PrintToken, Wipe, RevokePeers, Probe, ShowToken, Kill
    <3> QED
      BY <3>1
  <2> QED
    BY <2>1, <2>2, <2>3, <2>4, <2>5
<1> QED
  BY <1>1, <1>2, <1>3 DEF Single

LEMMA OnePeerSingle ==
  ASSUME Trusted, Single, mode # "ipip" => Paired
  PROVE  OnePeer
<1> SUFFICES ASSUME NEW e \in Edges, NEW f \in Edges, Connected(e), Connected(f) PROVE e = f
  BY DEF OnePeer
<1>1. CASE mode = "ipip"
  BY <1>1 DEF Connected, Single
<1>2. CASE mode # "ipip"
  <2>1. up[e].own = up[f].own
    <3>1. CASE mode = "ssh"
      BY <3>1 DEF Connected, Single
    <3>2. CASE mode # "ssh"
      BY <3>2 DEF Connected
    <3> QED
      BY <3>1, <3>2
  <2>2. /\ Claims(e, up[e].own, config[e].id) /\ Claims(f, up[f].own, config[f].id)
        /\ up[e].own \in Names /\ config[e].id \in Names /\ config[f].id \in Names
    BY <1>2, ThroughToItsOwn
  <2> QED
    BY <1>2, <2>1, <2>2 DEF Paired
<1> QED
  BY <1>1, <1>2

----------------------------------------------------------------------------
(***************************************************************************)
(* The theorems.                                                           *)
(***************************************************************************)

KeysInv == Trusted /\ (mode # "ipip" => Paired) /\ Single

LEMMA InitKeys == Init => KeysInv
  BY InitTrusted, InitPaired DEF Init, KeysInv, Single, Hosts

LEMMA NextKeys ==
  ASSUME "ignoredFails" \notin Faults, KeysInv, [Next]_vars
  PROVE  KeysInv'
<1>1. Trusted'
  BY NextTrusted DEF KeysInv
<1>2. CASE Next
  BY <1>1, <1>2, NextPaired, NextSingle DEF KeysInv, Next
<1>3. CASE UNCHANGED vars
  <2>1. Single' /\ mode' = mode
    BY <1>3 DEF vars, KeysInv, Single
  <2>2. \A e \in Edges : Same(e)
    BY <1>3 DEF vars, Same, Left
  <2>3. mode # "ipip" => \A e \in Edges : Keeps(e)
    BY <1>3, <2>2, SameKeeps DEF vars, KeysInv, Paired
  <2>4. mode # "ipip" => Paired'
    BY <1>3, <2>3 DEF vars, KeysInv, Keeps, Paired, Ids
  <2> QED
    BY <1>1, <2>1, <2>4 DEF KeysInv
<1> QED
  BY <1>2, <1>3

\* Packets pass only between ends of the same instance.
\* (generateWGKeys, writeWireGuard, Accept.)
THEOREM LinksSameInstance == "ignoredFails" \notin Faults => (Spec => []LinkedSameInstance)
<1> SUFFICES ASSUME "ignoredFails" \notin Faults PROVE Spec => []LinkedSameInstance
  OBVIOUS
<1>1. KeysInv /\ [Next]_vars => KeysInv'
  BY NextKeys
<1>2. KeysInv => LinkedSameInstance
  BY ThroughToItsOwn DEF KeysInv, LinkedSameInstance, WG
<1> QED
  BY InitKeys, <1>1, <1>2, PTL DEF Spec

\* No two edges get through to the gateway at once, in any of the modes.
\* (authorizeSSHPeer, writeWireGuard, the IPIP script.)
THEOREM AdmitsOnePeer == "ignoredFails" \notin Faults => (Spec => []OnePeer)
<1> SUFFICES ASSUME "ignoredFails" \notin Faults PROVE Spec => []OnePeer
  OBVIOUS
<1>1. KeysInv /\ [Next]_vars => KeysInv'
  BY NextKeys
<1>2. KeysInv => OnePeer
  BY OnePeerSingle DEF KeysInv
<1> QED
  BY InitKeys, <1>1, <1>2, PTL DEF Spec

\* Where keys are made for each instance, an edge that calls itself ready has
\* had its response accepted.  (Doctor.)
THEOREM ReadyWasAnswered ==
  "ignoredFails" \notin Faults /\ "ipip" \notin Modes => (Spec => []ReadyEdgeAnswered)
<1> SUFFICES ASSUME "ignoredFails" \notin Faults, "ipip" \notin Modes PROVE Spec => []ReadyEdgeAnswered
  OBVIOUS
<1>1. KeysInv /\ [Next]_vars => KeysInv'
  BY NextKeys
<1>2. KeysInv => ReadyEdgeAnswered
  <2> SUFFICES ASSUME KeysInv PROVE ReadyEdgeAnswered
    OBVIOUS
  <2>1. mode # "ipip"
    BY DEF KeysInv, Trusted, Typed, TypeOK
  <2> QED
    BY <2>1 DEF KeysInv, Paired, Placed, Ready, Answered, ReadyEdgeAnswered
<1> QED
  BY InitKeys, <1>1, <1>2, PTL DEF Spec

----------------------------------------------------------------------------
(***************************************************************************)
(* The token on disk is that of the configuration, as long as no kill or   *)
(* reboot cuts a wipe short before it has come to the token.               *)
(***************************************************************************)

\* A command that makes an instance writes its token after its configuration,
\* over no other token; only a wipe that is under way may leave them apart.
CurrentAt(h) ==
  LET left == Left(h) IN
  /\ Makes(h) =>
       /\ "save" \notin left => config[h] = proc[h].cfg
       /\ "save" \in left /\ "wipe" \notin left => config[h] = NoConfig
       /\ "token" \in left \/ left \subseteq {"scrub", "print"}
       /\ "token" \in left /\ "wipe" \notin left => token[h] = None
  /\ proc[h].cmd \in {"accept", "doctor"} => config[h].id = proc[h].cfg.id
  /\ ~At(h, "wipe") =>
       /\ config[h] = NoConfig => token[h] = None
       /\ token[h] # None => token[h].id = config[h].id /\ token[h].key = Identity(h)

\* What a step does to one host does not depend on the state of another.
StaysCurrent == \A h \in Hosts : CurrentAt(h) => CurrentAt(h)'

LEMMA DoneLeaves ==
  ASSUME Typed, mode' = mode, NEW h \in Hosts, NEW step, At(h, step), Done(h)
  PROVE  Left(h)' = Left(h) \ {step} /\ (Left(h)' = {} => proc'[h] = Free)
<1> DEFINE left == proc[h].left
<1>1. /\ left \in Seq(StepNames) /\ left # << >> /\ left[1] = step /\ Len(left) \in Nat /\ 1 <= Len(left)
      /\ proc \in [Hosts -> Runs]
  BY DEF Typed, At, Runs
<1>2. CASE Tail(left) = << >>
  <2>1. Len(left) = 1
    <3>1. Tail(left) \in Seq(StepNames) /\ Len(Tail(left)) = Len(left) - 1
      BY <1>1
    <3>2. PICK t \in Seq(StepNames) : t = Tail(left)
      BY <3>1
    <3>3. Len(t) = 0
      BY <1>2, <3>2
    <3> QED
      BY <1>1, <3>1, <3>2, <3>3
  <2>2. Left(h) = {step}
    BY <1>1, <2>1 DEF Left
  <2>3. proc'[h] = Free
    BY <1>1, <1>2 DEF Done
  <2>4. Left(h)' = {}
    BY <2>3, FreeRuns DEF Left
  <2> QED
    BY <2>2, <2>3, <2>4
<1>3. CASE Tail(left) # << >>
  <2>1. PICK r : r = [proc[h] EXCEPT !.left = Tail(left)]
    OBVIOUS
  <2>2. proc[h] \in [cmd : {"none", "init", "join", "accept", "uninstall", "doctor"},
                     left : Seq(StepNames), cfg : Configs, new : KeyPairs]
    BY <1>1 DEF Runs
  <2>3. r.left = Tail(left) /\ r.cmd = proc[h].cmd
    BY <2>1, <2>2
  <2>4. proc'[h] = r
    BY <1>1, <1>3, <2>1 DEF Done
  <2>5. Tail(left) \in Seq(StepNames) /\ Tail(left) # << >>
    BY <1>1, <1>3
  <2>6. Tail(left)[1] \in Left(h)'
    <3>1. 1 \in 1 .. Len(Tail(left))
      BY <2>5
    <3> QED
      BY <2>3, <2>4, <3>1 DEF Left
  <2>7. proc[h].cmd # "none"
    BY <1>1, AtHead
  <2>8. Moved(h, step)
    BY DoneMoves
  <2> QED
    BY <2>3, <2>4, <2>6, <2>7, <2>8, FreeRuns DEF Moved
<1> QED
  BY <1>2, <1>3

\* Of a host that does nothing.
LEMMA StillCurrent ==
  ASSUME mode' = mode, NEW h \in Hosts, CurrentAt(h), proc'[h] = proc[h], Left(h)' = Left(h),
         config'[h] = config[h], secrets'[h] = secrets[h], token'[h] = token[h]
  PROVE  CurrentAt(h)'
  BY DEF CurrentAt, Makes, Identity, WG, At

\* A step of h that changes neither of the two, and ends no wipe.
LEMMA QuietCurrent ==
  ASSUME Typed, mode' = mode, NEW h \in Hosts, NEW step, Moved(h, step),
         step \notin {"save", "token", "wipe"}, "wipe" \in Left(h) => "wipe" \in Left(h)',
         ~At(h, "wipe"),
         config' = config, secrets' = secrets, token' = token
  PROVE  StaysCurrent
<1>1. ASSUME NEW g \in Hosts, g # h, CurrentAt(g) PROVE CurrentAt(g)'
  BY <1>1, StillCurrent DEF Moved
<1>2. ASSUME CurrentAt(h) PROVE CurrentAt(h)'
  <2>1. CurrentAt(h) /\ Identity(h)' = Identity(h)
    BY <1>2 DEF Identity, WG
  <2>2. CASE proc'[h] = Free /\ Left(h)' = {}
    BY <2>1, <2>2, FreeRuns DEF CurrentAt, Makes
  <2>3. CASE /\ proc'[h].cmd = proc[h].cmd /\ proc'[h].cfg = proc[h].cfg
             /\ Left(h)' = Left(h) \ {step}
    BY <2>1, <2>3 DEF CurrentAt, Makes
  <2> QED
    BY <2>2, <2>3 DEF Moved
<1> QED
  BY <1>1, <1>2 DEF StaysCurrent

LEMMA BegunCurrent ==
  ASSUME Typed, mode' = mode, NEW h \in Hosts, proc[h] = Free,
         NEW cmd, NEW S, NEW cfg, NEW new, Begun(h, cmd, S, cfg, new),
         config' = config, secrets' = secrets, token' = token,
         cmd \in {"init", "join"} => /\ {"save", "token"} \subseteq S
                                     /\ "wipe" \in S \/ config[h] = NoConfig,
         cmd \in {"accept", "doctor"} => cfg.id = config[h].id
  PROVE  StaysCurrent
<1>1. ASSUME NEW g \in Hosts, g # h, CurrentAt(g) PROVE CurrentAt(g)'
  BY <1>1, StillCurrent DEF Begun
<1>2. ASSUME CurrentAt(h) PROVE CurrentAt(h)'
  <2>1. CurrentAt(h) /\ Left(h) = {} /\ Identity(h)' = Identity(h) /\ ~At(h, "wipe")
    BY <1>2, FreeIsOrderly, FreeRuns DEF Identity, WG, At
  <2> QED
    BY <2>1 DEF Begun, CurrentAt, Makes
<1> QED
  BY <1>1, <1>2 DEF StaysCurrent

LEMMA CommandsCurrent ==
  ASSUME Typed, mode' = mode,
         \/ InitOutside \/ Accept
         \/ \E e \in Edges : Join(e) \/ Doctor(e)
         \/ \E h \in Hosts : Uninstall(h)
  PROVE  StaysCurrent
<1>1. Gateway \in Hosts /\ Edges \subseteq Hosts
  BY DEF Hosts
<1>2. CASE InitOutside
  <2>1. PICK S \in {InitSet, UninstallSet \cup InitSet} :
          /\ Begun(Gateway, "init", S, InitConfig, NewKeys(Gateway, FreshKey(Gateway)))
          /\ S = InitSet => config[Gateway] = NoConfig
    BY <1>2, InitOutsideTyped
  <2>2. {"save", "token"} \subseteq S /\ ("wipe" \in S \/ config[Gateway] = NoConfig)
    BY <2>1 DEF InitSet, UninstallSet
  <2>3. proc[Gateway] = Free /\ config' = config /\ secrets' = secrets /\ token' = token
    BY <1>2 DEF InitOutside, Begin
  <2>4. "init" \notin {"accept", "doctor"}
    OBVIOUS
  <2> QED
    BY <1>1, <2>1, <2>2, <2>3, <2>4, BegunCurrent
<1>3. CASE Accept
  <2>1. PICK c : c.id = config[Gateway].id /\ Begun(Gateway, "accept", AcceptSet, c, NoSecrets)
    BY <1>3, AcceptTyped
  <2>2. proc[Gateway] = Free /\ config' = config /\ secrets' = secrets /\ token' = token
    BY <1>3 DEF Accept, Begin
  <2>3. "accept" \notin {"init", "join"}
    OBVIOUS
  <2> QED
    BY <1>1, <2>1, <2>2, <2>3, BegunCurrent
<1>4. ASSUME NEW e \in Edges, Join(e) PROVE StaysCurrent
  <2>1. PICK o : Begun(e, "join", JoinSet, JoinConfigOf(o), NewKeys(e, o.psk))
    BY <1>4, JoinTyped
  <2>2. /\ config[e] = NoConfig /\ {"save", "token"} \subseteq JoinSet
        /\ proc[e] = Free /\ config' = config /\ secrets' = secrets /\ token' = token
    BY <1>4 DEF Join, Begin, JoinSet
  <2>3. "join" \notin {"accept", "doctor"}
    OBVIOUS
  <2> QED
    BY <1>1, <2>1, <2>2, <2>3, BegunCurrent
<1>5. ASSUME NEW e \in Edges, Doctor(e) PROVE StaysCurrent
  <2>1. PICK c : c.id = config[e].id /\ Begun(e, "doctor", {"probe", "save"}, c, NoSecrets)
    BY <1>5, DoctorTyped
  <2>2. proc[e] = Free /\ config' = config /\ secrets' = secrets /\ token' = token
    BY <1>5 DEF Doctor, Begin
  <2>3. "doctor" \notin {"init", "join"}
    OBVIOUS
  <2> QED
    BY <1>1, <2>1, <2>2, <2>3, BegunCurrent
<1>6. ASSUME NEW h \in Hosts, Uninstall(h) PROVE StaysCurrent
  <2>1. Begun(h, "uninstall", UninstallSet, config[h], NoSecrets)
    BY <1>6, UninstallTyped
  <2>2. proc[h] = Free /\ config' = config /\ secrets' = secrets /\ token' = token
    BY <1>6 DEF Uninstall, Begin
  <2>3. "uninstall" \notin {"init", "join", "accept", "doctor"}
    OBVIOUS
  <2> QED
    BY <2>1, <2>2, <2>3, BegunCurrent
<1> QED
  BY <1>2, <1>3, <1>4, <1>5, <1>6

LEMMA LeftNames ==
  ASSUME Typed, NEW h \in Hosts
  PROVE  Left(h) \subseteq StepNames
<1>1. proc[h].left \in Seq(StepNames)
  BY DEF Typed, Runs
<1> QED
  BY <1>1 DEF Left

\* The head of the list comes after all of the uninstalling.
LEMMA PastWiping ==
  ASSUME Typed, NEW h \in Hosts, NEW step \in StepNames \ UninstallSet, At(h, step)
  PROVE  "wipe" \notin Left(h) /\ ~At(h, "wipe")
<1>1. step \in {"check", "probe", "keys", "mtls", "link", "authorize", "save", "activate", "restart", "token",
                "scrub", "print"}
  BY DEF StepNames, UninstallSet
<1>2. ASSUME NEW cmd PROVE ~(Rank(cmd, step) < Rank(cmd, "wipe"))
  BY <1>1 DEF Rank
<1> QED
  BY <1>1, <1>2, AtHead DEF At

LEMMA QuietStepsCurrent ==
  ASSUME Typed, mode' = mode, NEW h \in Hosts,
         \/ CheckConflicts(h) \/ WriteLink(h) \/ StartLink(h) \/ PrintToken(h) \/ Probe(h) \/ FailStep(h)
         \/ (h = Gateway /\ (PrepareMTLS \/ ScrubMTLS \/ AuthorizePeer))
  PROVE  StaysCurrent
<1>1. config' = config /\ secrets' = secrets /\ token' = token
  BY DEF CheckConflicts, WriteLink, StartLink, PrintToken, Probe, FailStep, PrepareMTLS, ScrubMTLS, AuthorizePeer
<1>2. PICK step : /\ step \notin {"save", "token", "wipe"} /\ Moved(h, step)
  BY CheckConflictsTyped, WriteLinkTyped, StartLinkTyped, PrintTokenTyped, ProbeTyped, FailStepTyped,
     PrepareMTLSTyped, ScrubMTLSTyped, AuthorizePeerTyped
<1>3. \E s \in StepNames \ UninstallSet : At(h, s)
  <2>1. CASE FailStep(h)
    BY <2>1 DEF FailStep, StepNames, UninstallSet
  <2>2. CASE ~FailStep(h)
    <3>1. \E s \in {"check", "link", "activate", "restart", "print", "probe", "mtls", "scrub", "authorize"} :
            At(h, s)
      BY <2>2 DEF CheckConflicts, WriteLink, StartLink, PrintToken, Probe, PrepareMTLS, ScrubMTLS, AuthorizePeer
    <3> QED
      BY <3>1 DEF StepNames, UninstallSet
  <2> QED
    BY <2>1, <2>2
<1>4. "wipe" \notin Left(h) /\ ~At(h, "wipe")
  BY <1>3, PastWiping
<1> QED
  BY <1>1, <1>2, <1>4, QuietCurrent

LEMMA OtherStepsCurrent ==
  ASSUME Typed, mode' = mode, NEW h \in Hosts,
         TakeDown(h) \/ RevokePeers(h) \/ RemoveLink(h) \/ ShowToken(h) \/ ManageLink(h)
  PROVE  StaysCurrent
<1>1. config' = config /\ secrets' = secrets /\ token' = token
  BY DEF TakeDown, RevokePeers, RemoveLink, ShowToken, ManageLink
<1>2. CASE TakeDown(h) \/ RevokePeers(h) \/ RemoveLink(h)
  <2>1. PICK step \in {"down", "revoke", "unlink"} : At(h, step) /\ Done(h)
    BY <1>2 DEF TakeDown, RevokePeers, RemoveLink
  <2>2. Moved(h, step) /\ Left(h)' = Left(h) \ {step} /\ ~At(h, "wipe")
    BY <2>1, DoneMoves, DoneLeaves DEF At
  <2> QED
    BY <1>1, <2>1, <2>2, QuietCurrent
<1>3. CASE ShowToken(h) \/ ManageLink(h)
  <2>1. Moved(h, "nothing") /\ Left(h)' = Left(h)
    BY <1>3, ShowTokenTyped, ManageLinkTyped DEF Left
  <2>2. ~At(h, "wipe")
    BY <1>3, FreeRuns DEF ShowToken, ManageLink, At
  <2> QED
    BY <1>1, <2>1, <2>2, QuietCurrent
<1> QED
  BY <1>2, <1>3

LEMMA GenerateKeysCurrent ==
  ASSUME Typed, mode' = mode, NEW h \in Hosts, GenerateKeys(h)
  PROVE  StaysCurrent
<1>1. Moved(h, "keys") /\ At(h, "keys") /\ secrets \in [Hosts -> KeyPairs]
  BY GenerateKeysTyped, Types DEF GenerateKeys
<1>2. "keys" \in Left(h) /\ Makes(h) /\ "wipe" \notin Left(h)
  BY <1>1, AtHead, Owners, PastWiping DEF Makes, StepNames, UninstallSet
<1>3. "keys" \notin {"scrub", "print"}
  OBVIOUS
<1>4. ASSUME CurrentAt(h) PROVE CurrentAt(h)'
  <2>1. token[h] = None
    BY <1>2, <1>3, <1>4 DEF CurrentAt
  <2> QED
    BY <1>1, <1>2, <1>4, <2>1, FreeRuns DEF GenerateKeys, CurrentAt, Moved, Makes
<1>5. ASSUME NEW g \in Hosts, g # h, CurrentAt(g) PROVE CurrentAt(g)'
  BY <1>1, <1>5, StillCurrent DEF GenerateKeys, Moved
<1> QED
  BY <1>4, <1>5 DEF StaysCurrent

\* Of the steps that are left, few come after the token.
LEMMA TokenIsLate ==
  ASSUME Typed, NEW h \in Hosts, At(h, "token")
  PROVE  Left(h) \subseteq {"token", "scrub", "print"}
<1>1. ASSUME NEW t \in Left(h), t # "token" PROVE t \in {"scrub", "print"}
  <2>1. t \in StepNames /\ Rank(proc[h].cmd, "token") < Rank(proc[h].cmd, t)
    BY <1>1, LeftNames, AtHead
  <2>2. 12 < Rank(proc[h].cmd, t)
    BY <2>1 DEF Rank
  <2> QED
    BY <2>1, <2>2 DEF StepNames, Rank
<1> QED
  BY <1>1

LEMMA WriteTokenCurrent ==
  ASSUME Typed, mode' = mode, NEW h \in Hosts, WriteToken(h)
  PROVE  StaysCurrent
<1>1. Moved(h, "token") /\ At(h, "token") /\ token \in [Hosts -> Spoken \cup {None}]
  BY WriteTokenTyped, Types DEF WriteToken
<1>2. Makes(h) /\ "wipe" \notin Left(h)
  BY <1>1, AtHead, Owners, PastWiping DEF Makes, StepNames, UninstallSet
<1>3. Left(h) \subseteq {"token", "scrub", "print"}
  BY <1>1, TokenIsLate
<1>4. ASSUME CurrentAt(h) PROVE config[h] = proc[h].cfg /\ config[h] # NoConfig
  BY <1>2, <1>3, <1>4 DEF CurrentAt, Typed, Keyed
<1>5. token'[h].id = proc[h].cfg.id /\ token'[h].key = Identity(h)
  BY <1>1 DEF WriteToken
<1>6. ASSUME CurrentAt(h) PROVE CurrentAt(h)'
  <2>1. Left(h)' \subseteq {"scrub", "print"}
    BY <1>1, <1>3 DEF Moved
  <2>2. Identity(h)' = Identity(h) /\ config' = config
    BY DEF WriteToken, Identity, WG
  <2> QED
    BY <1>1, <1>2, <1>4, <1>5, <1>6, <2>1, <2>2, FreeRuns DEF CurrentAt, Moved, Makes
<1>7. ASSUME NEW g \in Hosts, g # h, CurrentAt(g) PROVE CurrentAt(g)'
  BY <1>1, <1>7, StillCurrent DEF WriteToken, Moved
<1> QED
  BY <1>6, <1>7 DEF StaysCurrent

LEMMA SaveConfigCurrent ==
  ASSUME Typed, mode' = mode, NEW h \in Hosts, SaveConfig(h)
  PROVE  StaysCurrent
<1>1. /\ Moved(h, "save") /\ At(h, "save") /\ config \in [Hosts -> Configs]
      /\ config'[h] = proc[h].cfg
  BY SaveConfigTyped, Types DEF SaveConfig
<1>2. /\ "save" \in Left(h) /\ "wipe" \notin Left(h) /\ ~At(h, "wipe")
      /\ proc[h].cmd \in {"init", "join", "accept", "doctor"}
  BY <1>1, AtHead, Owners, PastWiping DEF StepNames, UninstallSet
<1>3. Identity(h)' = Identity(h) /\ token' = token
  BY DEF SaveConfig, Identity, WG
<1>4. ASSUME CurrentAt(h) PROVE CurrentAt(h)'
  <2>1. CASE Makes(h)
    <3>1. token[h] = None
      BY <1>2, <1>4, <2>1 DEF CurrentAt
    <3> QED
      BY <1>1, <1>2, <1>3, <1>4, <2>1, <3>1, FreeRuns DEF CurrentAt, Moved, Makes
  <2>2. CASE proc[h].cmd \in {"accept", "doctor"}
    <3>1. config'[h].id = config[h].id
      BY <1>1, <1>4, <2>2 DEF CurrentAt
    <3>2. config'[h] = NoConfig => config[h] = NoConfig
      <4>1. config[h] \in Configs
        BY <1>1
      <4> QED
        BY <3>1, <4>1, Records
    <3> QED
      BY <1>1, <1>2, <1>3, <1>4, <2>2, <3>1, <3>2, FreeRuns DEF CurrentAt, Moved, Makes
  <2> QED
    BY <1>2, <2>1, <2>2 DEF Makes
<1>5. ASSUME NEW g \in Hosts, g # h, CurrentAt(g) PROVE CurrentAt(g)'
  BY <1>1, <1>5, StillCurrent DEF SaveConfig, Moved
<1> QED
  BY <1>4, <1>5 DEF StaysCurrent

LEMMA WipeCurrent ==
  ASSUME Typed, mode' = mode, NEW h \in Hosts, Wipe(h)
  PROVE  StaysCurrent
<1>1. /\ At(h, "wipe") /\ config \in [Hosts -> Configs] /\ secrets \in [Hosts -> KeyPairs]
      /\ token \in [Hosts -> Spoken \cup {None}]
  BY Types DEF Wipe
<1>2. "wipe" \in Left(h) /\ proc[h].cmd \in {"init", "uninstall"}
  BY <1>1, AtHead, Owners
<1>3. Makes(h) => {"save", "token"} \subseteq Left(h)
  BY <1>2 DEF Typed, Keyed, InitSet
<1>4. CASE proc' = proc
  <2>1. Left(h)' = Left(h) /\ \A g \in Hosts : Left(g)' = Left(g)
    BY <1>4 DEF Left
  <2>2. ASSUME CurrentAt(h) PROVE CurrentAt(h)'
    BY <1>1, <1>2, <1>3, <1>4, <2>1, <2>2 DEF CurrentAt, Makes, At
  <2>3. ASSUME NEW g \in Hosts, g # h, CurrentAt(g) PROVE CurrentAt(g)'
    BY <1>1, <1>4, <2>1, <2>3, StillCurrent DEF Wipe
  <2> QED
    BY <2>2, <2>3 DEF StaysCurrent
<1>5. CASE proc' # proc
  <2>1. /\ config[h] = NoConfig /\ token[h] = None /\ Done(h)
        /\ config' = config /\ secrets' = secrets /\ token' = token
    BY <1>5 DEF Wipe
  <2>2. Moved(h, "wipe")
    BY <1>1, <2>1, DoneMoves
  <2>3. ASSUME CurrentAt(h) PROVE CurrentAt(h)'
    BY <1>2, <1>3, <2>1, <2>2, <2>3, FreeRuns DEF CurrentAt, Moved, Makes
  <2>4. ASSUME NEW g \in Hosts, g # h, CurrentAt(g) PROVE CurrentAt(g)'
    BY <2>1, <2>2, <2>4, StillCurrent DEF Moved
  <2> QED
    BY <2>3, <2>4 DEF StaysCurrent
<1> QED
  BY <1>4, <1>5

\* A command that is cut short leaves the token as it is.
LEMMA EndCurrent ==
  ASSUME Typed, mode' = mode, NEW h \in Hosts, Kill(h) \/ Reboot(h), ~CutShort(h)
  PROVE  StaysCurrent
<1>1. /\ config' = config /\ secrets' = secrets /\ token' = token
      /\ proc \in [Hosts -> Runs] /\ proc' = [proc EXCEPT ![h] = Free]
  BY DEF Typed, Kill, Reboot, Return
<1>2. ASSUME CurrentAt(h) PROVE CurrentAt(h)'
  <2>1. proc'[h] = Free /\ Left(h)' = {} /\ Identity(h)' = Identity(h)
    BY <1>1, FreeRuns DEF Left, Identity, WG
  <2>2. At(h, "wipe") => token[h] = None
    BY <2>1 DEF CutShort
  <2> QED
    BY <1>1, <1>2, <2>1, <2>2, FreeRuns DEF CurrentAt, Makes
<1>3. ASSUME NEW g \in Hosts, g # h, CurrentAt(g) PROVE CurrentAt(g)'
  <2>1. proc'[g] = proc[g] /\ Left(g)' = Left(g)
    BY <1>1, <1>3 DEF Left
  <2> QED
    BY <1>1, <1>3, <2>1, StillCurrent
<1> QED
  BY <1>2, <1>3 DEF StaysCurrent

LEMMA NextCurrent ==
  ASSUME Typed, [Next]_vars, NEW h \in Hosts, CurrentAt(h), ~CutShort(h)
  PROVE  CurrentAt(h)'
<1>1. CASE UNCHANGED vars
  BY <1>1, StillCurrent DEF vars, Left
<1>2. CASE Next
  <2>1. mode' = mode /\ Gateway \in Hosts /\ Edges \subseteq Hosts
    BY <1>2 DEF Next, Hosts
  <2>2. ASSUME NEW g \in Hosts, Step(g) PROVE StaysCurrent
    BY <2>1, <2>2, QuietStepsCurrent, OtherStepsCurrent, GenerateKeysCurrent, WriteTokenCurrent,
       SaveConfigCurrent, WipeCurrent DEF Step
  <2>3. ASSUME NEW g \in Hosts, Kill(g) \/ Reboot(g) PROVE CurrentAt(h)'
    <3>1. CASE g = h
      BY <2>1, <2>3, <3>1, EndCurrent DEF StaysCurrent
    <3>2. CASE g # h
      <4>1. /\ config' = config /\ secrets' = secrets /\ token' = token
            /\ proc' = [proc EXCEPT ![g] = Free] /\ proc \in [Hosts -> Runs]
        BY <2>3 DEF Typed, Kill, Reboot, Return
      <4>2. proc'[h] = proc[h] /\ Left(h)' = Left(h)
        BY <3>2, <4>1 DEF Left
      <4> QED
        BY <2>1, <4>1, <4>2, StillCurrent
    <3> QED
      BY <3>1, <3>2
  <2>4. CASE StaysCurrent
    BY <2>4 DEF StaysCurrent
  <2> QED
    BY <1>2, <2>1, <2>2, <2>3, <2>4, CommandsCurrent, QuietStepsCurrent, OtherStepsCurrent DEF Next
<1> QED
  BY <1>1, <1>2

LEMMA InitCurrent == Init => \A h \in Hosts : CurrentAt(h)
<1> SUFFICES ASSUME Init, NEW h \in Hosts PROVE CurrentAt(h)
  OBVIOUS
<1>1. config[h] = NoConfig /\ token[h] = None /\ proc[h] = Free
  BY DEF Init
<1> QED
  BY <1>1, FreeRuns DEF CurrentAt, Makes

\* A host shows the token of its configuration and its keys, or none, though
\* steps may fail, errors of an uninstall be ignored, and any command be killed
\* or cut short by a reboot at any point but one: in a wipe that has not come to
\* the token.  (ShowPairingToken; the order of InitOutside, Join and Uninstall.)
THEOREM ShowsCurrentToken ==
  Spec /\ [][\A h \in Hosts : ~CutShort(h)]_vars => []TokenIsCurrent
<1> DEFINE Current == \A h \in Hosts : CurrentAt(h)
<1>1. Typed /\ Current /\ [Next]_vars /\ [\A h \in Hosts : ~CutShort(h)]_vars => Typed' /\ Current'
  <2> SUFFICES ASSUME Typed, Current, [Next]_vars, [\A h \in Hosts : ~CutShort(h)]_vars
               PROVE  Typed' /\ Current'
    OBVIOUS
  <2>1. CASE \A h \in Hosts : ~CutShort(h)
    BY <2>1, NextTyped, NextCurrent
  <2>2. CASE UNCHANGED vars
    BY <2>2, NextTyped, StillCurrent DEF vars, Left
  <2> QED
    BY <2>1, <2>2
<1>2. Current => TokenIsCurrent
  <2> SUFFICES ASSUME NEW h \in Hosts, CurrentAt(h), proc[h] = Free, token[h] # None
               PROVE  token[h].id = config[h].id /\ token[h].key = Identity(h)
    BY DEF TokenIsCurrent
  <2>1. ~At(h, "wipe")
    BY FreeRuns DEF At
  <2> QED
    BY <2>1 DEF CurrentAt
<1>3. Init => Current
  BY InitCurrent
<1> HIDE DEF Current
<1> QED
  BY InitTyped, <1>1, <1>2, <1>3, PTL DEF Spec

----------------------------------------------------------------------------
(***************************************************************************)
(* The offer's secrets are gone by the time it is answered, as long as no  *)
(* kill or reboot comes between the two.                                   *)
(***************************************************************************)

Inits == proc[Gateway].cmd = "init"

\* An init prints the offer last, when the keys have been deleted.
Handing ==
  Inits =>
    /\ "print" \in Left(Gateway) /\ Unheard(proc[Gateway].cfg.id)
    /\ "mtls" \in Left(Gateway) => "scrub" \in Left(Gateway)
    /\ mode = "ara" /\ "scrub" \notin Left(Gateway) => mtls \subseteq {"ca"}

\* It has written the offer, and has yet to delete the keys that go with it.
Withholds == Inits /\ "scrub" \in Left(Gateway) /\ "token" \notin Left(Gateway)

\* An init writes its token after its configuration; the one that is there until
\* then, left by a wipe that was cut short, is of an older instance.
Fresh ==
  LET p == proc[Gateway]  left == Left(Gateway) IN
  /\ p.cmd = "init" =>
       /\ "save" \notin left => config[Gateway] = p.cfg
       /\ "save" \in left /\ "wipe" \notin left => config[Gateway] = NoConfig
       /\ "token" \in left => token[Gateway] = None \/ token[Gateway].id # p.cfg.id
       /\ "token" \in left \/ left \subseteq {"scrub", "print"}
  /\ p.cmd = "accept" => config[Gateway].id = p.cfg.id

\* What is still there of the keys belongs to an instance that nobody has
\* heard of, and there is no token of it to show once its init has ended.
Handed ==
  /\ mode # "ara" => mtls = {}
  /\ Handing
  /\ config[Gateway] = NoConfig \/ mtls \subseteq {"ca"} \/ Unheard(config[Gateway].id)
  /\ \/ token[Gateway] = None \/ config[Gateway] = NoConfig \/ token[Gateway].id # config[Gateway].id
     \/ mtls \subseteq {"ca"} \/ Withholds

LEMMA InstancesUnheard ==
  ASSUME Typed, Next, tokens' \subseteq tokens \cup {token[e] : e \in Edges}
  PROVE  /\ \A i \in Ids : Unheard(i) => Unheard(i)'
         /\ Inits => proc[Gateway].cfg.id \in Ids
         /\ config[Gateway] # NoConfig => config[Gateway].id \in Ids
<1>1. Gateway \in Hosts /\ config[Gateway] \in Configs /\ proc[Gateway].cfg \in Configs
  BY Types DEF Hosts
<1>2. Inits => proc[Gateway].cfg # NoConfig
  BY <1>1 DEF Typed, Keyed, Makes, Inits
<1> QED
  BY <1>1, <1>2, UnheardStays, Records

\* The gateway does nothing but go on, and tells nobody.
LEMMA QuietHanded ==
  ASSUME Typed, Handed, Next, tokens' \subseteq tokens \cup {token[e] : e \in Edges},
         config'[Gateway] = config[Gateway], token'[Gateway] = token[Gateway], mtls' = mtls,
         NEW step, Moved(Gateway, step), step \notin {"wipe", "scrub", "print"},
         proc'[Gateway] = Free => ~Withholds
  PROVE  Handed'
<1>1. /\ mode' = mode /\ Gateway \in Hosts
      /\ \A i \in Ids : Unheard(i) => Unheard(i)'
      /\ Inits => proc[Gateway].cfg.id \in Ids
      /\ config[Gateway] # NoConfig => config[Gateway].id \in Ids
  BY InstancesUnheard DEF Next, Hosts
<1>2. CASE proc'[Gateway] = Free
  BY <1>1, <1>2, FreeRuns DEF Handed, Handing, Withholds, Inits
<1>3. CASE proc'[Gateway] # Free
  <2>1. /\ proc'[Gateway].cmd = proc[Gateway].cmd /\ proc'[Gateway].cfg = proc[Gateway].cfg
        /\ Left(Gateway)' = Left(Gateway) \ {step}
    BY <1>3 DEF Moved
  <2>2. Handing'
    BY <1>1, <2>1 DEF Handed, Handing, Inits
  <2> QED
    BY <1>1, <2>1, <2>2 DEF Handed, Withholds, Inits
<1> QED
  BY <1>2, <1>3

LEMMA EdgeLeavesGateway ==
  ASSUME Typed, mode' = mode, NEW e \in Edges, Acts(e)
  PROVE  proc'[Gateway] = proc[Gateway] /\ Left(Gateway)' = Left(Gateway)
<1>1. e \in Hosts /\ e # Gateway /\ Gateway \in Hosts
  BY HostsAssumption DEF Hosts
<1>2. ASSUME NEW step, Moved(e, step) PROVE proc'[Gateway] = proc[Gateway] /\ Left(Gateway)' = Left(Gateway)
  BY <1>1, <1>2 DEF Moved
<1>3. ASSUME NEW cmd, NEW S, NEW cfg, NEW new, Begun(e, cmd, S, cfg, new)
      PROVE  proc'[Gateway] = proc[Gateway] /\ Left(Gateway)' = Left(Gateway)
  BY <1>1, <1>3 DEF Begun
<1>4. CASE Join(e) \/ Doctor(e) \/ Uninstall(e)
  BY <1>1, <1>3, <1>4, JoinTyped, DoctorTyped, UninstallTyped
<1>5. CASE Probe(e) \/ ShowToken(e) \/ ManageLink(e) \/ FailStep(e) \/ Kill(e) \/ Reboot(e)
  BY <1>1, <1>2, <1>5, ProbeTyped, ShowTokenTyped, ManageLinkTyped, FailStepTyped, KillTyped, RebootTyped
<1>6. CASE Step(e)
  BY <1>1, <1>2, <1>6, CheckConflictsTyped, GenerateKeysTyped, WriteLinkTyped, SaveConfigTyped,
     StartLinkTyped, WriteTokenTyped, PrintTokenTyped, TakeDownTyped, RevokePeersTyped, RemoveLinkTyped,
     WipeTyped DEF Step
<1> QED
  BY <1>4, <1>5, <1>6 DEF Acts

LEMMA EdgeLeavesFiles ==
  ASSUME Typed, NEW e \in Edges, Acts(e)
  PROVE  /\ config'[Gateway] = config[Gateway] /\ token'[Gateway] = token[Gateway] /\ mtls' = mtls
         /\ tokens' \subseteq tokens \cup {token[f] : f \in Edges}
<1>1. e \in Hosts /\ e # Gateway /\ Gateway \in Hosts
  BY HostsAssumption DEF Hosts
<1>2. /\ config \in [Hosts -> Configs] /\ token \in [Hosts -> Spoken \cup {None}]
  BY Types
<1>3. CASE SaveConfig(e) \/ WriteToken(e) \/ PrintToken(e) \/ ShowToken(e) \/ Wipe(e)
  BY <1>1, <1>2, <1>3 DEF SaveConfig, WriteToken, PrintToken, ShowToken, Wipe
<1>4. CASE ~(SaveConfig(e) \/ WriteToken(e) \/ PrintToken(e) \/ ShowToken(e) \/ Wipe(e))
  <2>1. config' = config /\ token' = token /\ mtls' = mtls /\ tokens' = tokens
    BY <1>4 DEF Acts, Step, Join, Uninstall, Doctor, Begin, CheckConflicts, GenerateKeys, WriteLink, StartLink,
       TakeDown, RevokePeers, RemoveLink, Probe, ManageLink, FailStep, Kill, Reboot
  <2> QED
    BY <2>1
<1> QED
  BY <1>3, <1>4

LEMMA EdgeHanded ==
  ASSUME Typed, Handed, Next, NEW e \in Edges, Acts(e)
  PROVE  Handed'
<1>1. mode' = mode /\ e \in Hosts /\ e # Gateway /\ Gateway \in Hosts
  BY HostsAssumption DEF Next, Hosts
<1>3. /\ config'[Gateway] = config[Gateway] /\ token'[Gateway] = token[Gateway] /\ mtls' = mtls
      /\ tokens' \subseteq tokens \cup {token[f] : f \in Edges}
  BY EdgeLeavesFiles
<1>4. proc'[Gateway] = proc[Gateway] /\ Left(Gateway)' = Left(Gateway)
  BY <1>1, EdgeLeavesGateway
<1>5. /\ \A i \in Ids : Unheard(i) => Unheard(i)'
      /\ Inits => proc[Gateway].cfg.id \in Ids
      /\ config[Gateway] # NoConfig => config[Gateway].id \in Ids
  BY <1>3, InstancesUnheard
<1>6. Handing'
  BY <1>1, <1>3, <1>4, <1>5 DEF Handed, Handing, Inits
<1> QED
  BY <1>1, <1>3, <1>4, <1>5, <1>6 DEF Handed, Withholds, Inits

\* A step of the gateway that writes neither of the two files.
LEMMA QuietFresh ==
  ASSUME Fresh, NEW step, Moved(Gateway, step), step \notin {"save", "token"},
         step = "wipe" => config[Gateway] = NoConfig,
         config'[Gateway] = config[Gateway], token'[Gateway] = token[Gateway]
  PROVE  Fresh'
<1>1. CASE proc'[Gateway] = Free
  BY <1>1, FreeRuns DEF Fresh
<1>2. CASE proc'[Gateway] # Free
  <2>1. /\ proc'[Gateway].cmd = proc[Gateway].cmd /\ proc'[Gateway].cfg = proc[Gateway].cfg
        /\ Left(Gateway)' = Left(Gateway) \ {step}
    BY <1>2 DEF Moved
  <2> QED
    BY <2>1 DEF Fresh
<1> QED
  BY <1>1, <1>2

\* An instance that is only being made is newer than any token.
LEMMA CommandsFresh ==
  ASSUME Typed, Next, InitOutside \/ Accept \/ Uninstall(Gateway)
  PROVE  Fresh'
<1>1. Gateway \in Hosts /\ mode' = mode /\ config' = config /\ token' = token
  BY DEF Next, Hosts, InitOutside, Accept, Uninstall, Begin
<1>2. CASE InitOutside
  <2>1. PICK S \in {InitSet, UninstallSet \cup InitSet} :
          /\ Begun(Gateway, "init", S, InitConfig, NewKeys(Gateway, FreshKey(Gateway)))
          /\ S = InitSet => config[Gateway] = NoConfig
    BY <1>1, <1>2, InitOutsideTyped
  <2>2. /\ proc'[Gateway].cmd = "init" /\ proc'[Gateway].cfg.id = minted + 1 /\ Left(Gateway)' = S
    BY <2>1 DEF Begun, InitConfig
  <2>3. {"save", "token"} \subseteq S /\ ("wipe" \in S \/ config[Gateway] = NoConfig)
    BY <2>1 DEF InitSet, UninstallSet
  <2>4. token[Gateway] = None \/ token[Gateway].id # minted + 1
    <3>1. minted \in Nat /\ token[Gateway] \in Spoken \cup {None}
      BY <1>1, Records, Types
    <3> QED
      BY <3>1 DEF Spoken, Ids
  <2> QED
    BY <1>1, <2>2, <2>3, <2>4 DEF Fresh
<1>3. CASE Accept
  <2>1. PICK c : c.id = config[Gateway].id /\ Begun(Gateway, "accept", AcceptSet, c, NoSecrets)
    BY <1>1, <1>3, AcceptTyped
  <2> QED
    BY <1>1, <2>1 DEF Begun, Fresh
<1>4. CASE Uninstall(Gateway)
  <2>1. proc'[Gateway].cmd = "uninstall"
    BY <1>1, <1>4, UninstallTyped DEF Begun
  <2> QED
    BY <2>1 DEF Fresh
<1> QED
  BY <1>2, <1>3, <1>4

LEMMA WipeFresh ==
  ASSUME Typed, Fresh, Next, Wipe(Gateway)
  PROVE  Fresh'
<1>1. /\ Gateway \in Hosts /\ mode' = mode /\ At(Gateway, "wipe")
      /\ config \in [Hosts -> Configs] /\ token \in [Hosts -> Spoken \cup {None}]
  BY Types DEF Next, Hosts, Wipe
<1>2. /\ "wipe" \in Left(Gateway) /\ proc[Gateway].cmd \in {"init", "uninstall"}
      /\ proc[Gateway].cmd = "init" => {"save", "token"} \subseteq Left(Gateway)
  BY <1>1, AtHead, Owners DEF Typed, Keyed, Makes, InitSet
<1>3. CASE proc' = proc
  <2>1. Left(Gateway)' = Left(Gateway) /\ token'[Gateway] \in {token[Gateway], None}
    BY <1>1, <1>3 DEF Left, Wipe
  <2> QED
    BY <1>2, <1>3, <2>1 DEF Fresh
<1>4. CASE proc' # proc
  <2>1. config[Gateway] = NoConfig /\ config' = config /\ token' = token /\ Done(Gateway)
    BY <1>4 DEF Wipe
  <2> QED
    BY <1>1, <2>1, DoneMoves, QuietFresh
<1> QED
  BY <1>3, <1>4

LEMMA WritesFresh ==
  ASSUME Typed, Fresh, Next, SaveConfig(Gateway) \/ WriteToken(Gateway)
  PROVE  Fresh'
<1>1. /\ Gateway \in Hosts /\ mode' = mode
      /\ config \in [Hosts -> Configs] /\ token \in [Hosts -> Spoken \cup {None}]
  BY Types DEF Next, Hosts
<1>2. CASE SaveConfig(Gateway)
  <2>1. /\ Moved(Gateway, "save") /\ token' = token /\ config'[Gateway] = proc[Gateway].cfg
    BY <1>1, <1>2, SaveConfigTyped DEF SaveConfig
  <2>2. CASE proc'[Gateway] = Free
    BY <2>2, FreeRuns DEF Fresh
  <2>3. CASE proc'[Gateway] # Free
    BY <2>1, <2>3 DEF Moved, Fresh
  <2> QED
    BY <2>2, <2>3
<1>3. CASE WriteToken(Gateway)
  <2>1. Moved(Gateway, "token") /\ At(Gateway, "token") /\ config' = config
    BY <1>1, <1>3, WriteTokenTyped DEF WriteToken
  <2>2. Left(Gateway) \subseteq {"token", "scrub", "print"} /\ proc[Gateway].cmd # "accept"
    BY <1>1, <2>1, TokenIsLate, AtHead, Owners
  <2>3. CASE proc'[Gateway] = Free
    BY <2>3, FreeRuns DEF Fresh
  <2>4. CASE proc'[Gateway] # Free
    BY <2>1, <2>2, <2>4 DEF Moved, Fresh
  <2> QED
    BY <2>3, <2>4
<1> QED
  BY <1>2, <1>3

LEMMA NextFresh ==
  ASSUME Typed, Fresh, [Next]_vars
  PROVE  Fresh'
<1>1. CASE UNCHANGED vars
  BY <1>1 DEF vars, Fresh, Left
<1>2. CASE Next
  <2>1. Gateway \in Hosts /\ mode' = mode
    BY <1>2 DEF Next, Hosts
  <2>2. ASSUME NEW e \in Edges, Acts(e) PROVE Fresh'
    BY <2>1, <2>2, EdgeLeavesGateway, EdgeLeavesFiles DEF Fresh
  <2>3. CASE PrepareMTLS \/ ScrubMTLS \/ TakeDown(Gateway) \/ RevokePeers(Gateway) \/ RemoveLink(Gateway)
    <3>1. PICK step \in {"mtls", "scrub", "down", "revoke", "unlink"} : At(Gateway, step) /\ Done(Gateway)
      BY <2>3 DEF PrepareMTLS, ScrubMTLS, TakeDown, RevokePeers, RemoveLink
    <3>2. config' = config /\ token' = token
      BY <2>3 DEF PrepareMTLS, ScrubMTLS, TakeDown, RevokePeers, RemoveLink
    <3> QED
      BY <2>1, <3>1, <3>2, DoneMoves, QuietFresh
  <2>4. CASE \/ AuthorizePeer \/ ShowToken(Gateway) \/ ManageLink(Gateway) \/ FailStep(Gateway)
             \/ Kill(Gateway) \/ Reboot(Gateway) \/ CheckConflicts(Gateway) \/ GenerateKeys(Gateway)
             \/ WriteLink(Gateway) \/ StartLink(Gateway) \/ PrintToken(Gateway)
    <3>1. PICK step : Moved(Gateway, step) /\ step \notin {"save", "token", "wipe"}
      BY <2>1, <2>4, AuthorizePeerTyped, ShowTokenTyped, ManageLinkTyped, FailStepTyped, KillTyped, RebootTyped,
         CheckConflictsTyped, GenerateKeysTyped, WriteLinkTyped, StartLinkTyped, PrintTokenTyped
    <3>2. config' = config /\ token' = token
      BY <2>4 DEF AuthorizePeer, ShowToken, ManageLink, FailStep, Kill, Reboot, CheckConflicts, GenerateKeys,
         WriteLink, StartLink, PrintToken
    <3> QED
      BY <3>1, <3>2, QuietFresh
  <2> QED
    BY <1>2, <2>2, <2>3, <2>4, CommandsFresh, WipeFresh, WritesFresh DEF Next, Acts, Hosts, Step
<1> QED
  BY <1>1, <1>2

LEMMA InitFresh == Init => Fresh
  BY FreeRuns DEF Init, Fresh, Hosts

\* An init at such a step has not written its token.
LEMMA UnwrittenToken ==
  ASSUME Typed, Fresh, NEW step \in StepNames \ (UninstallSet \cup {"scrub", "print"}), At(Gateway, step)
  PROVE  Inits => /\ "token" \in Left(Gateway)
                  /\ token[Gateway] = None \/ token[Gateway].id # proc[Gateway].cfg.id
<1>1. "wipe" \notin Left(Gateway) /\ step \in Left(Gateway)
  BY PastWiping, AtHead DEF Hosts
<1> QED
  BY <1>1 DEF Fresh, Inits

\* An init that has written it comes to the deletion of the keys next.
LEMMA WithholdsAtScrub ==
  ASSUME Typed, Fresh, Withholds
  PROVE  At(Gateway, "scrub")
<1> DEFINE left == proc[Gateway].left
<1>1. Gateway \in Hosts /\ Left(Gateway) \subseteq {"scrub", "print"} /\ "scrub" \in Left(Gateway)
  BY DEF Withholds, Fresh, Inits, Hosts
<1>2. left \in Seq(StepNames) /\ left # << >>
  <2>1. left \in Seq(StepNames)
    BY <1>1 DEF Typed, Runs
  <2>2. left = << >> => Left(Gateway) = {}
    BY DEF Left
  <2> QED
    BY <1>1, <2>1, <2>2
<1>3. PICK step : step = Head(left)
  OBVIOUS
<1>4. At(Gateway, step)
  BY <1>2, <1>3 DEF At
<1>5. /\ step \in {"scrub", "print"}
      /\ step = "scrub" \/ Rank(proc[Gateway].cmd, step) < Rank(proc[Gateway].cmd, "scrub")
  BY <1>1, <1>4, AtHead
<1>6. step = "scrub"
  BY <1>5 DEF Rank
<1> QED
  BY <1>4, <1>6

LEMMA CommandsHanded ==
  ASSUME Typed, Fresh, Handed, Next, InitOutside \/ Accept \/ Uninstall(Gateway)
  PROVE  Handed'
<1>1. /\ Gateway \in Hosts /\ mode' = mode /\ proc[Gateway] = Free /\ Left(Gateway) = {}
      /\ config' = config /\ token' = token /\ mtls' = mtls /\ tokens' = tokens
  BY FreeIsOrderly DEF Next, Hosts, InitOutside, Accept, Uninstall, Begin
<1>2. /\ \A i \in Ids : Unheard(i) => Unheard(i)'
      /\ config[Gateway] # NoConfig => config[Gateway].id \in Ids
  BY <1>1, InstancesUnheard
<1>3. \/ token[Gateway] = None \/ config[Gateway] = NoConfig \/ token[Gateway].id # config[Gateway].id
      \/ mtls \subseteq {"ca"}
  BY <1>1, FreeRuns DEF Handed, Withholds, Inits
<1>4. CASE InitOutside
  <2>1. PICK S \in {InitSet, UninstallSet \cup InitSet} :
          Begun(Gateway, "init", S, InitConfig, NewKeys(Gateway, FreshKey(Gateway)))
    BY <1>1, <1>4, InitOutsideTyped
  <2>2. /\ proc'[Gateway].cmd = "init" /\ proc'[Gateway].cfg.id = minted + 1 /\ Left(Gateway)' = S
        /\ \A e \in Edges : proc'[e] = proc[e]
    BY <2>1, HostsAssumption DEF Begun, InitConfig, Hosts
  <2>3. "print" \in S /\ (mode = "ara" => "scrub" \in S) /\ ("mtls" \in S => "scrub" \in S)
    BY <2>1 DEF InitSet, UninstallSet
  <2>4. PICK n : n = minted + 1
    OBVIOUS
  <2>5. Unheard(n)'
    BY <1>1, <2>2, <2>4, FreshUnheard DEF Unheard
  <2>6. Handing'
    BY <1>1, <2>2, <2>3, <2>4, <2>5 DEF Handing, Inits
  <2> QED
    BY <1>1, <1>2, <1>3, <2>6 DEF Handed
<1>5. CASE Accept \/ Uninstall(Gateway)
  <2>1. \E cmd \in {"accept", "uninstall"} : \E S, cfg, new : Begun(Gateway, cmd, S, cfg, new)
    BY <1>1, <1>5, AcceptTyped, UninstallTyped
  <2>2. proc'[Gateway].cmd # "init"
    BY <2>1 DEF Begun
  <2> QED
    BY <1>1, <1>2, <1>3, <2>2 DEF Handed, Handing, Inits
<1> QED
  BY <1>4, <1>5

LEMMA QuietStepsHanded ==
  ASSUME Typed, Fresh, Handed, Next,
         \/ CheckConflicts(Gateway) \/ GenerateKeys(Gateway) \/ WriteLink(Gateway) \/ StartLink(Gateway)
         \/ AuthorizePeer \/ FailStep(Gateway) \/ ManageLink(Gateway)
  PROVE  Handed'
<1>1. Gateway \in Hosts /\ mode' = mode
  BY DEF Next, Hosts
<1>2. config' = config /\ token' = token /\ mtls' = mtls /\ tokens' = tokens
  BY DEF CheckConflicts, GenerateKeys, WriteLink, StartLink, AuthorizePeer, FailStep, ManageLink
<1>3. PICK step : Moved(Gateway, step) /\ step \notin {"wipe", "scrub", "print"}
  BY <1>1, CheckConflictsTyped, GenerateKeysTyped, WriteLinkTyped, StartLinkTyped, AuthorizePeerTyped, FailStepTyped,
     ManageLinkTyped
<1>4. CASE ManageLink(Gateway)
  <2>1. ~Withholds
    BY <1>1, <1>4, FreeRuns DEF ManageLink, Withholds, Inits
  <2> QED
    BY <1>2, <1>3, <2>1, QuietHanded
<1>5. CASE ~ManageLink(Gateway)
  <2>1. \E s \in {"check", "keys", "mtls", "link", "authorize", "save", "activate", "restart", "token"} :
          At(Gateway, s)
    BY <1>5 DEF CheckConflicts, GenerateKeys, WriteLink, StartLink, AuthorizePeer, FailStep
  <2>2. ~Withholds
    BY <2>1, UnwrittenToken DEF StepNames, UninstallSet, Withholds
  <2> QED
    BY <1>2, <1>3, <2>2, QuietHanded
<1> QED
  BY <1>4, <1>5

\* Done with a step that is not the last of its command.
LEMMA DoneHanding ==
  ASSUME Typed, Handed, mode' = mode, NEW step \in StepNames \ {"print"}, At(Gateway, step), Done(Gateway)
  PROVE  /\ Moved(Gateway, step) /\ Left(Gateway)' = Left(Gateway) \ {step}
         /\ Inits => proc'[Gateway] # Free
<1>1. Moved(Gateway, step) /\ Left(Gateway)' = Left(Gateway) \ {step}
  BY DoneMoves, DoneLeaves DEF Hosts
<1>2. proc'[Gateway] = Free => Left(Gateway)' = {}
  BY FreeRuns DEF Left
<1> QED
  BY <1>1, <1>2 DEF Handed, Handing

LEMMA UninstallStepsHanded ==
  ASSUME Typed, Handed, Next, TakeDown(Gateway) \/ RevokePeers(Gateway) \/ RemoveLink(Gateway)
  PROVE  Handed'
<1>1. mode' = mode /\ config' = config /\ token' = token /\ mtls' = mtls /\ tokens' = tokens
  BY DEF Next, TakeDown, RevokePeers, RemoveLink
<1>2. PICK step \in {"down", "revoke", "unlink"} : At(Gateway, step) /\ Done(Gateway)
  BY DEF TakeDown, RevokePeers, RemoveLink
<1>3. /\ Moved(Gateway, step)
      /\ Inits => proc'[Gateway] # Free
  BY <1>1, <1>2, DoneHanding DEF StepNames
<1> QED
  BY <1>1, <1>2, <1>3, QuietHanded DEF Withholds

LEMMA MTLSHanded ==
  ASSUME Typed, Fresh, Handed, Next, PrepareMTLS \/ ScrubMTLS
  PROVE  Handed'
<1>1. /\ Gateway \in Hosts /\ mode' = mode /\ config' = config /\ token' = token /\ tokens' = tokens
      /\ mtls \subseteq {"ca", "caKey", "client"}
  BY Types DEF Next, Hosts, PrepareMTLS, ScrubMTLS
<1>2. PICK step \in {"mtls", "scrub"} : /\ At(Gateway, step) /\ Done(Gateway)
                                        /\ step = "scrub" => mtls' = mtls \ {"caKey", "client"}
  BY DEF PrepareMTLS, ScrubMTLS
<1>3. Inits /\ mode = "ara" /\ step \in Left(Gateway) /\ "wipe" \notin Left(Gateway)
  BY <1>1, <1>2, AtHead, Owners, PastWiping DEF Inits, StepNames, UninstallSet
<1>4. Moved(Gateway, step) /\ Left(Gateway)' = Left(Gateway) \ {step} /\ proc'[Gateway] # Free
  BY <1>1, <1>2, <1>3, DoneHanding DEF StepNames
<1>5. /\ proc'[Gateway].cmd = "init" /\ proc'[Gateway].cfg = proc[Gateway].cfg
  BY <1>3, <1>4 DEF Moved, Inits
<1>6. /\ \A i \in Ids : Unheard(i) => Unheard(i)'
      /\ proc[Gateway].cfg.id \in Ids
      /\ config[Gateway] # NoConfig => config[Gateway].id \in Ids
  BY <1>1, <1>3, InstancesUnheard
<1>7. config[Gateway] \in {NoConfig, proc[Gateway].cfg}
  BY <1>1, <1>3 DEF Fresh, Inits
<1>8. Unheard(proc[Gateway].cfg.id)
  BY <1>3 DEF Handed, Handing
<1>9. mtls' \subseteq {"ca"} \/ "scrub" \in Left(Gateway)'
  BY <1>1, <1>2, <1>3, <1>4 DEF Handed, Handing
<1>10. Handing'
  <2>1. "mtls" \notin Left(Gateway)'
    <3>1. CASE step = "mtls"
      BY <1>4, <3>1
    <3>2. CASE step = "scrub"
      <4>1. "mtls" \notin Left(Gateway)
        BY <1>1, <1>2, <3>2, AtHead DEF Rank
      <4> QED
        BY <1>4, <4>1
    <3> QED
      BY <3>1, <3>2
  <2>2. "print" \in Left(Gateway)'
    BY <1>3, <1>4 DEF Handed, Handing
  <2>3. PICK i : i = proc[Gateway].cfg.id
    OBVIOUS
  <2>4. Unheard(i)'
    BY <1>6, <1>8, <2>3
  <2> QED
    BY <1>5, <1>9, <2>1, <2>2, <2>3, <2>4 DEF Handing
<1>11. \/ token[Gateway] = None \/ token[Gateway].id # proc[Gateway].cfg.id
       \/ mtls' \subseteq {"ca"}
  BY <1>1, <1>2, <1>3, UnwrittenToken DEF StepNames, UninstallSet
<1> QED
  BY <1>1, <1>3, <1>5, <1>6, <1>7, <1>8, <1>9, <1>10, <1>11 DEF Handed, Inits

LEMMA WriteTokenHanded ==
  ASSUME Typed, Handed, Next, WriteToken(Gateway)
  PROVE  Handed'
<1>1. /\ Gateway \in Hosts /\ mode' = mode /\ config' = config /\ tokens' = tokens /\ mtls' = mtls
      /\ At(Gateway, "token") /\ Done(Gateway)
  BY DEF Next, Hosts, WriteToken
<1>2. Inits /\ "wipe" \notin Left(Gateway)
  BY <1>1, AtHead, Owners, PastWiping DEF Inits, StepNames, UninstallSet
<1>3. Moved(Gateway, "token") /\ Left(Gateway)' = Left(Gateway) \ {"token"} /\ proc'[Gateway] # Free
  BY <1>1, <1>2, DoneHanding DEF StepNames
<1>4. proc'[Gateway].cmd = "init" /\ proc'[Gateway].cfg = proc[Gateway].cfg
  BY <1>2, <1>3 DEF Moved, Inits
<1>5. /\ \A i \in Ids : Unheard(i) => Unheard(i)'
      /\ proc[Gateway].cfg.id \in Ids
      /\ config[Gateway] # NoConfig => config[Gateway].id \in Ids
  BY <1>1, <1>2, InstancesUnheard
<1>6. Handing'
  BY <1>1, <1>2, <1>3, <1>4, <1>5 DEF Handed, Handing
<1>7. Withholds' \/ mtls \subseteq {"ca"}
  BY <1>2, <1>3, <1>4 DEF Handed, Handing, Withholds, Inits
<1> QED
  BY <1>1, <1>4, <1>5, <1>6, <1>7 DEF Handed, Inits

LEMMA SaveConfigHanded ==
  ASSUME Typed, Fresh, Handed, Next, SaveConfig(Gateway)
  PROVE  Handed'
<1>1. /\ Gateway \in Hosts /\ mode' = mode /\ token' = token /\ tokens' = tokens /\ mtls' = mtls
      /\ At(Gateway, "save") /\ Done(Gateway) /\ config'[Gateway] = proc[Gateway].cfg
      /\ config \in [Hosts -> Configs] /\ proc[Gateway].cfg \in Configs
  BY Types DEF Next, Hosts, SaveConfig
<1>2. "wipe" \notin Left(Gateway) /\ "save" \in Left(Gateway) /\ proc[Gateway].cmd \in {"init", "accept"}
  BY <1>1, AtHead, Owners, PastWiping DEF StepNames, UninstallSet
<1>3. /\ Moved(Gateway, "save") /\ Left(Gateway)' = Left(Gateway) \ {"save"}
      /\ Inits => proc'[Gateway] # Free
  BY <1>1, <1>2, DoneHanding DEF StepNames
<1>4. /\ \A i \in Ids : Unheard(i) => Unheard(i)'
      /\ Inits => proc[Gateway].cfg.id \in Ids
      /\ config[Gateway] # NoConfig => config[Gateway].id \in Ids
  BY <1>1, InstancesUnheard
<1>5. CASE Inits
  <2>1. proc'[Gateway].cmd = "init" /\ proc'[Gateway].cfg = proc[Gateway].cfg
    BY <1>3, <1>5 DEF Moved, Inits
  <2>2. token[Gateway] = None \/ token[Gateway].id # proc[Gateway].cfg.id
    BY <1>1, <1>5, UnwrittenToken DEF StepNames, UninstallSet
  <2>3. PICK i : i = proc[Gateway].cfg.id
    OBVIOUS
  <2>4. Unheard(i)'
    BY <1>4, <1>5, <2>3 DEF Handed, Handing
  <2>5. Handing'
    BY <1>1, <1>3, <1>5, <2>1, <2>3, <2>4 DEF Handed, Handing
  <2> QED
    BY <1>1, <2>2, <2>3, <2>4, <2>5 DEF Handed
<1>6. CASE proc[Gateway].cmd = "accept"
  <2>1. ~Inits' /\ ~Inits
    BY <1>3, <1>6, FreeRuns DEF Moved, Inits
  <2>2. config'[Gateway].id = config[Gateway].id
    BY <1>1, <1>6 DEF Fresh
  <2>3. config[Gateway] = NoConfig <=> config'[Gateway] = NoConfig
    <3>1. config[Gateway] \in Configs /\ config'[Gateway] \in Configs
      BY <1>1
    <3> QED
      BY <2>2, <3>1, Records
  <2>4. \/ token[Gateway] = None \/ config[Gateway] = NoConfig \/ token[Gateway].id # config[Gateway].id
        \/ mtls \subseteq {"ca"}
    BY <2>1 DEF Handed, Withholds
  <2>5. config[Gateway] = NoConfig \/ mtls \subseteq {"ca"} \/ Unheard(config[Gateway].id)
    BY DEF Handed
  <2>6. PICK i : i = config[Gateway].id
    OBVIOUS
  <2>7. config[Gateway] = NoConfig \/ mtls \subseteq {"ca"} \/ Unheard(i)'
    BY <1>4, <2>5, <2>6
  <2> QED
    BY <1>1, <2>1, <2>2, <2>3, <2>4, <2>6, <2>7 DEF Handed, Handing
<1> QED
  BY <1>2, <1>5, <1>6 DEF Inits

\* Whoever sees the gateway's token can answer it.
LEMMA ShownHanded ==
  ASSUME Typed, Handed, Next, PrintToken(Gateway) \/ ShowToken(Gateway)
  PROVE  Handed'
<1>1. /\ Gateway \in Hosts /\ mode' = mode /\ config' = config /\ token' = token /\ mtls' = mtls
  BY DEF Next, Hosts, PrintToken, ShowToken
<1>2. CASE PrintToken(Gateway)
  <2>1. At(Gateway, "print") /\ Done(Gateway)
    BY <1>2 DEF PrintToken
  <2>2. /\ Inits /\ \A t \in Left(Gateway) : t \in StepNames
        /\ \A t \in Left(Gateway) : t = "print" \/ Rank(proc[Gateway].cmd, "print") < Rank(proc[Gateway].cmd, t)
    BY <1>1, <2>1, AtHead, Owners, LeftNames DEF Inits
  <2>3. Left(Gateway) \subseteq {"print"}
    <3>1. ASSUME NEW t \in StepNames, NEW cmd PROVE ~(Rank(cmd, "print") < Rank(cmd, t))
      <4>1. Rank(cmd, "print") = 14
        BY DEF Rank
      <4>2. CASE t \in {"down", "unlink", "revoke", "wipe", "check", "probe", "keys", "mtls"}
        BY <4>1, <4>2 DEF Rank
      <4>3. CASE t \in {"link", "authorize", "save", "activate", "restart", "token", "scrub", "print"}
        BY <4>1, <4>3 DEF Rank
      <4> QED
        BY <4>2, <4>3 DEF StepNames
    <3> QED
      BY <2>2, <3>1
  <2>4. proc'[Gateway] = Free
    BY <1>1, <2>1, <2>3, DoneLeaves
  <2>5. mtls \subseteq {"ca"}
    BY <2>2, <2>3 DEF Handed, Handing
  <2> QED
    BY <1>1, <2>4, <2>5, FreeRuns DEF Handed, Handing, Inits
<1>3. CASE ShowToken(Gateway)
  <2>1. proc' = proc /\ proc[Gateway] = Free /\ Left(Gateway) = {} /\ ~Inits
    BY <1>1, <1>3, FreeIsOrderly, FreeRuns DEF ShowToken, Inits
  <2>2. tokens' = tokens \cup {token[Gateway]} /\ config[Gateway] # NoConfig /\ token[Gateway] # None
    BY <1>3 DEF ShowToken
  <2>3. PICK i : i = config[Gateway].id
    OBVIOUS
  <2>4. mtls \subseteq {"ca"} \/ Unheard(i)'
    BY <1>1, <2>1, <2>2, <2>3 DEF Handed, Withholds, Unheard
  <2>5. token[Gateway].id # i \/ mtls \subseteq {"ca"}
    BY <2>1, <2>2, <2>3 DEF Handed, Withholds
  <2> QED
    BY <1>1, <2>1, <2>3, <2>4, <2>5 DEF Handed, Handing, Inits
<1> QED
  BY <1>2, <1>3

LEMMA WipeHanded ==
  ASSUME Typed, Handed, Next, Wipe(Gateway)
  PROVE  Handed'
<1>1. /\ Gateway \in Hosts /\ mode' = mode /\ tokens' = tokens /\ At(Gateway, "wipe")
      /\ config \in [Hosts -> Configs] /\ token \in [Hosts -> Spoken \cup {None}]
  BY Types DEF Next, Hosts, Wipe
<1>2. "wipe" \in Left(Gateway) /\ (Inits => InitSet \subseteq Left(Gateway))
  BY <1>1, AtHead DEF Typed, Keyed, Makes, Inits
<1>3. /\ mtls' \in {mtls, {}} /\ config'[Gateway] \in {config[Gateway], NoConfig}
      /\ token'[Gateway] \in {token[Gateway], None}
  BY <1>1 DEF Wipe
<1>4. /\ \A i \in Ids : Unheard(i) => Unheard(i)'
      /\ Inits => proc[Gateway].cfg.id \in Ids
      /\ config[Gateway] # NoConfig => config[Gateway].id \in Ids
  BY <1>1, InstancesUnheard
<1>5. PICK i : i = config[Gateway].id
  OBVIOUS
<1>6. config'[Gateway] = NoConfig \/ mtls' \subseteq {"ca"} \/ Unheard(i)'
  BY <1>3, <1>4, <1>5 DEF Handed
<1>7. ~Withholds
  BY <1>2 DEF Withholds, InitSet
<1>8. CASE proc' = proc
  <2>1. Left(Gateway)' = Left(Gateway)
    BY <1>8 DEF Left
  <2>2. Handing'
    BY <1>1, <1>3, <1>4, <1>8, <2>1 DEF Handed, Handing, Inits
  <2> QED
    BY <1>1, <1>3, <1>5, <1>6, <1>8, <1>7, <2>1, <2>2 DEF Handed
<1>9. CASE proc' # proc
  <2>1. config[Gateway] = NoConfig /\ config' = config /\ mtls' = mtls /\ Done(Gateway)
    BY <1>9 DEF Wipe
  <2>2. /\ Moved(Gateway, "wipe") /\ Left(Gateway)' = Left(Gateway) \ {"wipe"}
        /\ Inits => proc'[Gateway] # Free
    BY <1>1, <2>1, DoneHanding DEF StepNames
  <2>3. Handing'
    <3>1. CASE Inits
      <4>1. proc'[Gateway].cmd = "init" /\ proc'[Gateway].cfg = proc[Gateway].cfg
        BY <2>2, <3>1 DEF Moved, Inits
      <4> QED
        BY <1>1, <1>4, <2>1, <2>2, <3>1, <4>1 DEF Handed, Handing
    <3>2. CASE ~Inits
      BY <2>2, <3>2, FreeRuns DEF Moved, Handing, Inits
    <3> QED
      BY <3>1, <3>2
  <2> QED
    BY <1>1, <2>1, <2>3 DEF Handed
<1> QED
  BY <1>8, <1>9

\* An init that ends before its token is written, or after the keys are deleted.
LEMMA EndHanded ==
  ASSUME Typed, Fresh, Handed, Next, Kill(Gateway) \/ Reboot(Gateway), ~LeftBehind
  PROVE  Handed'
<1>1. config' = config /\ token' = token /\ mtls' = mtls /\ tokens' = tokens /\ mode' = mode
  BY DEF Next, Kill, Reboot
<1>2. Gateway \in Hosts /\ Moved(Gateway, "nothing")
  BY <1>1, KillTyped, RebootTyped DEF Hosts
<1>3. proc'[Gateway] = Free => ~Withholds
  BY WithholdsAtScrub DEF LeftBehind
<1> QED
  BY <1>1, <1>2, <1>3, QuietHanded

LEMMA NextHanded ==
  ASSUME Typed, Fresh, Handed, [Next]_vars, ~LeftBehind
  PROVE  Handed'
<1>1. CASE UNCHANGED vars
  BY <1>1 DEF vars, Handed, Handing, Withholds, Inits, Unheard, Left
<1>2. CASE Next
  <2>1. CASE Kill(Gateway) \/ Reboot(Gateway)
    BY <1>2, <2>1, EndHanded
  <2>2. CASE InitOutside \/ Accept \/ PrepareMTLS \/ ScrubMTLS \/ AuthorizePeer
    BY <1>2, <2>2, CommandsHanded, MTLSHanded, QuietStepsHanded
  <2>3. CASE \E e \in Edges : Acts(e)
    BY <1>2, <2>3, EdgeHanded
  <2>4. CASE Uninstall(Gateway) \/ ShowToken(Gateway) \/ ManageLink(Gateway) \/ FailStep(Gateway)
    BY <1>2, <2>4, CommandsHanded, ShownHanded, QuietStepsHanded
  <2>5. CASE Step(Gateway)
    BY <1>2, <2>5, QuietStepsHanded, SaveConfigHanded, WriteTokenHanded, ShownHanded, UninstallStepsHanded,
       WipeHanded DEF Step
  <2> QED
    BY <1>2, <2>1, <2>2, <2>3, <2>4, <2>5 DEF Next, Acts, Hosts
<1> QED
  BY <1>1, <1>2

LEMMA InitHanded == Init => Handed
  BY FreeRuns DEF Init, Handed, Handing, Inits, Hosts

\* The gateway holds neither the CA's key nor the client key by the time it can
\* be answered, though steps may fail, errors be ignored, and both ends be killed
\* or rebooted at any point but one: in an init between its token and the
\* deletion of the keys.  (InitOutside, prepareMTLS.)
THEOREM HandsSecretsOver == Spec /\ [][~LeftBehind]_vars => []SecretsHandedOver
<1> DEFINE HandedInv == Typed /\ Fresh /\ Handed
<1>1. HandedInv /\ [Next]_vars /\ [~LeftBehind]_vars => HandedInv'
  <2> SUFFICES ASSUME HandedInv, [Next]_vars, [~LeftBehind]_vars
               PROVE  HandedInv'
    OBVIOUS
  <2>1. CASE ~LeftBehind
    BY <2>1, NextTyped, NextFresh, NextHanded
  <2>2. CASE UNCHANGED vars
    <3>1. Handed'
      BY <2>2 DEF vars, Handed, Handing, Withholds, Inits, Unheard, Left
    <3> QED
      BY <3>1, NextTyped, NextFresh
  <2> QED
    BY <2>1, <2>2
<1>2. HandedInv => SecretsHandedOver
  <2> SUFFICES ASSUME HandedInv, NEW r \in tokens, r.id = config[Gateway].id
               PROVE  mtls \subseteq {"ca"}
    BY DEF SecretsHandedOver
  <2>1. r.id \in Ids /\ NoConfig.id \notin Ids
    BY Types, Records DEF Spoken
  <2> QED
    BY <2>1 DEF Handed, Unheard
<1>3. Init => HandedInv
  BY InitTyped, InitFresh, InitHanded
<1> HIDE DEF HandedInv
<1> QED
  BY <1>1, <1>2, <1>3, PTL DEF Spec

----------------------------------------------------------------------------
(***************************************************************************)
(* An accept that returns success has put its peer into the running link.  *)
(***************************************************************************)

\* How far the accept of a WireGuard gateway has got.
Applied ==
  WG /\ proc[Gateway].cmd = "accept" =>
    /\ "link" \notin Left(Gateway) => link[Gateway].peer = proc[Gateway].cfg.peer
    /\ "restart" \notin Left(Gateway) => up[Gateway].peer = proc[Gateway].cfg.peer

\* What an accept of such a gateway does next.
AcceptMoves ==
  /\ proc'[Gateway].cfg = proc[Gateway].cfg
  /\ \/ /\ At(Gateway, "link") /\ Left(Gateway)' = Left(Gateway) \ {"link"}
        /\ link'[Gateway].peer = proc[Gateway].cfg.peer /\ up'[Gateway] = up[Gateway]
     \/ /\ At(Gateway, "restart") /\ Left(Gateway)' = Left(Gateway) \ {"restart"}
        /\ up'[Gateway] = link[Gateway] /\ link'[Gateway] = link[Gateway]
     \/ /\ link'[Gateway] = link[Gateway] /\ up'[Gateway] = up[Gateway]
        /\ \E s : s \notin {"link", "restart"} /\ Left(Gateway)' = Left(Gateway) \ {s}

\* While it runs, nothing else starts or stops the gateway's link.
LEMMA AcceptOwnsLink ==
  ASSUME Typed, Next, WG, proc[Gateway].cmd = "accept", proc'[Gateway].cmd = "accept"
  PROVE  AcceptMoves
<1>1. /\ mode' = mode /\ Gateway \in Hosts /\ Edges \subseteq Hosts
      /\ link \in [Hosts -> Links] /\ up \in [Hosts -> Links]
      /\ proc[Gateway] # Free /\ proc'[Gateway] # Free
  BY Types, FreeRuns DEF Next, Hosts
<1>2. ASSUME NEW step, step \notin {"link", "restart"}, Moved(Gateway, step),
             link'[Gateway] = link[Gateway], up'[Gateway] = up[Gateway]
      PROVE  AcceptMoves
  BY <1>1, <1>2 DEF Moved, AcceptMoves
<1>3. ASSUME NEW e \in Edges, Acts(e)
      PROVE  AcceptMoves
  <2>1. e # Gateway /\ e \in Hosts
    BY <1>1, HostsAssumption
  <2>2. link'[Gateway] = link[Gateway] /\ up'[Gateway] = up[Gateway]
    <3>1. CASE WriteLink(e) \/ StartLink(e) \/ TakeDown(e) \/ RemoveLink(e) \/ ManageLink(e)
      BY <1>1, <2>1, <3>1 DEF WriteLink, StartLink, TakeDown, RemoveLink, ManageLink
    <3>2. CASE FailStep(e) \/ Reboot(e)
      BY <1>1, <2>1, <3>2 DEF FailStep, Reboot
    <3>3. CASE Join(e) \/ Doctor(e) \/ Probe(e) \/ Uninstall(e) \/ ShowToken(e) \/ Kill(e)
      BY <3>3 DEF Join, Uninstall, Doctor, Begin, Probe, ShowToken, Kill
    <3>4. CASE CheckConflicts(e) \/ GenerateKeys(e) \/ SaveConfig(e) \/ WriteToken(e) \/ PrintToken(e)
               \/ RevokePeers(e) \/ Wipe(e)
      BY <3>4 DEF CheckConflicts, GenerateKeys, SaveConfig, WriteToken, PrintToken, Wipe, RevokePeers
    <3> QED
      BY <1>3, <3>1, <3>2, <3>3, <3>4 DEF Acts, Step
  <2>3. proc'[Gateway] = proc[Gateway] /\ Left(Gateway)' = Left(Gateway)
    BY <1>1, <1>3, <2>1, EdgeLeavesGateway
  <2>4. Left(Gateway)' = Left(Gateway) \ {"nothing"}
    BY <1>1, <2>3, LeftNames DEF StepNames
  <2> QED
    BY <2>2, <2>3, <2>4 DEF AcceptMoves
<1>4. CASE InitOutside \/ Accept \/ Uninstall(Gateway) \/ ShowToken(Gateway) \/ ManageLink(Gateway)
  BY <1>1, <1>4 DEF InitOutside, Accept, Uninstall, Begin, ShowToken, ManageLink
<1>5. CASE FailStep(Gateway) \/ Kill(Gateway) \/ Reboot(Gateway)
  BY <1>1, <1>5, FailStepTyped, KillTyped, RebootTyped
<1>6. CASE PrepareMTLS \/ ScrubMTLS \/ AuthorizePeer
  BY <1>1, <1>2, <1>6, PrepareMTLSTyped, ScrubMTLSTyped, AuthorizePeerTyped
     DEF PrepareMTLS, ScrubMTLS, AuthorizePeer
<1>7. CASE \/ CheckConflicts(Gateway) \/ GenerateKeys(Gateway) \/ SaveConfig(Gateway) \/ WriteToken(Gateway)
           \/ PrintToken(Gateway) \/ RevokePeers(Gateway)
  BY <1>1, <1>2, <1>7, CheckConflictsTyped, GenerateKeysTyped, SaveConfigTyped, WriteTokenTyped, PrintTokenTyped,
     RevokePeersTyped DEF CheckConflicts, GenerateKeys, SaveConfig, WriteToken, PrintToken, RevokePeers
<1>8. CASE TakeDown(Gateway) \/ RemoveLink(Gateway) \/ Wipe(Gateway)
  <2>1. \E step \in {"down", "unlink", "wipe"} : At(Gateway, step)
    BY <1>8 DEF TakeDown, RemoveLink, Wipe
  <2> QED
    BY <1>1, <2>1, AtHead, Owners
<1>9. CASE StartLink(Gateway)
  <2>1. PICK step \in {"activate", "restart"} : At(Gateway, step) /\ Moved(Gateway, step)
    BY <1>1, <1>9, StartLinkTyped
  <2>2. step = "restart"
    BY <1>1, <2>1, AtHead, Owners DEF WG
  <2>3. up'[Gateway] = link[Gateway] /\ link' = link
    BY <1>1, <1>9, <2>1, <2>2 DEF StartLink
  <2> QED
    BY <1>1, <2>1, <2>2, <2>3 DEF Moved, AcceptMoves
<1>10. CASE WriteLink(Gateway)
  <2>1. At(Gateway, "link") /\ Moved(Gateway, "link") /\ up' = up
    BY <1>1, <1>10, WriteLinkTyped DEF WriteLink
  <2>2. ~(WG /\ secrets[Gateway] = NoSecrets)
    BY <1>1, <1>10, ReturnMoves DEF WriteLink
  <2>3. link'[Gateway].peer = proc[Gateway].cfg.peer
    BY <1>1, <1>10, <2>2 DEF WriteLink
  <2> QED
    BY <1>1, <2>1, <2>3 DEF Moved, AcceptMoves
<1>11. CASE Step(Gateway)
  BY <1>7, <1>8, <1>9, <1>10, <1>11 DEF Step
<1>12. CASE \E e \in Edges : Acts(e)
  BY <1>3, <1>12
<1>13. \/ InitOutside \/ Accept \/ PrepareMTLS \/ ScrubMTLS \/ AuthorizePeer
       \/ \E e \in Edges : Acts(e)
       \/ Uninstall(Gateway) \/ ShowToken(Gateway) \/ ManageLink(Gateway)
       \/ Step(Gateway) \/ FailStep(Gateway) \/ Kill(Gateway) \/ Reboot(Gateway)
  BY DEF Next, Acts, Hosts
<1> QED
  BY <1>4, <1>5, <1>6, <1>11, <1>12, <1>13

\* No other command of the gateway becomes an accept.
LEMMA BeginsAccept ==
  ASSUME Typed, Next, proc'[Gateway].cmd = "accept", proc[Gateway].cmd # "accept"
  PROVE  Accept
<1>1. mode' = mode /\ Gateway \in Hosts /\ Free.cmd = "none"
  BY FreeRuns DEF Next, Hosts
<1>2. ASSUME NEW step, Moved(Gateway, step) PROVE FALSE
  BY <1>1, <1>2 DEF Moved
<1>3. ASSUME NEW cmd, NEW S, NEW cfg, NEW new, cmd # "accept", Begun(Gateway, cmd, S, cfg, new)
      PROVE  FALSE
  BY <1>3 DEF Begun
<1>4. ~InitOutside /\ ~Uninstall(Gateway)
  BY <1>1, <1>3, InitOutsideTyped, UninstallTyped
<1>5. ~PrepareMTLS /\ ~ScrubMTLS /\ ~AuthorizePeer
  BY <1>1, <1>2, PrepareMTLSTyped, ScrubMTLSTyped, AuthorizePeerTyped
<1>6. ASSUME NEW e \in Edges, Acts(e) PROVE FALSE
  BY <1>1, <1>6, EdgeLeavesGateway
<1>7. /\ ~ShowToken(Gateway) /\ ~ManageLink(Gateway) /\ ~FailStep(Gateway)
      /\ ~Kill(Gateway) /\ ~Reboot(Gateway)
  BY <1>1, <1>2, ShowTokenTyped, ManageLinkTyped, FailStepTyped, KillTyped, RebootTyped
<1>8. ~Step(Gateway)
  BY <1>1, <1>2, CheckConflictsTyped, GenerateKeysTyped, WriteLinkTyped, SaveConfigTyped, StartLinkTyped,
     WriteTokenTyped, PrintTokenTyped, TakeDownTyped, RevokePeersTyped, RemoveLinkTyped, WipeTyped DEF Step
<1> QED
  BY <1>4, <1>5, <1>6, <1>7, <1>8 DEF Next, Acts, Hosts

LEMMA NextApplied ==
  ASSUME Typed, Applied, [Next]_vars
  PROVE  Applied'
<1> SUFFICES ASSUME WG, proc'[Gateway].cmd = "accept", mode' = mode PROVE Applied'
  BY DEF Applied, WG, Next, vars
<1>1. CASE UNCHANGED vars
  BY <1>1 DEF vars, Applied, Left, WG
<1>2. CASE Next /\ proc[Gateway].cmd # "accept"
  <2>1. proc'[Gateway] # proc[Gateway] /\ proc'[Gateway] # Free
    BY <1>2, FreeRuns
  <2>2. Accept
    BY <1>2, <2>1, BeginsAccept
  <2>3. \E c : Begun(Gateway, "accept", AcceptSet, c, NoSecrets)
    BY <2>2, AcceptTyped
  <2>4. PICK c : Begun(Gateway, "accept", AcceptSet, c, NoSecrets)
    BY <2>3
  <2>5. AcceptSet = {"link", "restart", "save"} /\ Left(Gateway)' = AcceptSet
    BY <2>4 DEF Begun, AcceptSet, WG
  <2> QED
    BY <2>5 DEF Applied
<1>3. CASE Next /\ proc[Gateway].cmd = "accept"
  <2>1. Gateway \in Hosts
    BY DEF Hosts
  <2>2. At(Gateway, "restart") => "link" \notin Left(Gateway)
    BY <2>1, AtHead DEF Rank
  <2>3. At(Gateway, "link") => "restart" \in Left(Gateway) \/ up[Gateway].peer = proc[Gateway].cfg.peer
    BY <1>3 DEF Applied
  <2> QED
    BY <1>3, <2>2, <2>3, AcceptOwnsLink DEF Applied, AcceptMoves
<1> QED
  BY <1>1, <1>2, <1>3

LEMMA InitApplied == Init => Applied
  BY FreeRuns DEF Init, Applied, Hosts

\* An accept of a WireGuard gateway saves a configuration that says "ready" only
\* when the running link has its peer.  (Accept; restart, not enable --now.)
THEOREM AcceptApplies == Modes \subseteq {"ara", "wireguard"} => (Spec => AcceptTakesEffect)
<1> SUFFICES ASSUME Modes \subseteq {"ara", "wireguard"} PROVE Spec => AcceptTakesEffect
  OBVIOUS
<1> DEFINE AppliedInv == Typed /\ Applied
           A == proc[Gateway].cmd = "accept" /\ SaveConfig(Gateway)
                  => up[Gateway].peer = proc[Gateway].cfg.peer
<1>1. Init => AppliedInv
  BY InitTyped, InitApplied
<1>2. AppliedInv /\ [Next]_vars => AppliedInv'
  BY NextTyped, NextApplied
<1>3. AppliedInv => A
  <2> SUFFICES ASSUME Typed, Applied, proc[Gateway].cmd = "accept", SaveConfig(Gateway)
               PROVE  up[Gateway].peer = proc[Gateway].cfg.peer
    OBVIOUS
  <2>1. Gateway \in Hosts /\ At(Gateway, "save") /\ WG
    BY DEF SaveConfig, Hosts, Typed, TypeOK, WG
  <2>2. "restart" \notin Left(Gateway)
    BY <2>1, AtHead DEF Rank
  <2> QED
    BY <2>1, <2>2 DEF Applied
<1>4. [][Next]_vars /\ []AppliedInv => AcceptTakesEffect
  <2>1. AppliedInv => [A]_vars
    BY <1>3
  <2> QED
    BY <2>1, PTL DEF AcceptTakesEffect
<1> HIDE DEF AppliedInv
<1> QED
  BY <1>1, <1>2, <1>4, PTL DEF Spec
=============================================================================
