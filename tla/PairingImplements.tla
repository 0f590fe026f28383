------------------------- MODULE PairingImplements -------------------------
(***************************************************************************)
(* Proofs about Pairing, second part: Pairing implements Trust.            *)
(*                                                                         *)
(* AdmitsOnlyAnswers is not inductive.  Trusted adds what it rests on:     *)
(* what an uninstall that has yet to wipe has cleared already, what an     *)
(* init knows of its new instance (nobody has heard of it before its       *)
(* configuration is saved, so no token of it can be in use), and that an   *)
(* accept holds an answer to the instance the gateway still has.           *)
(***************************************************************************)
EXTENDS PairingProofs

Answered(k, i) == \E r \in tokens : r.kind = "response" /\ r.key = k /\ r.id = i

\* No edge has come to know of the instance i.
Unheard(i) ==
  /\ \A t \in tokens : t.id # i
  /\ \A e \in Edges : /\ config[e].id # i
                      /\ proc[e].cfg.id # i
                      /\ token[e] = None \/ token[e].id # i

\* Whom the gateway has authorized, and what is gone of a link being uninstalled.
Cleared ==
  /\ \A a \in authorized : mode = "ssh" /\ config[Gateway] # NoConfig /\ a.id = config[Gateway].id
  /\ "wipe" \in Left(Gateway) =>
       /\ "down" \notin Left(Gateway) => up[Gateway].peer = None
       /\ "unlink" \notin Left(Gateway) => link[Gateway].peer = None
       /\ "revoke" \notin Left(Gateway) => authorized = {}

\* An init has nobody to let in, and an instance that nobody has heard of.
Starting ==
  LET p == proc[Gateway] IN
  p.cmd = "init" =>
    /\ p.cfg.peer = None
    /\ "save" \in Left(Gateway) => Unheard(p.cfg.id)
    /\ "save" \in Left(Gateway) /\ "wipe" \notin Left(Gateway) => config[Gateway] = NoConfig

\* An accept lets in a peer that has answered the instance.
Accepting ==
  LET p == proc[Gateway] IN
  p.cmd = "accept" => config[Gateway].id = p.cfg.id /\ Answered(p.cfg.peer, p.cfg.id)

Trusted == Typed /\ AdmitsOnlyAnswers /\ Cleared /\ Starting /\ Accepting

----------------------------------------------------------------------------
\* Tokens are never taken back, and come from the token file of a host.
LEMMA TokensGrow ==
  ASSUME Typed, Next
  PROVE  /\ tokens \subseteq tokens'
         /\ \/ tokens' = tokens
            \/ \E h \in Hosts : /\ PrintToken(h) \/ ShowToken(h)
                                /\ token[h] \in Spoken /\ tokens' = tokens \cup {token[h]}
<1>1. mode' = mode
  BY DEF Next
<1>2. ASSUME NEW h \in Hosts, PrintToken(h) \/ ShowToken(h)
      PROVE  token[h] \in Spoken /\ tokens' = tokens \cup {token[h]}
  BY <1>1, <1>2, PrintTokenTyped, ShowTokenTyped DEF PrintToken, ShowToken
<1>3. CASE \E h \in Hosts : PrintToken(h) \/ ShowToken(h)
  BY <1>2, <1>3
<1>4. CASE ~\E h \in Hosts : PrintToken(h) \/ ShowToken(h)
  <2>1. tokens' = tokens
    BY <1>4 DEF Next, Step, InitOutside, Join, Accept, Uninstall, Doctor, Begin, CheckConflicts,
       GenerateKeys, PrepareMTLS, WriteLink, AuthorizePeer, SaveConfig, StartLink, WriteToken, ScrubMTLS,
       TakeDown, RevokePeers, RemoveLink, Wipe, Probe, ManageLink, Kill, FailStep, Reboot
  <2> QED
    BY <2>1
<1> QED
  BY <1>3, <1>4

\* What one step makes of the instances that an edge holds.
LEMMA EdgeHears ==
  ASSUME Typed, Next, NEW e \in Edges
  PROVE  /\ config'[e] \in {config[e], NoConfig, proc[e].cfg}
         /\ \/ proc'[e].cfg \in {proc[e].cfg, NoConfig}
            \/ proc'[e].cfg.id = config[e].id
            \/ \E o \in tokens : proc'[e].cfg.id = o.id
         /\ token'[e] \in {token[e], None} \/ token'[e].id = proc[e].cfg.id
<1>1. mode' = mode /\ e \in Hosts /\ Gateway \in Hosts /\ e # Gateway /\ Edges \subseteq Hosts
  BY HostsAssumption DEF Next, Hosts
<1> DEFINE Same == config' = config /\ token' = token
<1>2. ASSUME NEW h \in Hosts, NEW step, Moved(h, step)
      PROVE  proc'[e].cfg \in {proc[e].cfg, NoConfig}
  BY <1>1, <1>2, FreeRuns DEF Moved
<1>3. ASSUME NEW h \in Hosts, NEW cmd, NEW S, NEW cfg, NEW new, Begun(h, cmd, S, cfg, new)
      PROVE  proc'[e].cfg = IF e = h THEN cfg ELSE proc[e].cfg
  BY <1>1, <1>3 DEF Begun
<1>4. CASE InitOutside
  BY <1>1, <1>3, <1>4, InitOutsideTyped DEF InitOutside, Begin
<1>5. CASE Accept
  BY <1>1, <1>3, <1>5, AcceptTyped DEF Accept, Begin
<1>6. CASE PrepareMTLS
  BY <1>1, <1>2, <1>6, PrepareMTLSTyped DEF PrepareMTLS
<1>7. CASE ScrubMTLS
  BY <1>1, <1>2, <1>7, ScrubMTLSTyped DEF ScrubMTLS
<1>8. CASE AuthorizePeer
  BY <1>1, <1>2, <1>8, AuthorizePeerTyped DEF AuthorizePeer
<1>9. ASSUME NEW f \in Edges, Join(f)
      PROVE  Same /\ (proc'[e].cfg = proc[e].cfg \/ \E o \in tokens : proc'[e].cfg.id = o.id)
  BY <1>1, <1>3, <1>9, JoinTyped DEF Join, Begin, JoinConfigOf
<1>10. ASSUME NEW f \in Edges, Doctor(f)
       PROVE  Same /\ (proc'[e].cfg = proc[e].cfg \/ proc'[e].cfg.id = config[e].id)
  BY <1>1, <1>3, <1>10, DoctorTyped DEF Doctor, Begin
<1>11. ASSUME NEW f \in Edges, Probe(f)
       PROVE  Same /\ proc'[e].cfg \in {proc[e].cfg, NoConfig}
  BY <1>1, <1>2, <1>11, ProbeTyped DEF Probe
<1>12. ASSUME NEW h \in Hosts, Uninstall(h)
       PROVE  Same /\ (proc'[e].cfg = proc[e].cfg \/ proc'[e].cfg.id = config[e].id)
  BY <1>1, <1>3, <1>12, UninstallTyped DEF Uninstall, Begin
<1>13. ASSUME NEW h \in Hosts, ShowToken(h) \/ ManageLink(h)
       PROVE  Same /\ proc'[e].cfg = proc[e].cfg
  BY <1>13 DEF ShowToken, ManageLink
<1>14. ASSUME NEW h \in Hosts, FailStep(h) \/ Kill(h) \/ Reboot(h)
       PROVE  Same /\ proc'[e].cfg \in {proc[e].cfg, NoConfig}
  BY <1>1, <1>2, <1>14, FailStepTyped, KillTyped, RebootTyped DEF FailStep, Kill, Reboot
<1>15. ASSUME NEW h \in Hosts, CheckConflicts(h) \/ GenerateKeys(h) \/ WriteLink(h) \/ StartLink(h)
                               \/ PrintToken(h) \/ TakeDown(h) \/ RevokePeers(h) \/ RemoveLink(h)
       PROVE  Same /\ proc'[e].cfg \in {proc[e].cfg, NoConfig}
  <2>1. \E step : Moved(h, step)
    BY <1>1, <1>15, CheckConflictsTyped, GenerateKeysTyped, WriteLinkTyped, StartLinkTyped, PrintTokenTyped,
       TakeDownTyped, RevokePeersTyped, RemoveLinkTyped
  <2> QED
    BY <1>2, <1>15, <2>1 DEF CheckConflicts, GenerateKeys, WriteLink, StartLink, PrintToken, TakeDown,
       RevokePeers, RemoveLink
<1>16. ASSUME NEW h \in Hosts, SaveConfig(h)
       PROVE  /\ config'[e] \in {config[e], proc[e].cfg} /\ token' = token
              /\ proc'[e].cfg \in {proc[e].cfg, NoConfig}
  BY <1>1, <1>2, <1>16, SaveConfigTyped, Types DEF SaveConfig
<1>17. ASSUME NEW h \in Hosts, WriteToken(h)
       PROVE  /\ token'[e] = token[e] \/ token'[e].id = proc[e].cfg.id
              /\ config' = config
              /\ proc'[e].cfg \in {proc[e].cfg, NoConfig}
  BY <1>1, <1>2, <1>17, WriteTokenTyped, Types DEF WriteToken
<1>18. ASSUME NEW h \in Hosts, Wipe(h)
       PROVE  /\ token'[e] \in {token[e], None} /\ config'[e] \in {config[e], NoConfig}
              /\ proc'[e].cfg \in {proc[e].cfg, NoConfig}
  BY <1>1, <1>2, <1>18, WipeTyped, Types DEF Wipe
<1> QED
  BY <1>4, <1>5, <1>6, <1>7, <1>8, <1>9, <1>10, <1>11, <1>12, <1>13, <1>14, <1>15, <1>16, <1>17, <1>18
     DEF Next, Step

\* An instance is heard of only when the gateway shows its token.
LEMMA UnheardStays ==
  ASSUME Typed, Next, NEW i \in Ids, Unheard(i), tokens' \subseteq tokens \cup {token[e] : e \in Edges}
  PROVE  Unheard(i)'
<1>1. NoConfig.id # i
  BY Records
<1>2. ASSUME NEW e \in Edges
      PROVE  config'[e].id # i /\ proc'[e].cfg.id # i /\ (token'[e] = None \/ token'[e].id # i)
  BY <1>1, <1>2, EdgeHears DEF Unheard
<1>3. \A t \in tokens' : t # None
  BY NextTyped, NoTokenAssumption DEF Typed, TypeOK
<1>4. \A t \in tokens' : t.id # i
  BY <1>3 DEF Unheard
<1> QED
  BY <1>2, <1>4 DEF Unheard

\* Nobody can have heard of the next instance.
LEMMA FreshUnheard ==
  ASSUME Typed, NEW n, n = minted + 1
  PROVE  Unheard(n)
<1>1. minted \in Nat
  BY Records
<1>2. \A i \in Ids : i # n
  BY <1>1 DEF Ids
<1>3. None # n
  BY <1>1, NoneAssumption
<1>4. \A c \in Configs : c.id # n
  BY <1>1, <1>2, <1>3, Records
<1>5. \A t \in Spoken : t.id # n
  BY <1>2 DEF Spoken
<1>6. /\ \A e \in Edges : e \in Hosts /\ config[e] \in Configs /\ proc[e].cfg \in Configs
      /\ \A e \in Edges : token[e] \in Spoken \cup {None}
      /\ tokens \subseteq Spoken
  BY <1>1, Types DEF Hosts
<1> QED
  BY <1>4, <1>5, <1>6 DEF Unheard

----------------------------------------------------------------------------
(***************************************************************************)
(* Trusted is kept.                                                        *)
(***************************************************************************)

\* An answer stays an answer.
LEMMA AnsweredStays ==
  ASSUME tokens \subseteq tokens', NEW k, NEW i, Answered(k, i)
  PROVE  Answered(k, i)'
  BY DEF Answered

\* Who is let in, without and with an instance.
LEMMA NobodyWithoutConfig ==
  ASSUME Trusted, config[Gateway] = NoConfig
  PROVE  link[Gateway].peer = None /\ up[Gateway].peer = None /\ authorized = {}
<1>1. \A r \in tokens : r.id # None
  BY Types, Records DEF Trusted, Spoken
<1> QED
  BY <1>1, Records DEF Trusted, AdmitsOnlyAnswers, Admitted, Cleared

LEMMA AdmittedOne ==
  ASSUME tokens \subseteq tokens', config'[Gateway].id = config[Gateway].id, AdmitsOnlyAnswers,
         \A k \in {link'[Gateway].peer, up'[Gateway].peer} \cup {a.key : a \in authorized'} :
           k = None \/ k \in Admitted \/ Answered(k, config[Gateway].id)
  PROVE  AdmitsOnlyAnswers'
<1>1. \A k \in Admitted' : k \in Admitted \/ Answered(k, config[Gateway].id)
  BY DEF Admitted
<1> QED
  BY <1>1 DEF AdmitsOnlyAnswers, Answered

\* The gateway's command goes on, except for what uninstalls, or returns.
GoesOn ==
  \/ proc'[Gateway] = Free /\ Left(Gateway)' = {}
  \/ /\ proc'[Gateway].cmd = proc[Gateway].cmd /\ proc'[Gateway].cfg = proc[Gateway].cfg
     /\ \A s \in UninstallSet : s \in Left(Gateway)' <=> s \in Left(Gateway)
     /\ Left(Gateway)' \subseteq Left(Gateway)

LEMMA MovedGoesOn ==
  ASSUME NEW h \in Hosts, NEW step, Moved(h, step), step \notin UninstallSet \/ h # Gateway
  PROVE  GoesOn
  BY DEF Moved, GoesOn, Hosts

LEMMA EdgeBegunGoesOn ==
  ASSUME NEW e \in Edges, NEW cmd, NEW S, NEW cfg, NEW new, Begun(e, cmd, S, cfg, new)
  PROVE  GoesOn
  BY HostsAssumption DEF Begun, GoesOn, Hosts

\* What the gateway has yet to uninstall may be less than that.
Continues ==
  \/ proc'[Gateway] = Free /\ Left(Gateway)' = {}
  \/ /\ proc'[Gateway].cmd = proc[Gateway].cmd /\ proc'[Gateway].cfg = proc[Gateway].cfg
     /\ "wipe" \in Left(Gateway)' <=> "wipe" \in Left(Gateway)
     /\ Left(Gateway)' \subseteq Left(Gateway)

LEMMA MovedContinues ==
  ASSUME NEW step, Moved(Gateway, step), step # "wipe"
  PROVE  Continues
  BY DEF Moved, Continues

\* A step under one instance that lets in nobody but those who have answered.
LEMMA PeersKeepTrusted ==
  ASSUME Trusted, Next, Typed', Continues, config'[Gateway] = config[Gateway],
         \/ tokens' \subseteq tokens \cup {token[e] : e \in Edges}
         \/ ~(proc'[Gateway].cmd = "init" /\ "save" \in Left(Gateway)'),
         \A k \in {link'[Gateway].peer, up'[Gateway].peer} :
           k = None \/ k \in Admitted \/ Answered(k, config[Gateway].id),
         \A a \in authorized' : a \in authorized
           \/ (/\ mode = "ssh" /\ config[Gateway] # NoConfig
               /\ a.id = config[Gateway].id /\ Answered(a.key, a.id)),
         "wipe" \in Left(Gateway)' =>
           /\ "down" \notin Left(Gateway)' => up'[Gateway].peer = None
           /\ "unlink" \notin Left(Gateway)' => link'[Gateway].peer = None
           /\ "revoke" \notin Left(Gateway)' => authorized' = {}
  PROVE  Trusted'
<1>1. tokens \subseteq tokens' /\ mode' = mode /\ Typed
  BY TokensGrow DEF Next, Trusted
<1>2. AdmitsOnlyAnswers'
  <2>1. \A a \in authorized' : a.key = None \/ a.key \in Admitted \/ Answered(a.key, config[Gateway].id)
    BY DEF Admitted
  <2> QED
    BY <1>1, <2>1, AdmittedOne DEF Trusted
<1>3. Cleared'
  BY <1>1 DEF Trusted, Cleared
<1>4. Starting'
  <2>1. CASE proc'[Gateway].cmd = "init" /\ "save" \in Left(Gateway)'
    <3>1. /\ proc[Gateway].cmd = "init" /\ "save" \in Left(Gateway) /\ proc'[Gateway].cfg = proc[Gateway].cfg
          /\ "wipe" \in Left(Gateway)' <=> "wipe" \in Left(Gateway)
      BY <2>1, FreeRuns DEF Continues
    <3>2. proc[Gateway].cfg.id \in Ids
      BY <1>1, <3>1, Types, Records DEF Typed, Keyed, Makes, Hosts
    <3>3. PICK i : i = proc[Gateway].cfg.id
      OBVIOUS
    <3>4. Unheard(i)'
      BY <1>1, <2>1, <3>1, <3>2, <3>3, UnheardStays DEF Trusted, Starting
    <3> QED
      BY <3>1, <3>3, <3>4 DEF Trusted, Starting
  <2>2. CASE ~(proc'[Gateway].cmd = "init" /\ "save" \in Left(Gateway)')
    BY <2>2, FreeRuns DEF Trusted, Starting, Continues
  <2> QED
    BY <2>1, <2>2
<1>5. Accepting'
  BY <1>1, FreeRuns, AnsweredStays DEF Trusted, Accepting, Continues
<1> QED
  BY <1>2, <1>3, <1>4, <1>5 DEF Trusted

\* What an edge does, or the gateway without touching any of this.
LEMMA QuietKeepsTrusted ==
  ASSUME Trusted, Next, Typed', GoesOn, tokens' \subseteq tokens \cup {token[e] : e \in Edges},
         config'[Gateway] = config[Gateway], link'[Gateway] = link[Gateway],
         up'[Gateway] = up[Gateway], authorized' = authorized
  PROVE  Trusted'
<1>1. Continues
  BY DEF GoesOn, Continues, UninstallSet
<1>2. \A k \in {link'[Gateway].peer, up'[Gateway].peer} : k = None \/ k \in Admitted
  BY DEF Admitted
<1>3. "wipe" \in Left(Gateway)' =>
        /\ "down" \notin Left(Gateway)' => up'[Gateway].peer = None
        /\ "unlink" \notin Left(Gateway)' => link'[Gateway].peer = None
        /\ "revoke" \notin Left(Gateway)' => authorized' = {}
  BY DEF Trusted, Cleared, GoesOn, UninstallSet
<1> QED
  BY <1>1, <1>2, <1>3, PeersKeepTrusted


LEMMA EdgeKeepsTrusted ==
  ASSUME Trusted, Next, NEW e \in Edges,
         \/ Join(e) \/ Doctor(e) \/ Probe(e) \/ Uninstall(e) \/ ShowToken(e) \/ ManageLink(e)
         \/ Step(e) \/ FailStep(e) \/ Kill(e) \/ Reboot(e)
  PROVE  Trusted'
<1>1. Typed /\ Typed' /\ mode' = mode /\ e \in Hosts
  BY NextTyped DEF Trusted, Next, Hosts
<1>2. /\ e # Gateway /\ Gateway \in Hosts
      /\ config \in [Hosts -> Configs] /\ link \in [Hosts -> Links] /\ up \in [Hosts -> Links]
  BY <1>1, HostsAssumption, Types DEF Hosts
<1> DEFINE Quiet ==
             /\ config'[Gateway] = config[Gateway] /\ link'[Gateway] = link[Gateway]
             /\ up'[Gateway] = up[Gateway] /\ authorized' = authorized
             /\ tokens' \subseteq tokens \cup {token[f] : f \in Edges}
<1>3. CASE Join(e) \/ Doctor(e) \/ Uninstall(e)
  <2>1. GoesOn
    BY <1>1, <1>3, EdgeBegunGoesOn, JoinTyped, DoctorTyped, UninstallTyped
  <2>2. Quiet
    BY <1>3 DEF Join, Doctor, Uninstall, Begin
  <2> QED
    BY <1>1, <2>1, <2>2, QuietKeepsTrusted
<1>4. CASE Probe(e) \/ ShowToken(e) \/ ManageLink(e) \/ FailStep(e) \/ Kill(e) \/ Reboot(e)
  <2>1. GoesOn
    BY <1>1, <1>2, <1>4, MovedGoesOn, ProbeTyped, ShowTokenTyped, ManageLinkTyped, FailStepTyped, KillTyped,
       RebootTyped
  <2>2. Quiet
    BY <1>2, <1>4 DEF Probe, ShowToken, ManageLink, FailStep, Kill, Reboot
  <2> QED
    BY <1>1, <2>1, <2>2, QuietKeepsTrusted
<1>5. CASE Step(e)
  <2>1. GoesOn
    BY <1>1, <1>2, <1>5, MovedGoesOn, CheckConflictsTyped, GenerateKeysTyped, WriteLinkTyped, SaveConfigTyped,
       StartLinkTyped, WriteTokenTyped, PrintTokenTyped, TakeDownTyped, RevokePeersTyped, RemoveLinkTyped,
       WipeTyped DEF Step
  <2>2. ASSUME WriteLink(e) \/ StartLink(e) \/ TakeDown(e) \/ RemoveLink(e) PROVE Quiet
    BY <1>2, <2>2 DEF WriteLink, StartLink, TakeDown, RemoveLink
  <2>3. ASSUME CheckConflicts(e) \/ GenerateKeys(e) \/ SaveConfig(e) \/ WriteToken(e) \/ PrintToken(e)
        PROVE  Quiet
    BY <1>2, <2>3 DEF CheckConflicts, GenerateKeys, SaveConfig, WriteToken, PrintToken
  <2>4. ASSUME RevokePeers(e) \/ Wipe(e) PROVE Quiet
    BY <1>2, <2>4 DEF RevokePeers, Wipe
  <2>5. Quiet
    BY <1>5, <2>2, <2>3, <2>4 DEF Step
  <2> QED
    BY <1>1, <2>1, <2>5, QuietKeepsTrusted
<1> HIDE DEF Quiet
<1> QED
  BY <1>3, <1>4, <1>5

\* The gateway begins a command.
LEMMA InitOutsideKeepsTrusted ==
  ASSUME Trusted, Next, InitOutside
  PROVE  Trusted'
<1>1. /\ Typed /\ Typed' /\ mode' = mode /\ Gateway \in Hosts /\ tokens' = tokens
      /\ config' = config /\ link' = link /\ up' = up /\ authorized' = authorized /\ token' = token
      /\ minted \in Nat
  BY NextTyped, Records DEF Trusted, Next, Hosts, InitOutside, Begin
<1>2. PICK S \in {InitSet, UninstallSet \cup InitSet} :
        /\ Begun(Gateway, "init", S, InitConfig, NewKeys(Gateway, FreshKey(Gateway)))
        /\ S = InitSet => config[Gateway] = NoConfig
  BY <1>1, InitOutsideTyped
<1>3. /\ proc'[Gateway].cmd = "init" /\ proc'[Gateway].cfg = InitConfig /\ Left(Gateway)' = S
      /\ \A e \in Edges : proc'[e] = proc[e]
      /\ InitConfig.id = minted + 1 /\ InitConfig.peer = None
  BY <1>2, HostsAssumption DEF Begun, InitConfig, Hosts
<1>4. AdmitsOnlyAnswers'
  BY <1>1, AdmittedOne DEF Trusted, Admitted
<1>5. "wipe" \notin InitSet /\ UninstallSet \subseteq UninstallSet \cup InitSet
  BY DEF InitSet
<1>6. Cleared'
  BY <1>1, <1>2, <1>3, <1>5 DEF Trusted, Cleared, UninstallSet
<1>7. PICK n : n = minted + 1
  OBVIOUS
<1>8. Unheard(n)'
  BY <1>1, <1>3, <1>7, FreshUnheard DEF Unheard
<1>9. Starting'
  BY <1>1, <1>2, <1>3, <1>5, <1>7, <1>8 DEF Starting, UninstallSet
<1>10. Accepting'
  BY <1>3 DEF Accepting
<1> QED
  BY <1>1, <1>4, <1>6, <1>9, <1>10 DEF Trusted

LEMMA AcceptKeepsTrusted ==
  ASSUME Trusted, Next, Accept
  PROVE  Trusted'
<1>1. /\ Typed /\ Typed' /\ mode' = mode /\ tokens' = tokens
      /\ config' = config /\ link' = link /\ up' = up /\ authorized' = authorized
  BY NextTyped DEF Trusted, Next, Accept, Begin
<1>2. PICK r \in tokens : \E c :
        /\ r.kind = "response" /\ r.id = config[Gateway].id /\ c.id = r.id /\ c.peer = r.key
        /\ Begun(Gateway, "accept", AcceptSet, c, NoSecrets)
  BY <1>1, AcceptTyped
<1>3. /\ proc'[Gateway].cmd = "accept" /\ proc'[Gateway].cfg.id = config[Gateway].id
      /\ proc'[Gateway].cfg.peer = r.key /\ Left(Gateway)' = AcceptSet
  BY <1>2 DEF Begun
<1>4. AdmitsOnlyAnswers'
  BY <1>1, AdmittedOne DEF Trusted, Admitted
<1>5. "wipe" \notin AcceptSet
  <2>1. mode \in {"ara", "wireguard", "ipip", "ssh"}
    BY <1>1, ModesAssumption DEF Typed, TypeOK
  <2> QED
    BY <2>1 DEF AcceptSet, WG
<1>6. Cleared'
  BY <1>1, <1>3, <1>5 DEF Trusted, Cleared
<1>7. Starting' /\ Accepting'
  BY <1>1, <1>2, <1>3 DEF Starting, Accepting, Answered
<1> QED
  BY <1>1, <1>4, <1>6, <1>7 DEF Trusted

LEMMA UninstallKeepsTrusted ==
  ASSUME Trusted, Next, Uninstall(Gateway)
  PROVE  Trusted'
<1>1. /\ Typed /\ Typed' /\ mode' = mode /\ tokens' = tokens /\ Gateway \in Hosts
      /\ config' = config /\ link' = link /\ up' = up /\ authorized' = authorized
  BY NextTyped DEF Trusted, Next, Uninstall, Begin, Hosts
<1>2. Begun(Gateway, "uninstall", UninstallSet, config[Gateway], NoSecrets)
  BY <1>1, UninstallTyped
<1>3. AdmitsOnlyAnswers'
  BY <1>1, AdmittedOne DEF Trusted, Admitted
<1>4. Cleared' /\ Starting' /\ Accepting'
  BY <1>1, <1>2 DEF Trusted, Cleared, Starting, Accepting, Begun, UninstallSet
<1> QED
  BY <1>1, <1>3, <1>4 DEF Trusted

\* The gateway takes a step.
LEMMA QuietStepKeepsTrusted ==
  ASSUME Trusted, Next,
         \/ CheckConflicts(Gateway) \/ GenerateKeys(Gateway) \/ PrepareMTLS \/ ScrubMTLS \/ WriteToken(Gateway)
         \/ Kill(Gateway)
  PROVE  Trusted'
<1>1. Typed /\ Typed' /\ mode' = mode /\ Gateway \in Hosts
  BY NextTyped DEF Trusted, Next, Hosts
<1>2. GoesOn
  <2>1. \E step : Moved(Gateway, step) /\ step \notin UninstallSet
    BY <1>1, CheckConflictsTyped, GenerateKeysTyped, PrepareMTLSTyped, ScrubMTLSTyped, WriteTokenTyped, KillTyped
       DEF UninstallSet
  <2> QED
    BY <1>1, <2>1, MovedGoesOn
<1>3. tokens' = tokens /\ config' = config /\ link' = link /\ up' = up /\ authorized' = authorized
  BY DEF CheckConflicts, GenerateKeys, PrepareMTLS, ScrubMTLS, WriteToken, Kill
<1> QED
  BY <1>1, <1>2, <1>3, QuietKeepsTrusted

LEMMA WriteLinkKeepsTrusted ==
  ASSUME Trusted, Next, WriteLink(Gateway)
  PROVE  Trusted'
<1>1. Typed /\ Typed' /\ mode' = mode /\ Gateway \in Hosts /\ link \in [Hosts -> Links]
  BY NextTyped, Types DEF Trusted, Next, Hosts
<1>2. At(Gateway, "link") /\ Moved(Gateway, "link")
  BY <1>1, WriteLinkTyped DEF WriteLink
<1>3. tokens' = tokens /\ config' = config /\ up' = up /\ authorized' = authorized
  BY DEF WriteLink
<1>4. "wipe" \notin Left(Gateway)' /\ proc[Gateway].cmd \in {"init", "accept"}
  BY <1>1, <1>2, AtHead, Owners DEF Moved, Rank
<1>5. link'[Gateway].peer \in {link[Gateway].peer, proc[Gateway].cfg.peer}
  BY <1>1 DEF WriteLink
<1>6. proc[Gateway].cfg.peer = None \/ Answered(proc[Gateway].cfg.peer, config[Gateway].id)
  BY <1>4 DEF Trusted, Starting, Accepting
<1>7. \A k \in {link'[Gateway].peer, up'[Gateway].peer} :
        k = None \/ k \in Admitted \/ Answered(k, config[Gateway].id)
  BY <1>3, <1>5, <1>6 DEF Admitted
<1> QED
  BY <1>1, <1>2, <1>3, <1>4, <1>7, MovedContinues, PeersKeepTrusted

\* The link in the running system is the one on disk, or the one before, or none.
LEMMA RunningKeepsTrusted ==
  ASSUME Trusted, Next, StartLink(Gateway) \/ ManageLink(Gateway) \/ FailStep(Gateway) \/ Reboot(Gateway)
  PROVE  Trusted'
<1>1. /\ Typed /\ Typed' /\ mode' = mode /\ Gateway \in Hosts /\ up \in [Hosts -> Links]
      /\ NoLink.peer = None
  BY NextTyped, Types, Records DEF Trusted, Next, Hosts
<1>2. tokens' = tokens /\ config' = config /\ link' = link /\ authorized' = authorized
  BY DEF StartLink, ManageLink, FailStep, Reboot
<1>3. up'[Gateway] \in {up[Gateway], link[Gateway], NoLink}
  BY <1>1 DEF StartLink, ManageLink, FailStep, Reboot
<1>4. Continues /\ "wipe" \notin Left(Gateway)'
  <2>1. CASE StartLink(Gateway)
    <3>1. PICK step \in {"activate", "restart"} : At(Gateway, step) /\ Moved(Gateway, step)
      BY <1>1, <2>1, StartLinkTyped
    <3>2. "wipe" \notin Left(Gateway)
      BY <1>1, <3>1, AtHead DEF Rank
    <3> QED
      BY <3>1, <3>2, MovedContinues DEF Moved
  <2>2. CASE ManageLink(Gateway)
    <3>1. Left(Gateway) = {} /\ Moved(Gateway, "nothing")
      BY <1>1, <2>2, FreeIsOrderly, ManageLinkTyped DEF ManageLink
    <3> QED
      BY <3>1, MovedContinues DEF Moved
  <2>3. CASE FailStep(Gateway) \/ Reboot(Gateway)
    BY <1>1, <2>3, FailStepTyped, RebootTyped DEF Continues
  <2> QED
    BY <2>1, <2>2, <2>3
<1>5. \A k \in {link'[Gateway].peer, up'[Gateway].peer} : k = None \/ k \in Admitted
  BY <1>1, <1>2, <1>3 DEF Admitted
<1> QED
  BY <1>1, <1>2, <1>4, <1>5, PeersKeepTrusted

LEMMA AuthorizePeerKeepsTrusted ==
  ASSUME Trusted, Next, AuthorizePeer
  PROVE  Trusted'
<1>1. Typed /\ Typed' /\ mode' = mode /\ Gateway \in Hosts
  BY NextTyped DEF Trusted, Next, Hosts
<1>2. At(Gateway, "authorize") /\ Moved(Gateway, "authorize")
  BY <1>1, AuthorizePeerTyped DEF AuthorizePeer
<1>3. tokens' = tokens /\ config' = config /\ up' = up /\ link' = link
  BY DEF AuthorizePeer
<1>4. "wipe" \notin Left(Gateway)' /\ proc[Gateway].cmd = "accept" /\ mode = "ssh"
  BY <1>1, <1>2, AtHead, Owners DEF Moved, Rank
<1>5. PICK c : c = proc[Gateway].cfg
  OBVIOUS
<1>6. config[Gateway].id = c.id /\ Answered(c.peer, c.id)
  BY <1>4, <1>5 DEF Trusted, Accepting
<1>7. config[Gateway] # NoConfig
  <2>1. \A r \in tokens : r.id \in Ids
    BY <1>1, Types DEF Spoken
  <2> QED
    BY <1>1, <1>6, <2>1, Records DEF Answered
<1>8. \A a \in authorized' : a \in authorized \/ a = [key |-> c.peer, id |-> c.id]
  BY <1>5 DEF AuthorizePeer
<1>9. \A k \in {link'[Gateway].peer, up'[Gateway].peer} : k = None \/ k \in Admitted
  BY <1>3 DEF Admitted
<1> QED
  BY <1>1, <1>2, <1>3, <1>4, <1>6, <1>7, <1>8, <1>9, MovedContinues, PeersKeepTrusted

LEMMA TakeDownKeepsTrusted ==
  ASSUME Trusted, Next, "ignoredFails" \notin Faults, TakeDown(Gateway)
  PROVE  Trusted'
<1>1. /\ Typed /\ Typed' /\ mode' = mode /\ Gateway \in Hosts /\ up \in [Hosts -> Links]
      /\ NoLink.peer = None
  BY NextTyped, Types, Records DEF Trusted, Next, Hosts
<1>2. Moved(Gateway, "down")
  BY <1>1, TakeDownTyped
<1>3. tokens' = tokens /\ config' = config /\ link' = link /\ authorized' = authorized
  BY DEF TakeDown
<1>4. up'[Gateway].peer = None
  BY <1>1 DEF TakeDown
<1>5. \A k \in {link'[Gateway].peer, up'[Gateway].peer} : k = None \/ k \in Admitted
  BY <1>3, <1>4 DEF Admitted
<1>6. "wipe" \in Left(Gateway)' =>
        /\ "unlink" \notin Left(Gateway)' => link'[Gateway].peer = None
        /\ "revoke" \notin Left(Gateway)' => authorized' = {}
  BY <1>2, <1>3 DEF Trusted, Cleared, Moved
<1> QED
  BY <1>1, <1>2, <1>3, <1>4, <1>5, <1>6, MovedContinues, PeersKeepTrusted

LEMMA RemoveLinkKeepsTrusted ==
  ASSUME Trusted, Next, RemoveLink(Gateway)
  PROVE  Trusted'
<1>1. /\ Typed /\ Typed' /\ mode' = mode /\ Gateway \in Hosts /\ link \in [Hosts -> Links]
      /\ NoLink.peer = None
  BY NextTyped, Types, Records DEF Trusted, Next, Hosts
<1>2. Moved(Gateway, "unlink")
  BY <1>1, RemoveLinkTyped
<1>3. tokens' = tokens /\ config' = config /\ up' = up /\ authorized' = authorized
  BY DEF RemoveLink
<1>4. link'[Gateway].peer = None
  BY <1>1 DEF RemoveLink
<1>5. \A k \in {link'[Gateway].peer, up'[Gateway].peer} : k = None \/ k \in Admitted
  BY <1>3, <1>4 DEF Admitted
<1>6. "wipe" \in Left(Gateway)' =>
        /\ "down" \notin Left(Gateway)' => up'[Gateway].peer = None
        /\ "revoke" \notin Left(Gateway)' => authorized' = {}
  BY <1>2, <1>3 DEF Trusted, Cleared, Moved
<1> QED
  BY <1>1, <1>2, <1>3, <1>4, <1>5, <1>6, MovedContinues, PeersKeepTrusted

LEMMA RevokePeersKeepsTrusted ==
  ASSUME Trusted, Next, "ignoredFails" \notin Faults, RevokePeers(Gateway)
  PROVE  Trusted'
<1>1. Typed /\ Typed' /\ mode' = mode /\ Gateway \in Hosts
  BY NextTyped DEF Trusted, Next, Hosts
<1>2. Moved(Gateway, "revoke")
  BY <1>1, RevokePeersTyped
<1>3. tokens' = tokens /\ config' = config /\ up' = up /\ link' = link
  BY DEF RevokePeers
<1>4. authorized' = {}
  BY DEF RevokePeers, Trusted, Cleared
<1>5. \A k \in {link'[Gateway].peer, up'[Gateway].peer} : k = None \/ k \in Admitted
  BY <1>3 DEF Admitted
<1>6. "wipe" \in Left(Gateway)' =>
        /\ "down" \notin Left(Gateway)' => up'[Gateway].peer = None
        /\ "unlink" \notin Left(Gateway)' => link'[Gateway].peer = None
  BY <1>2, <1>3 DEF Trusted, Cleared, Moved
<1> QED
  BY <1>1, <1>2, <1>3, <1>4, <1>5, <1>6, MovedContinues, PeersKeepTrusted

\* The token of an instance is shown only once its configuration is saved.
LEMMA ShownKeepsTrusted ==
  ASSUME Trusted, Next, PrintToken(Gateway) \/ ShowToken(Gateway)
  PROVE  Trusted'
<1>1. Typed /\ Typed' /\ mode' = mode /\ Gateway \in Hosts
  BY NextTyped DEF Trusted, Next, Hosts
<1>2. config' = config /\ link' = link /\ up' = up /\ authorized' = authorized
  BY DEF PrintToken, ShowToken
<1>3. PICK step \in {"print", "nothing"} : Moved(Gateway, step)
  BY <1>1, PrintTokenTyped, ShowTokenTyped
<1>4. Continues
  BY <1>3, MovedContinues
<1>5. ~(proc'[Gateway].cmd = "init" /\ "save" \in Left(Gateway)')
  <2>1. CASE PrintToken(Gateway)
    <3>1. At(Gateway, "print")
      BY <2>1 DEF PrintToken
    <3>2. proc[Gateway].cmd = "init" => "save" \notin Left(Gateway)
      BY <1>1, <3>1, AtHead DEF Rank
    <3> QED
      BY <1>4, <3>2, FreeRuns DEF Continues
  <2>2. CASE ShowToken(Gateway)
    BY <1>1, <2>2, FreeRuns DEF ShowToken
  <2> QED
    BY <2>1, <2>2
<1>6. \A k \in {link'[Gateway].peer, up'[Gateway].peer} : k = None \/ k \in Admitted
  BY <1>2 DEF Admitted
<1>7. "wipe" \in Left(Gateway)' =>
        /\ "down" \notin Left(Gateway)' => up'[Gateway].peer = None
        /\ "unlink" \notin Left(Gateway)' => link'[Gateway].peer = None
        /\ "revoke" \notin Left(Gateway)' => authorized' = {}
  BY <1>2, <1>3 DEF Trusted, Cleared, Moved
<1> QED
  BY <1>1, <1>2, <1>4, <1>5, <1>6, <1>7, PeersKeepTrusted

\* What init saves is a new instance where there was none, and what accept
\* saves is the instance that is there.
LEMMA SaveConfigAtGateway ==
  ASSUME Trusted, Next, SaveConfig(Gateway)
  PROVE  /\ Moved(Gateway, "save") /\ "wipe" \notin Left(Gateway)
         /\ config'[Gateway] = proc[Gateway].cfg /\ config'[Gateway] # NoConfig
         /\ \/ /\ proc[Gateway].cmd = "init" /\ config[Gateway] = NoConfig
               /\ Unheard(config'[Gateway].id)
            \/ proc[Gateway].cmd = "accept" /\ config'[Gateway].id = config[Gateway].id
<1>1. Typed /\ mode' = mode /\ Gateway \in Hosts /\ config \in [Hosts -> Configs]
  BY Types DEF Trusted, Next, Hosts
<1>2. At(Gateway, "save") /\ Moved(Gateway, "save")
  BY <1>1, SaveConfigTyped DEF SaveConfig
<1>3. "wipe" \notin Left(Gateway) /\ "save" \in Left(Gateway) /\ proc[Gateway].cmd \in {"init", "accept"}
  BY <1>1, <1>2, AtHead, Owners DEF Rank
<1>4. config'[Gateway] = proc[Gateway].cfg
  BY <1>1 DEF SaveConfig
<1>5. CASE proc[Gateway].cmd = "init"
  BY <1>1, <1>2, <1>3, <1>4, <1>5 DEF Trusted, Starting, Typed, Keyed, Makes
<1>6. CASE proc[Gateway].cmd = "accept"
  <2>1. config'[Gateway].id = config[Gateway].id /\ Answered(proc[Gateway].cfg.peer, config'[Gateway].id)
    BY <1>4, <1>6 DEF Trusted, Accepting
  <2>2. \A r \in tokens : r.id \in Ids
    BY <1>1, Types DEF Spoken
  <2> QED
    BY <1>1, <1>2, <1>3, <1>4, <1>6, <2>1, <2>2, Records DEF Answered
<1> QED
  BY <1>3, <1>5, <1>6

LEMMA SaveConfigKeepsTrusted ==
  ASSUME Trusted, Next, SaveConfig(Gateway)
  PROVE  Trusted'
<1>1. Typed /\ Typed' /\ mode' = mode
  BY NextTyped DEF Trusted, Next
<1>2. tokens' = tokens /\ link' = link /\ up' = up /\ authorized' = authorized
  BY DEF SaveConfig
<1>3. /\ Moved(Gateway, "save") /\ "wipe" \notin Left(Gateway)
      /\ config'[Gateway] = proc[Gateway].cfg /\ config'[Gateway] # NoConfig
  BY SaveConfigAtGateway
<1>4. "save" \notin Left(Gateway)' /\ "wipe" \notin Left(Gateway)'
  BY <1>3 DEF Moved
<1>5. CASE proc[Gateway].cmd = "init" /\ config[Gateway] = NoConfig
  <2>1. link[Gateway].peer = None /\ up[Gateway].peer = None /\ authorized = {}
    BY <1>5, NobodyWithoutConfig
  <2>2. AdmitsOnlyAnswers' /\ Cleared'
    BY <1>2, <1>4, <2>1 DEF AdmitsOnlyAnswers, Admitted, Cleared
  <2>3. Starting'
    BY <1>3, <1>4, FreeRuns DEF Moved, Trusted, Starting
  <2>4. Accepting'
    BY <1>3, <1>5, FreeRuns DEF Moved, Accepting
  <2> QED
    BY <1>1, <2>2, <2>3, <2>4 DEF Trusted
<1>6. CASE proc[Gateway].cmd = "accept" /\ config'[Gateway].id = config[Gateway].id
  <2>1. AdmitsOnlyAnswers'
    BY <1>2, <1>6, AdmittedOne DEF Trusted, Admitted
  <2>2. Cleared'
    BY <1>1, <1>2, <1>3, <1>4, <1>6 DEF Trusted, Cleared
  <2>3. Starting' /\ Accepting'
    BY <1>2, <1>3, <1>6, FreeRuns DEF Moved, Trusted, Starting, Accepting, Answered
  <2> QED
    BY <1>1, <2>1, <2>2, <2>3 DEF Trusted
<1> QED
  BY <1>5, <1>6, SaveConfigAtGateway

\* The configuration goes when nobody is let in any more.
LEMMA WipeAtGateway ==
  ASSUME Trusted, Next, Wipe(Gateway)
  PROVE  /\ link[Gateway].peer = None /\ up[Gateway].peer = None /\ authorized = {}
         /\ config'[Gateway] \in {config[Gateway], NoConfig}
<1>1. Typed /\ mode' = mode /\ Gateway \in Hosts /\ config \in [Hosts -> Configs]
  BY Types DEF Trusted, Next, Hosts
<1>2. At(Gateway, "wipe")
  BY DEF Wipe
<1>3. "wipe" \in Left(Gateway) /\ Left(Gateway) \cap {"down", "unlink", "revoke"} = {}
  BY <1>1, <1>2, AtHead DEF Rank
<1> QED
  BY <1>1, <1>3 DEF Trusted, Cleared, Wipe

LEMMA WipeKeepsTrusted ==
  ASSUME Trusted, Next, Wipe(Gateway)
  PROVE  Trusted'
<1>1. Typed /\ Typed' /\ mode' = mode /\ Gateway \in Hosts /\ config \in [Hosts -> Configs]
  BY NextTyped, Types DEF Trusted, Next, Hosts
<1>2. tokens' = tokens /\ link' = link /\ up' = up /\ authorized' = authorized
  BY DEF Wipe
<1>3. link[Gateway].peer = None /\ up[Gateway].peer = None /\ authorized = {}
  BY WipeAtGateway
<1>4. AdmitsOnlyAnswers' /\ Cleared'
  BY <1>2, <1>3 DEF AdmitsOnlyAnswers, Admitted, Cleared
<1>5. proc[Gateway].cmd # "accept"
  <2>1. At(Gateway, "wipe")
    BY DEF Wipe
  <2> QED
    BY <1>1, <2>1, AtHead, Owners
<1>6. CASE proc' = proc /\ Moved(Gateway, "nothing")
  <2>1. Left(Gateway)' = Left(Gateway) /\ "wipe" \in Left(Gateway)
    <3>1. At(Gateway, "wipe")
      BY DEF Wipe
    <3> QED
      BY <1>1, <1>6, <3>1, AtHead DEF Left
  <2>2. Starting'
    <3>1. proc[Gateway].cmd = "init" => proc[Gateway].cfg.id \in Ids
      BY <1>1, Types, Records DEF Typed, Keyed, Makes
    <3>2. PICK i : i = proc[Gateway].cfg.id
      OBVIOUS
    <3>3. proc[Gateway].cmd = "init" /\ "save" \in Left(Gateway) => Unheard(i)'
      BY <1>1, <1>2, <3>1, <3>2, UnheardStays DEF Trusted, Starting
    <3> QED
      BY <1>6, <2>1, <3>2, <3>3 DEF Trusted, Starting
  <2>3. Accepting'
    BY <1>5, <1>6 DEF Accepting
  <2> QED
    BY <1>1, <1>4, <2>2, <2>3 DEF Trusted
<1>7. CASE proc' # proc /\ Moved(Gateway, "wipe")
  <2>1. config' = config /\ config[Gateway] = NoConfig
    BY <1>7 DEF Wipe
  <2>2. Starting'
    <3>1. proc[Gateway].cmd = "init" => proc[Gateway].cfg.id \in Ids
      BY <1>1, Types, Records DEF Typed, Keyed, Makes
    <3>2. PICK i : i = proc[Gateway].cfg.id
      OBVIOUS
    <3>3. proc[Gateway].cmd = "init" /\ "save" \in Left(Gateway) => Unheard(i)'
      BY <1>1, <1>2, <3>1, <3>2, UnheardStays DEF Trusted, Starting
    <3> QED
      BY <1>7, <2>1, <3>2, <3>3, FreeRuns DEF Trusted, Starting, Moved
  <2>3. Accepting'
    BY <1>5, <1>7, FreeRuns DEF Accepting, Moved
  <2> QED
    BY <1>1, <1>4, <2>2, <2>3 DEF Trusted
<1>8. CASE proc' = proc
  BY <1>1, <1>6, <1>8, StayMoves
<1> QED
  BY <1>1, <1>7, <1>8, WipeTyped

----------------------------------------------------------------------------
(***************************************************************************)
(* The theorems.                                                           *)
(***************************************************************************)

LEMMA InitTrusted == Init => Trusted
<1> SUFFICES ASSUME Init PROVE Trusted
  OBVIOUS
<1>1. /\ Typed /\ Gateway \in Hosts
      /\ link[Gateway] = NoLink /\ up[Gateway] = NoLink /\ authorized = {}
  BY InitTyped DEF Init, Hosts
<1>2. proc[Gateway] = Free /\ Left(Gateway) = {}
  BY <1>1, FreeIsOrderly DEF Init
<1> QED
  BY <1>1, <1>2, Records, FreeRuns DEF Trusted, AdmitsOnlyAnswers, Admitted, Cleared, Starting, Accepting

LEMMA NextTrusted ==
  ASSUME "ignoredFails" \notin Faults, Trusted, [Next]_vars
  PROVE  Trusted'
<1>1. CASE UNCHANGED vars
  <2>1. Typed'
    BY <1>1, NextTyped DEF Trusted
  <2>2. AdmitsOnlyAnswers' /\ Cleared'
    BY <1>1 DEF vars, Trusted, AdmitsOnlyAnswers, Admitted, Cleared, Left
  <2>3. Starting' /\ Accepting'
    BY <1>1 DEF vars, Trusted, Starting, Accepting, Answered, Unheard, Left
  <2> QED
    BY <2>1, <2>2, <2>3 DEF Trusted
<1>2. CASE Next
  <2>1. CASE InitOutside \/ Accept \/ PrepareMTLS \/ ScrubMTLS \/ AuthorizePeer
    BY <1>2, <2>1, InitOutsideKeepsTrusted, AcceptKeepsTrusted, QuietStepKeepsTrusted, AuthorizePeerKeepsTrusted
  <2>2. ASSUME NEW e \in Edges,
               \/ Join(e) \/ Doctor(e) \/ Probe(e) \/ Uninstall(e) \/ ShowToken(e) \/ ManageLink(e)
               \/ Step(e) \/ FailStep(e) \/ Kill(e) \/ Reboot(e)
        PROVE  Trusted'
    BY <1>2, <2>2, EdgeKeepsTrusted
  <2>3. CASE \/ Uninstall(Gateway) \/ ShowToken(Gateway) \/ ManageLink(Gateway)
             \/ FailStep(Gateway) \/ Kill(Gateway) \/ Reboot(Gateway)
    BY <1>2, <2>3, UninstallKeepsTrusted, ShownKeepsTrusted, RunningKeepsTrusted, QuietStepKeepsTrusted
  <2>4. CASE Step(Gateway)
    BY <1>2, <2>4, QuietStepKeepsTrusted, WriteLinkKeepsTrusted, SaveConfigKeepsTrusted, RunningKeepsTrusted,
       ShownKeepsTrusted, TakeDownKeepsTrusted, RevokePeersKeepsTrusted, RemoveLinkKeepsTrusted,
       WipeKeepsTrusted DEF Step
  <2> QED
    BY <1>2, <2>1, <2>2, <2>3, <2>4 DEF Next, Hosts
<1> QED
  BY <1>1, <1>2

\* Unless systemctl or userdel fails unnoticed, the gateway lets in only peers
\* that have answered the instance it has: after any --force, stale token,
\* failed step, kill or reboot.  (ValidateResponse, InitOutside, Uninstall.)
THEOREM AdmitsAnswers == "ignoredFails" \notin Faults => (Spec => []AdmitsOnlyAnswers)
<1> SUFFICES ASSUME "ignoredFails" \notin Faults PROVE Spec => []AdmitsOnlyAnswers
  OBVIOUS
<1>1. Trusted /\ [Next]_vars => Trusted'
  BY NextTrusted
<1>2. Trusted => AdmitsOnlyAnswers
  BY DEF Trusted
<1> QED
  BY InitTrusted, <1>1, <1>2, PTL DEF Spec

----------------------------------------------------------------------------
(***************************************************************************)
(* The commands implement Trust.                                           *)
(***************************************************************************)

Given == {<<r.id, r.key>> : r \in {t \in tokens : t.kind = "response"}}

LEMMA ConfigChanges ==
  ASSUME Typed, Next, config'[Gateway] # config[Gateway]
  PROVE  SaveConfig(Gateway) \/ Wipe(Gateway)
<1>1. \A h \in Hosts : (SaveConfig(h) \/ Wipe(h)) /\ h # Gateway => config'[Gateway] = config[Gateway]
  BY Types DEF SaveConfig, Wipe, Hosts
<1>2. CASE \E h \in Hosts : SaveConfig(h) \/ Wipe(h)
  BY <1>1, <1>2
<1>3. CASE ~\E h \in Hosts : SaveConfig(h) \/ Wipe(h)
  <2>1. config' = config
    BY <1>3 DEF Next, Step, InitOutside, Join, Accept, Uninstall, Doctor, Begin, CheckConflicts,
       GenerateKeys, PrepareMTLS, WriteLink, AuthorizePeer, StartLink, WriteToken, ScrubMTLS, PrintToken,
       TakeDown, RevokePeers, RemoveLink, Probe, ShowToken, ManageLink, Kill, FailStep, Reboot
  <2> QED
    BY <2>1
<1> QED
  BY <1>2, <1>3

LEMMA InitImplements == Init => T!Init
<1>1. NoConfig.id = None /\ NoLink.peer = None
  BY DEF NoConfig, NoLink
<1> QED
  BY <1>1 DEF Init, T!Init, Admitted, Hosts

LEMMA NextImplements ==
  ASSUME Trusted, Trusted', Next
  PROVE  T!Next \/ UNCHANGED T!vars
<1>1. /\ Typed /\ Typed' /\ mode' = mode /\ Gateway \in Hosts
      /\ minted \in Nat /\ MaxMinted \in Nat /\ Ids \subseteq 1 .. MaxMinted
  BY Records, MintedAssumption DEF Trusted, Next, Hosts, Ids
<1>2. CASE tokens' # tokens
  <2>1. PICK h \in Hosts : /\ PrintToken(h) \/ ShowToken(h)
                           /\ token[h] \in Spoken /\ tokens' = tokens \cup {token[h]}
    BY <1>1, <1>2, TokensGrow
  <2>2. config' = config /\ Admitted' = Admitted
    BY <2>1 DEF PrintToken, ShowToken, Admitted
  <2>3. CASE token[h].kind = "response"
    <3>1. Given' = Given \cup {<<token[h].id, token[h].key>>}
      BY <2>1, <2>3 DEF Given
    <3>2. token[h].id \in 1 .. MaxMinted /\ token[h].key \in Hosts \cup 1 .. MaxMinted
      BY <1>1, <2>1 DEF Spoken
    <3>3. T!Answer
      BY <2>2, <3>1, <3>2 DEF T!Answer, Given
    <3> QED
      BY <3>3 DEF T!Next
  <2>4. CASE token[h].kind # "response"
    <3>1. Given' = Given
      BY <2>1, <2>4 DEF Given
    <3> QED
      BY <2>2, <3>1 DEF T!vars, Given
  <2> QED
    BY <2>3, <2>4
<1>3. CASE tokens' = tokens /\ config'[Gateway].id = config[Gateway].id
  <2>1. \A k \in Admitted' : k \in Hosts \cup 1 .. MaxMinted /\ <<config[Gateway].id, k>> \in Given
    <3> TAKE k \in Admitted'
    <3>1. PICK r \in tokens : r.kind = "response" /\ r.key = k /\ r.id = config[Gateway].id
      BY <1>3 DEF Trusted, AdmitsOnlyAnswers
    <3>2. r.key \in Hosts \cup 1 .. MaxMinted
      BY <1>1, <3>1, Types DEF Spoken
    <3> QED
      BY <3>1, <3>2 DEF Given
  <2>2. Given' = Given
    BY <1>3 DEF Given
  <2>3. T!Admit
    BY <1>3, <2>1, <2>2 DEF T!Admit, Given
  <2> QED
    BY <2>3 DEF T!Next
<1>4. CASE tokens' = tokens /\ config'[Gateway].id # config[Gateway].id
  <2>1. Given' = Given
    BY <1>4 DEF Given
  <2>2. SaveConfig(Gateway) \/ Wipe(Gateway)
    BY <1>1, <1>4, ConfigChanges
  <2>3. CASE SaveConfig(Gateway)
    <3>1. config[Gateway] = NoConfig /\ config'[Gateway] # NoConfig /\ Unheard(config'[Gateway].id)
      BY <1>4, <2>3, SaveConfigAtGateway
    <3>2. config'[Gateway] \in Configs' /\ Ids' = Ids
      BY <1>1, <2>3, Types DEF SaveConfig, Trusted, Typed, Ids
    <3>3. config'[Gateway].id \in 1 .. MaxMinted
      BY <1>1, <3>1, <3>2 DEF Configs
    <3>4. Admitted = {} /\ Admitted' = Admitted
      BY <2>3, <3>1, NobodyWithoutConfig DEF SaveConfig, Admitted
    <3>5. \A a \in Given : a[1] # config'[Gateway].id
      BY <3>1 DEF Given, Unheard
    <3>6. T!Establish
      BY <2>1, <3>1, <3>3, <3>4, <3>5, Records, <1>1 DEF T!Establish, Given
    <3> QED
      BY <3>6 DEF T!Next
  <2>4. CASE Wipe(Gateway)
    <3>1. Admitted = {} /\ Admitted' = Admitted
      BY <2>4, WipeAtGateway DEF Wipe, Admitted
    <3>2. config'[Gateway].id = None
      BY <1>1, <1>4, <2>4, WipeAtGateway, Records
    <3>3. T!Forget
      BY <2>1, <3>1, <3>2 DEF T!Forget, Given
    <3> QED
      BY <3>3 DEF T!Next
  <2> QED
    BY <2>2, <2>3, <2>4
<1> QED
  BY <1>2, <1>3, <1>4

\* Under the same condition, the commands implement Trust: an instance begins
\* and ends while nobody is let in, and in between the gateway takes on only
\* peers that have answered it.  (InitOutside, Accept, Uninstall.)
THEOREM PairingImplementsTrust == "ignoredFails" \notin Faults => (Spec => KeepsTrust)
<1> SUFFICES ASSUME "ignoredFails" \notin Faults PROVE Spec => KeepsTrust
  OBVIOUS
<1>1. Trusted /\ [Next]_vars => Trusted'
  BY NextTrusted
<1>2. Trusted /\ Trusted' /\ [Next]_vars => [T!Next]_(T!vars)
  <2>1. CASE UNCHANGED vars
    BY <2>1 DEF vars, T!vars, Admitted
  <2> QED
    BY <2>1, NextImplements
<1> QED
  BY InitTrusted, InitImplements, <1>1, <1>2, PTL DEF Spec, KeepsTrust, T!Spec
=============================================================================
