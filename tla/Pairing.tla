------------------------------ MODULE Pairing ------------------------------
(***************************************************************************)
(* Pairing: how an outside gateway and an Iran edge come to trust each     *)
(* other's keys over tokens that an operator carries by hand.              *)
(*                                                                         *)
(* `hamara init outside` prints an OFFER, `hamara join` on an edge answers *)
(* it with a RESPONSE, `hamara accept` on the gateway completes the link.  *)
(* Every command is a sequence of writes to disk and calls to systemd, so  *)
(* it may end, fail or be killed between any two of them.  A token may be  *)
(* used late, twice, on another edge, or never.                            *)
(*                                                                         *)
(* Each host runs one command at a time.  A key, a certificate, a password *)
(* or an instance ID is the number of the command that generated it.       *)
(***************************************************************************)
EXTENDS Naturals, Sequences, FiniteSets

CONSTANTS
  Gateway,    \* the outside host
  Edges,      \* the hosts an operator may run `hamara join` on
  None,
  Modes,      \* the modes the gateway's instances may have
  MaxMinted,  \* bound on the number of generated identities
  Faults      \* what may go wrong

Hosts == {Gateway} \cup Edges

ASSUME HostsAssumption == Gateway \notin Edges
ASSUME NoneAssumption == None \notin Hosts \cup Nat
ASSUME ModesAssumption == Modes \subseteq {"ara", "wireguard", "ipip", "ssh"}
ASSUME MintedAssumption == MaxMinted \in Nat
ASSUME FaultsAssumption ==
  Faults \subseteq {"kill", "reboot", "stepFails", "ignoredFails"}

----------------------------------------------------------------------------
VARIABLES
  mode,        \* the mode of the gateway's instances
  config,      \* config[h]: /etc/hamara/config.json
  secrets,     \* secrets[h]: the private key and the pre-shared key
  mtls,        \* the gateway's mutual-TLS files
  link,        \* link[h]: hamara0.conf, or the ipip script, or the ssh unit
  token,       \* token[h]: offer.token or response.token
  authorized,  \* the gateway's authorized_keys of the ssh account
  up,          \* up[h]: the link file the running link was started from
  enabled,     \* the hosts whose link is started at boot
  proc,        \* proc[h]: the command h runs and the steps it has left
  tokens,      \* the tokens the operator has been shown
  minted       \* the number of identities generated so far

vars == <<mode, config, secrets, mtls, link, token, authorized, up, enabled,
          proc, tokens, minted>>

WG == mode \in {"ara", "wireguard"}

NoConfig  == [id |-> None, state |-> "none", peer |-> None]
NoSecrets == [key |-> None, psk |-> None]
NoLink    == [own |-> None, psk |-> None, peer |-> None]

\* `cfg` is the configuration a command holds in memory, `new` the secrets it
\* is about to write, `left` the steps it still has to take.
Free == [cmd |-> "none", left |-> << >>, cfg |-> NoConfig, new |-> NoSecrets]

Names  == Hosts \cup (1 .. MaxMinted) \cup {None}
Tokens == [kind : {"offer", "response"}, id : Names, key : Names, psk : Names]

ASSUME NoTokenAssumption == None \notin Tokens

TypeOK ==
  /\ mode \in Modes
  /\ config \in [Hosts -> [id : Names, state : {"none", "pending", "ready"}, peer : Names]]
  /\ secrets \in [Hosts -> [key : Names, psk : Names]]
  /\ mtls \subseteq {"ca", "caKey", "client"}
  /\ link \in [Hosts -> [own : Names, psk : Names, peer : Names]]
  /\ \A h \in Hosts : token[h] \in Tokens \cup {None}
  /\ authorized \subseteq [key : Names, id : Names]
  /\ up \in [Hosts -> [own : Names, psk : Names, peer : Names]]
  /\ enabled \subseteq Hosts
  /\ DOMAIN proc = Hosts
  /\ tokens \subseteq Tokens
  /\ minted \in 0 .. MaxMinted

Init ==
  /\ mode \in Modes
  /\ config = [h \in Hosts |-> NoConfig]
  /\ secrets = [h \in Hosts |-> NoSecrets]
  /\ mtls = {}
  /\ link = [h \in Hosts |-> NoLink]
  /\ token = [h \in Hosts |-> None]
  /\ authorized = {}
  /\ up = [h \in Hosts |-> NoLink]
  /\ enabled = {}
  /\ proc = [h \in Hosts |-> Free]
  /\ tokens = {}
  /\ minted = 0

----------------------------------------------------------------------------
(***************************************************************************)
(* The commands, as the steps each takes, and how they are begun.          *)
(***************************************************************************)

\* A fault: the configuration goes before what it describes.
UninstallStepsWipeFirst == <<"wipe", "down", "unlink", "revoke">>

UninstallSteps == <<"down", "unlink", "revoke", "wipe">>

\* A fault: the token is printed before the keys it holds are deleted.
InitStepsPrintFirst ==
  <<"check", "keys", "mtls", "link", "save", "activate", "token", "print", "scrub">>

InitSteps ==
  CASE mode = "ara"       -> <<"check", "keys", "mtls", "link", "save", "activate",
                               "token", "scrub", "print">>
    [] mode = "wireguard" -> <<"check", "keys", "link", "save", "activate", "token", "print">>
    [] mode = "ipip"      -> <<"check", "save", "token", "print">>
    [] mode = "ssh"       -> <<"save", "token", "print">>

\* A fault: the response is printed before it is written.
JoinStepsPrintFirst == <<"check", "keys", "link", "save", "activate", "print", "token">>

JoinSteps ==
  CASE WG            -> <<"check", "keys", "link", "save", "activate", "token", "print">>
    [] mode = "ipip" -> <<"check", "link", "save", "activate", "token", "print">>
    [] mode = "ssh"  -> <<"keys", "link", "save", "activate", "token", "print">>

\* A fault: accept enables the WireGuard unit as it does the IPIP one.
AcceptStepsEnableOnly == <<"link", "activate", "save">>

AcceptSteps ==
  CASE WG            -> <<"link", "restart", "save">>
    [] mode = "ipip" -> <<"link", "activate", "save">>
    [] mode = "ssh"  -> <<"authorize", "save">>

\* A fault: a host derives its key from its name.
HostKey(h) == h

FreshKey(h) == minted + 1

Begin(h, cmd, steps, cfg, new) ==
  /\ proc[h] = Free
  /\ proc' = [proc EXCEPT ![h] = [cmd |-> cmd, left |-> steps, cfg |-> cfg, new |-> new]]
  /\ UNCHANGED <<config, secrets, mtls, link, token, authorized, up, enabled, tokens>>

\* A fault: --force overwrites what is there.
ReplacingNothing == << >>

\* With --force, init first uninstalls what is there.
Replacing == IF config[Gateway] = NoConfig THEN << >> ELSE UninstallSteps

\* hamara init outside
InitOutside ==
  /\ minted < MaxMinted /\ minted' = minted + 1
  /\ \E force \in BOOLEAN :
       /\ config[Gateway] # NoConfig => force
       /\ Begin(Gateway, "init", Replacing \o InitSteps,
                [id |-> minted + 1, state |-> "pending", peer |-> None],
                [key |-> FreshKey(Gateway), psk |-> FreshKey(Gateway)])

\* hamara join, with an offer the operator has.
Join(e) ==
  /\ config[e] = NoConfig
  /\ minted < MaxMinted /\ minted' = minted + 1
  /\ \E o \in tokens :
       /\ o.kind = "offer"
       /\ Begin(e, "join", JoinSteps, [id |-> o.id, state |-> "pending", peer |-> o.key],
                [key |-> FreshKey(e), psk |-> o.psk])

\* A fault: the response is accepted whatever instance it answers.
AnswersAny(r, cfg) == r.kind = "response"

\* ValidateResponse
Answers(r, cfg) == r.kind = "response" /\ r.id = cfg.id

\* hamara accept, with a response the operator has.
Accept ==
  /\ config[Gateway] # NoConfig
  /\ \E r \in tokens :
       /\ Answers(r, config[Gateway])
       /\ Begin(Gateway, "accept", AcceptSteps,
                [config[Gateway] EXCEPT !.state = "ready", !.peer = r.key], NoSecrets)
  /\ UNCHANGED minted

Uninstall(h) ==
  /\ Begin(h, "uninstall", UninstallSteps, config[h], NoSecrets)
  /\ UNCHANGED minted

\* hamara doctor, which on an edge records that the link works.
Doctor(e) ==
  /\ config[e] # NoConfig
  /\ Begin(e, "doctor", <<"probe", "save">>, [config[e] EXCEPT !.state = "ready"], NoSecrets)
  /\ UNCHANGED minted

----------------------------------------------------------------------------
(***************************************************************************)
(* The steps.                                                              *)
(***************************************************************************)

At(h, step) == proc[h].left # << >> /\ Head(proc[h].left) = step

Done(h) ==
  LET rest == Tail(proc[h].left) IN
  proc' = [proc EXCEPT ![h] = IF rest = << >> THEN Free ELSE [proc[h] EXCEPT !.left = rest]]

Return(h) == proc' = [proc EXCEPT ![h] = Free]

\* What identifies the host to its peer: a key, or an address under IPIP and
\* the system's own host key for the SSH gateway.
Identity(h) ==
  IF WG \/ (mode = "ssh" /\ h # Gateway) THEN secrets[h].key ELSE h

\* checkOutsideConflicts, checkIranConflicts: hamara0 must not exist.
CheckConflicts(h) ==
  /\ At(h, "check")
  /\ IF up[h] = NoLink THEN Done(h) ELSE Return(h)
  /\ UNCHANGED <<config, secrets, mtls, link, token, authorized, up, enabled, tokens, minted>>

GenerateKeys(h) ==
  /\ At(h, "keys")
  /\ secrets' = [secrets EXCEPT ![h] = proc[h].new]
  /\ Done(h)
  /\ UNCHANGED <<config, mtls, link, token, authorized, up, enabled, tokens, minted>>

PrepareMTLS ==
  /\ At(Gateway, "mtls")
  /\ mtls' = {"ca", "caKey", "client"}
  /\ Done(Gateway)
  /\ UNCHANGED <<config, secrets, link, token, authorized, up, enabled, tokens, minted>>

\* writeWireGuard, or the IPIP script and unit, or the SSH client unit.
WriteLink(h) ==
  /\ At(h, "link")
  /\ IF WG /\ secrets[h] = NoSecrets
     THEN Return(h) /\ link' = link
     ELSE /\ link' = [link EXCEPT ![h] =
               [own |-> Identity(h), psk |-> secrets[h].psk, peer |-> proc[h].cfg.peer]]
          /\ Done(h)
  /\ UNCHANGED <<config, secrets, mtls, token, authorized, up, enabled, tokens, minted>>

\* A fault: the entry of an earlier response stays.
AuthorizePeerToo ==
  LET c == proc[Gateway].cfg IN
  /\ At(Gateway, "authorize")
  /\ authorized' = authorized \cup {[key |-> c.peer, id |-> c.id]}
  /\ Done(Gateway)
  /\ UNCHANGED <<config, secrets, mtls, link, token, up, enabled, tokens, minted>>

\* authorizeSSHPeer: the entry of the same instance is replaced.
AuthorizePeer ==
  LET c == proc[Gateway].cfg IN
  /\ At(Gateway, "authorize")
  /\ authorized' = {a \in authorized : a.id # c.id} \cup {[key |-> c.peer, id |-> c.id]}
  /\ Done(Gateway)
  /\ UNCHANGED <<config, secrets, mtls, link, token, up, enabled, tokens, minted>>

SaveConfig(h) ==
  /\ At(h, "save")
  /\ config' = [config EXCEPT ![h] = proc[h].cfg]
  /\ Done(h)
  /\ UNCHANGED <<secrets, mtls, link, token, authorized, up, enabled, tokens, minted>>

\* systemctl enable --now starts a unit that is not active and does nothing to
\* one that is; systemctl restart makes it read its configuration again.
StartLink(h) ==
  /\ At(h, "activate") \/ At(h, "restart")
  /\ enabled' = IF At(h, "activate") THEN enabled \cup {h} ELSE enabled
  /\ up' = [up EXCEPT ![h] = IF At(h, "restart") \/ @ = NoLink THEN link[h] ELSE @]
  /\ Done(h)
  /\ UNCHANGED <<config, secrets, mtls, link, token, authorized, tokens, minted>>

\* The offer is made from the files, the response from the keys just written.
WriteToken(h) ==
  /\ At(h, "token")
  /\ token' = [token EXCEPT ![h] =
        [kind |-> IF h = Gateway THEN "offer" ELSE "response",
         id   |-> proc[h].cfg.id, key |-> Identity(h),
         psk  |-> IF h = Gateway THEN secrets[h].psk ELSE None]]
  /\ Done(h)
  /\ UNCHANGED <<config, secrets, mtls, link, authorized, up, enabled, tokens, minted>>

ScrubMTLS ==
  /\ At(Gateway, "scrub")
  /\ mtls' = mtls \ {"caKey", "client"}
  /\ Done(Gateway)
  /\ UNCHANGED <<config, secrets, link, token, authorized, up, enabled, tokens, minted>>

PrintToken(h) ==
  /\ At(h, "print")
  /\ tokens' = tokens \cup {token[h]}
  /\ Done(h)
  /\ UNCHANGED <<config, secrets, mtls, link, token, authorized, up, enabled, minted>>

\* systemctl disable --now; hamara0 may survive if its error is ignored.
TakeDown(h) ==
  /\ At(h, "down")
  /\ enabled' = enabled \ {h}
  /\ \/ up' = [up EXCEPT ![h] = NoLink]
     \/ "ignoredFails" \in Faults /\ mode # "ssh" /\ up' = up
  /\ Done(h)
  /\ UNCHANGED <<config, secrets, mtls, link, token, authorized, tokens, minted>>

\* userdel --remove, when the configuration is that of an SSH gateway.  It
\* refuses while a process of the account, a peer's session, is running.
RevokePeers(h) ==
  /\ At(h, "revoke")
  /\ \/ authorized' = IF mode = "ssh" /\ h = Gateway /\ config[h] # NoConfig
                      THEN {} ELSE authorized
     \/ "ignoredFails" \in Faults /\ authorized' = authorized
  /\ Done(h)
  /\ UNCHANGED <<config, secrets, mtls, link, token, up, enabled, tokens, minted>>

RemoveLink(h) ==
  /\ At(h, "unlink")
  /\ link' = [link EXCEPT ![h] = NoLink]
  /\ Done(h)
  /\ UNCHANGED <<config, secrets, mtls, token, authorized, up, enabled, tokens, minted>>

\* RemoveAll takes the entries of /etc/hamara one by one, in any order.
Wipe(h) ==
  /\ At(h, "wipe")
  /\ \/ config[h] # NoConfig /\ config' = [config EXCEPT ![h] = NoConfig]
        /\ UNCHANGED <<secrets, mtls, token, proc>>
     \/ secrets[h] # NoSecrets /\ secrets' = [secrets EXCEPT ![h] = NoSecrets]
        /\ UNCHANGED <<config, mtls, token, proc>>
     \/ h = Gateway /\ mtls # {} /\ mtls' = {}
        /\ UNCHANGED <<config, secrets, token, proc>>
     \/ token[h] # None /\ token' = [token EXCEPT ![h] = None]
        /\ UNCHANGED <<config, secrets, mtls, proc>>
     \/ /\ config[h] = NoConfig /\ secrets[h] = NoSecrets /\ token[h] = None
        /\ h = Gateway => mtls = {}
        /\ Done(h)
        /\ UNCHANGED <<config, secrets, mtls, token>>
  /\ UNCHANGED <<link, authorized, up, enabled, tokens, minted>>

\* Whether packets go through from the edge to the gateway and back.
Connected(e) ==
  /\ up[e] # NoLink
  /\ IF mode = "ssh" THEN \E a \in authorized : a.key = up[e].own
     ELSE /\ up[Gateway].peer = up[e].own /\ up[e].peer = up[Gateway].own
          /\ up[Gateway].psk = up[e].psk

\* A fault: any answer of curl is taken for success.
ProbeAnything(e) ==
  /\ At(e, "probe")
  /\ Done(e)
  /\ UNCHANGED <<config, secrets, mtls, link, token, authorized, up, enabled, tokens, minted>>

\* curl through the link; it may fail for reasons of its own.
Probe(e) ==
  /\ At(e, "probe")
  /\ (Connected(e) /\ Done(e)) \/ Return(e)
  /\ UNCHANGED <<config, secrets, mtls, link, token, authorized, up, enabled, tokens, minted>>

----------------------------------------------------------------------------
(***************************************************************************)
(* The rest of what happens to a host.                                     *)
(***************************************************************************)

\* hamara pairing-token
ShowToken(h) ==
  /\ proc[h] = Free /\ config[h] # NoConfig /\ token[h] # None
  /\ tokens' = tokens \cup {token[h]}
  /\ UNCHANGED <<config, secrets, mtls, link, token, authorized, up, enabled, proc, minted>>

\* hamara stop, start and restart
ManageLink(h) ==
  /\ proc[h] = Free /\ config[h] # NoConfig /\ link[h] # NoLink
  /\ \/ up' = [up EXCEPT ![h] = NoLink] /\ enabled' = enabled
     \/ up' = [up EXCEPT ![h] = IF @ = NoLink THEN link[h] ELSE @] /\ enabled' = enabled \cup {h}
     \/ up' = [up EXCEPT ![h] = link[h]] /\ enabled' = enabled \cup {h}
  /\ UNCHANGED <<config, secrets, mtls, link, token, authorized, proc, tokens, minted>>

Kill(h) ==
  /\ "kill" \in Faults
  /\ proc[h] # Free
  /\ Return(h)
  /\ UNCHANGED <<config, secrets, mtls, link, token, authorized, up, enabled, tokens, minted>>

\* A step whose error ends the command.  A unit that does not start is
\* enabled all the same, and one that is restarted has been stopped; an edge
\* in SSH mode goes on, as its first connection is expected to fail.
FailStep(h) ==
  /\ "stepFails" \in Faults
  /\ \E step \in {"keys", "mtls", "link", "authorize", "save", "activate", "restart", "token"} :
       /\ At(h, step)
       /\ step = "activate" => mode # "ssh"
       /\ enabled' = IF step = "activate" THEN enabled \cup {h} ELSE enabled
       /\ up' = [up EXCEPT ![h] = IF step = "restart" THEN NoLink ELSE @]
  /\ Return(h)
  /\ UNCHANGED <<config, secrets, mtls, link, token, authorized, tokens, minted>>

Reboot(h) ==
  /\ "reboot" \in Faults
  /\ Return(h)
  /\ up' = [up EXCEPT ![h] = IF h \in enabled THEN link[h] ELSE NoLink]
  /\ UNCHANGED <<config, secrets, mtls, link, token, authorized, enabled, tokens, minted>>

----------------------------------------------------------------------------
Step(h) ==
  \/ CheckConflicts(h) \/ GenerateKeys(h) \/ WriteLink(h) \/ SaveConfig(h)
  \/ StartLink(h) \/ WriteToken(h) \/ PrintToken(h)
  \/ TakeDown(h) \/ RevokePeers(h) \/ RemoveLink(h) \/ Wipe(h)

Next ==
  /\ \/ InitOutside \/ Accept \/ PrepareMTLS \/ ScrubMTLS \/ AuthorizePeer
     \/ \E e \in Edges : Join(e) \/ Doctor(e) \/ Probe(e)
     \/ \E h \in Hosts : \/ Uninstall(h) \/ ShowToken(h) \/ ManageLink(h)
                         \/ Step(h) \/ FailStep(h) \/ Kill(h) \/ Reboot(h)
  /\ UNCHANGED mode

Spec == Init /\ [][Next]_vars

----------------------------------------------------------------------------
(***************************************************************************)
(* Properties.                                                             *)
(***************************************************************************)

\* Where keys are made for each instance, packets pass only between a gateway
\* and an edge of the same one, whatever old tokens, half-finished commands and
\* reboots there have been.  (generateWGKeys, writeWireGuard, Accept.)
LinkedSameInstance ==
  WG => \A e \in Edges : Connected(e) =>
    config[Gateway] # NoConfig /\ config[e].id = config[Gateway].id

\* The peers the gateway lets in now, or will after its next restart.
Admitted ==
  ({link[Gateway].peer, up[Gateway].peer} \cup {a.key : a \in authorized}) \ {None}

\* Every peer the gateway lets in has answered the offer of the instance the
\* gateway has now; with no instance there is none.
\* (ValidateResponse, InitOutside --force, the order of Uninstall.)
AdmitsOnlyAnswers ==
  \A k \in Admitted : \E r \in tokens :
    r.kind = "response" /\ r.key = k /\ r.id = config[Gateway].id

\* An edge that calls itself ready has had its response carried to a gateway.
\* (Doctor.)
ReadyEdgeAnswered ==
  \A e \in Edges : config[e].state = "ready" /\ link[e] # NoLink =>
    \E r \in tokens : r.kind = "response" /\ r.id = config[e].id /\ r.key = link[e].own

\* An accept that returns success has put its peer into the running link.
\* (Accept: "Pairing accepted. The Hamara link is now enabled.")
AcceptTakesEffect ==
  [][ proc[Gateway].cmd = "accept" /\ SaveConfig(Gateway)
        => up[Gateway].peer = proc[Gateway].cfg.peer ]_vars

\* Two moments at which a kill or a reboot does harm: a wipe ends before it has
\* come to the token, which then outlives the configuration or the keys it was
\* made from; an init ends between its token and the deletion of the keys.
CutShort(h) == At(h, "wipe") /\ token[h] # None /\ proc'[h] = Free
LeftBehind  == At(Gateway, "scrub") /\ proc'[Gateway] = Free

\* A gateway whose offer has been answered holds neither the CA's key nor the
\* client key it has given away, unless its init was cut short just before it
\* would have deleted them.  (InitOutside, prepareMTLS.)
SecretsHandedOver ==
  (\E r \in tokens : r.kind = "response" /\ r.id = config[Gateway].id) => mtls \subseteq {"ca"}

\* The token a host would show again is that of its configuration and keys,
\* unless one of its wipes was cut short.
\* (ShowPairingToken; the order of InitOutside, Join and Uninstall.)
TokenIsCurrent ==
  \A h \in Hosts : proc[h] = Free /\ config[h] # NoConfig /\ token[h] # None =>
    token[h].id = config[h].id /\ token[h].key = Identity(h)

\* No two edges get through at once: each instance has one peer.
\* (authorizeSSHPeer.)
OnePeer ==
  \A e, f \in Edges : Connected(e) /\ Connected(f) => e = f

\* The commands implement Trust: no interleaving of re-initialisation, failed
\* or killed steps, stale tokens and reboots carries a peer of one instance of
\* the gateway into the next.  (InitOutside, Accept, Uninstall.)
T == INSTANCE Trust WITH
       Instances <- 1 .. MaxMinted,
       Peers     <- Hosts \cup 1 .. MaxMinted,
       Nobody    <- None,
       instance  <- config[Gateway].id,
       answers   <- {<<r.id, r.key>> : r \in {t \in tokens : t.kind = "response"}},
       admitted  <- Admitted

KeepsTrust == T!Spec

\* README: uninstall removes "pairing material, sysctl file, and the dedicated
\* SSH account when applicable".  (Uninstall ignores the error of userdel.)
UninstallRevokes ==
  proc[Gateway] = Free /\ config[Gateway] = NoConfig => authorized = {}

============================================================================
