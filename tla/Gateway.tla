------------------------------ MODULE Gateway ------------------------------
(***************************************************************************)
(* The outside gateway as a host: its configuration, the sysctls that      *)
(* Hamara takes over and gives back, the link's units and the firewall.    *)
(*                                                                         *)
(* One command runs at a time, and may be killed, fail, or be cut short by *)
(* a reboot between any two of its steps; a killed command takes the       *)
(* script it is running with it, while systemd goes on with its own work.  *)
(* Another program may flush the packet filter, and may hold the xtables   *)
(* lock, which the firewall script does not wait for.                      *)
(***************************************************************************)
EXTENDS OfferRules, Sequences, SequencesExt

CONSTANTS
  Options,    \* the options `init outside` may be given
  Originals,  \* the values the host's own configuration may give the sysctls
  Faults      \* what may go wrong

Keys == {"ip_forward", "rp_all", "rp_default"}

ASSUME OptionsAssumption == Options \subseteq OptionSet
ASSUME OriginalsAssumption == Originals \subseteq [Keys -> 0 .. 2]
ASSUME FaultsAssumption == Faults \subseteq {"kill", "reboot", "stepFails", "reload", "lock"}

Units == {"server", "ipip", "firewall", "wg"}

\* What /etc/sysctl.d/90-hamara-tunnel.conf sets.
Managed == [k \in Keys |-> IF k = "ip_forward" THEN 1 ELSE 2]

\* An absent configuration has the mode "none"; 3 is a value that was not read.
NoConfig == [c |-> Unset, prev |-> [k \in Keys |-> 3]]

VARIABLES
  config,     \* config.json
  dropin,     \* whether the sysctl drop-in exists
  sysctl,     \* the values in force
  original,   \* the values the host has without Hamara
  script,     \* the configuration the firewall script was rendered from
  installed,  \* the units that have their file
  enabled,    \* the units started at boot
  state,      \* state[u]: the state of unit u
  at,         \* at[r]: the lines a run of the firewall script has left
  rules,      \* Hamara's rules in the packet filter
  proc,       \* the steps the running command has left, and its configuration
  stale,      \* what a reload has overtaken: the rules, a run of the script
  missed      \* since boot a run for the unit has ended early or skipped a rule

hostVars == <<config, dropin, sysctl, script, installed, enabled>>
unitVars == <<state, at, rules, stale, missed>>
vars == <<hostVars, unitVars, original, proc>>

Free == [left |-> << >>, cfg |-> NoConfig]
Exists == config.c.mode # "none"

----------------------------------------------------------------------------
(***************************************************************************)
(* The firewall script.                                                    *)
(***************************************************************************)

InputLines(c) ==
  CASE c.mode = "ara" -> << <<"accept tcp", c.port>>, <<"drop udp from wan", c.wgPort>> >>
    [] c.mode = "wireguard" -> << <<"accept udp", c.port>> >>
    [] c.mode = "ipip"      -> << <<"accept proto", 4>> >>

ForwardLines(c) ==
  << <<"forward from link", 0>>, <<"forward related to link", 0>>, <<"masquerade", c.net>> >>

UpRun(c)   == [i \in 1 .. Len(InputLines(c)) + 3 |->
                 <<"add", (InputLines(c) \o ForwardLines(c))[i]>>]
\* A fault: a removal that forgets the rules of INPUT.
DownRunKeepsInput(c) == [i \in 1 .. 3 |-> <<"remove", ForwardLines(c)[i]>>]

DownRun(c) == [i \in 1 .. Len(InputLines(c)) + 3 |->
                 <<"remove", (Reverse(InputLines(c)) \o ForwardLines(c))[i]>>]

RulesOf(c) ==
  IF Routed(c.mode) THEN ToSet(InputLines(c)) \cup ToSet(ForwardLines(c)) ELSE {}

----------------------------------------------------------------------------
(***************************************************************************)
(* The commands, as sequences of steps <<what, argument>>.  "enable" is    *)
(* `enable --now`: it asks systemd, and "await" waits for the units to be  *)
(* active; "disable" is `disable --now`, and "gone" waits for the firewall *)
(* to be down; a link is taken down at once.                               *)
(***************************************************************************)

Enable(us)  == << <<"enable", us>>, <<"await", us>> >>
Disable(u)  == << <<"disable", u>> >> \o (IF u = "firewall" THEN << <<"gone", u>> >> ELSE << >>)
StopLink(u) == << <<"stop", u>> >>

LinkUnit(c) == IF c.mode = "ipip" THEN "ipip" ELSE "wg"
UnitsOf(c) ==
  IF Routed(c.mode)
  THEN {LinkUnit(c), "firewall"} \cup (IF c.mode = "ara" THEN {"server"} ELSE {})
  ELSE {}

\* Three faults: the files go first; the firewall is not among the services;
\* the configuration goes before the drop-in.
UninstallStepsWipeFirst(c) ==
  << <<"wipe", "config">>, <<"wipe", "lib">> >>
  \o Disable("server") \o Disable("ipip") \o Disable("firewall") \o Disable("wg")
  \o (IF Routed(c.mode)
      THEN << <<"restore", "ip_forward">>, <<"restore", "rp_all">>, <<"restore", "rp_default">> >>
      ELSE << >>)
  \o << <<"unlink", "units">>, <<"unlink", "sysctl">> >>

UninstallStepsNoFirewall(c) ==
  Disable("server") \o Disable("ipip") \o Disable("wg")
  \o (IF Routed(c.mode)
      THEN << <<"restore", "ip_forward">>, <<"restore", "rp_all">>, <<"restore", "rp_default">> >>
      ELSE << >>)
  \o << <<"unlink", "units">>, <<"unlink", "sysctl">>, <<"wipe", "config">>, <<"wipe", "lib">> >>

\* Errors are ignored here.
UninstallSteps(c) ==
  Disable("server") \o Disable("ipip") \o Disable("firewall") \o Disable("wg")
  \o (IF Routed(c.mode)
      THEN << <<"restore", "ip_forward">>, <<"restore", "rp_all">>, <<"restore", "rp_default">> >>
      ELSE << >>)
  \o << <<"unlink", "units">>, <<"unlink", "sysctl">>, <<"wipe", "config">>, <<"wipe", "lib">> >>

\* activateOutsidePending
ActivateSteps(c) ==
  IF c.mode \in {"ara", "wireguard"}
  THEN << <<"script", c>>, <<"install", UnitsOf(c) \ {"wg"}>> >> \o Enable(UnitsOf(c))
  ELSE << >>

\* A fault: the sysctls are taken over before the configuration that holds
\* their old values is on disk.
TakeOverStepsSaveLast(c) ==
  << <<"capture", c>> >>
  \o (IF c.mode \in {"ara", "wireguard"} THEN << <<"install", {"wg"}>> >> ELSE << >>)
  \o (IF Routed(c.mode) THEN << <<"dropin", c>>, <<"sysctl", c>> >> ELSE << >>)
  \o << <<"save", c>> >>

\* The middle of InitOutside, from the capture of the sysctls to `sysctl
\* --system`; preparing keys and certificates may refuse the options.
TakeOverSteps(c) ==
  << <<"capture", c>> >>
  \o (IF c.mode \in {"ara", "wireguard"} THEN << <<"install", {"wg"}>> >> ELSE << >>)
  \o << <<"save", c>> >>
  \o (IF Routed(c.mode) THEN << <<"dropin", c>>, <<"sysctl", c>> >> ELSE << >>)

\* init --force uninstalls before it looks at the options, so they are chosen
\* after that.
InitSteps == (IF Exists THEN UninstallSteps(config.c) ELSE << >>) \o << <<"options", 0>> >>

InitStepsFor(o) ==
  IF ~Screened(o) THEN << >>
  ELSE << <<"check", o>> >>
       \o (IF Prepared(ConfigFor(o))
           THEN TakeOverSteps(ConfigFor(o)) \o ActivateSteps(ConfigFor(o)) \o << <<"offer", o>> >>
           ELSE << >>)

AcceptSteps(c) ==
  (CASE c.mode \in {"ara", "wireguard"} ->
          << <<"install", {"wg"}>>, <<"restart", "wg">>, <<"await", {"wg"}>> >>
     [] c.mode = "ipip" -> << <<"script", c>>, <<"install", UnitsOf(c)>> >> \o Enable(UnitsOf(c))
     [] c.mode = "ssh"  -> << >>)
  \o << <<"save", c>> >>

\* ManageLink; the SSH gateway has no unit of Hamara's.
StartSteps(c) ==
  Enable({LinkUnit(c)}) \o Enable({"firewall"})
  \o (IF c.mode = "ara" THEN Enable({"server"}) ELSE << >>)
StopSteps(c) == (IF c.mode = "ara" THEN StopLink("server") ELSE << >>) \o StopLink(LinkUnit(c))

\* RepairGuards
RepairSteps == Enable({"firewall"}) \o << <<"run", "repair">>, <<"ran", "repair">> >>

Command(steps) ==
  /\ proc = Free /\ steps # << >>
  /\ proc' = [left |-> steps, cfg |-> config]
  /\ UNCHANGED <<hostVars, unitVars, original>>

InitOutside == Command(InitSteps)
Uninstall   == Command(UninstallSteps(config.c))
Accept      == Exists /\ Command(AcceptSteps(config.c))
Manage      == /\ Exists /\ Routed(config.c.mode)
               /\ \/ Command(StartSteps(config.c)) \/ Command(StopSteps(config.c))
                  \/ Command(StopSteps(config.c) \o StartSteps(config.c))
Repair      == Exists /\ Routed(config.c.mode) /\ Command(RepairSteps)

----------------------------------------------------------------------------
(***************************************************************************)
(* The steps.                                                              *)
(***************************************************************************)

Step(what) == proc.left # << >> /\ proc.left[1][1] = what
Arg        == proc.left[1][2]
Rest       == IF Len(proc.left) = 1 THEN Free ELSE [proc EXCEPT !.left = Tail(@)]

\* A step that only writes to the host's files and sysctls, or only reads.
OnHost(what) == Step(what) /\ proc' = Rest /\ UNCHANGED <<unitVars, original>>

ReadOptions ==
  /\ Step("options")
  /\ \E o \in Options :
       proc' = IF InitStepsFor(o) = << >> THEN Free
               ELSE [left |-> InitStepsFor(o), cfg |-> NoConfig]
  /\ UNCHANGED <<hostVars, unitVars, original>>

Look == \* package installation, WAN detection and conflicts; building the offer
  /\ \E w \in {"check", "offer"} : OnHost(w)
  /\ UNCHANGED hostVars

Capture ==
  /\ Step("capture")
  /\ proc' = [left |-> Tail(proc.left),
              cfg |-> [c |-> Arg,
                       prev |-> IF Routed(Arg.mode) THEN sysctl ELSE NoConfig.prev]]
  /\ UNCHANGED <<hostVars, unitVars, original>>

Save ==
  /\ OnHost("save") /\ config' = proc.cfg
  /\ UNCHANGED <<dropin, sysctl, script, installed, enabled>>

WriteDropin ==
  /\ OnHost("dropin") /\ dropin' = TRUE
  /\ UNCHANGED <<config, sysctl, script, installed, enabled>>

ApplySysctl ==
  /\ OnHost("sysctl") /\ sysctl' = Managed
  /\ UNCHANGED <<config, dropin, script, installed, enabled>>

WriteScript ==
  /\ OnHost("script") /\ script' = Arg
  /\ UNCHANGED <<config, dropin, sysctl, installed, enabled>>

Install ==
  /\ OnHost("install") /\ installed' = installed \cup Arg
  /\ UNCHANGED <<config, dropin, sysctl, script, enabled>>

\* Only a value that is still Hamara's is replaced, and only by one that was read.
Restore ==
  /\ OnHost("restore")
  /\ sysctl' = [sysctl EXCEPT ![Arg] =
                  IF @ = Managed[Arg] /\ proc.cfg.prev[Arg] \in 0 .. 2
                  THEN proc.cfg.prev[Arg] ELSE @]
  /\ UNCHANGED <<config, dropin, script, installed, enabled>>

Unlink ==
  /\ OnHost("unlink")
  /\ \/ Arg = "units"  /\ installed' = {}  /\ UNCHANGED dropin
     \/ Arg = "sysctl" /\ dropin' = FALSE /\ UNCHANGED installed
  /\ UNCHANGED <<config, sysctl, script, enabled>>

Wipe ==
  /\ OnHost("wipe")
  /\ \/ Arg = "config" /\ config' = NoConfig /\ UNCHANGED script
     \/ Arg = "lib"    /\ script' = Unset    /\ UNCHANGED config
  /\ UNCHANGED <<dropin, sysctl, installed, enabled>>

----------------------------------------------------------------------------
(***************************************************************************)
(* Calls of systemctl, and the runs of the firewall script.                *)
(***************************************************************************)

EnableNow ==
  /\ Step("enable") /\ Arg \subseteq installed
  /\ enabled' = enabled \cup Arg
  /\ state' = [u \in Units |-> IF u \in Arg /\ state[u] = "off" THEN "queued" ELSE state[u]]
  /\ proc' = Rest
  /\ UNCHANGED <<config, dropin, sysctl, script, installed, original, at, rules, stale, missed>>

\* systemctl returns when the jobs have ended, with an error if a unit is not
\* active then.
Await ==
  /\ Step("await") /\ \A u \in Arg : state[u] \in {"off", "active"}
  /\ proc' = IF \A u \in Arg : state[u] = "active" THEN Rest ELSE Free
  /\ UNCHANGED <<hostVars, unitVars, original>>

Restart ==
  /\ Step("restart") /\ state' = [state EXCEPT ![Arg] = "queued"]
  /\ proc' = Rest
  /\ UNCHANGED <<hostVars, original, at, rules, stale, missed>>

\* A unit that is stopped while it starts runs no ExecStop.
Stop(u) ==
  IF u = "firewall" /\ state[u] = "active" /\ script # Unset
  THEN /\ state' = [state EXCEPT ![u] = "stopping"]
       /\ at' = [at EXCEPT !.unit = DownRun(script)]
       /\ UNCHANGED <<stale, missed>>
  ELSE IF state[u] = "stopping" THEN UNCHANGED <<state, at, stale, missed>>
  ELSE /\ state' = [state EXCEPT ![u] = "off"]
       /\ at' = IF u = "firewall" THEN [at EXCEPT !.unit = << >>] ELSE at
       /\ stale' = IF u = "firewall" THEN stale \ {"unit", "rules"} ELSE stale
       /\ missed' = (missed \/ (u = "firewall" /\ state[u] = "starting"))

StopNow ==
  /\ Step("stop") /\ Stop(Arg)
  /\ proc' = Rest
  /\ UNCHANGED <<hostVars, original, rules>>

DisableNow ==
  /\ Step("disable")
  /\ enabled' = enabled \ {Arg} /\ Stop(Arg)
  /\ proc' = Rest
  /\ UNCHANGED <<config, dropin, sysctl, script, installed, original, rules>>

Gone ==
  /\ Step("gone") /\ state[Arg] = "off"
  /\ proc' = Rest
  /\ UNCHANGED <<hostVars, unitVars, original>>

\* repair runs the script itself, beside whatever systemd does.
RunUp ==
  /\ Step("run") /\ script # Unset
  /\ at' = [at EXCEPT !.repair = UpRun(script)]
  /\ proc' = Rest
  /\ UNCHANGED <<hostVars, original, state, rules, stale, missed>>

Ran ==
  /\ Step("ran") /\ at.repair = << >>
  /\ proc' = Rest
  /\ UNCHANGED <<hostVars, unitVars, original>>

\* The server starts after the link, the firewall after the IPIP link.
LinkOrServerStarts(u) ==
  /\ u # "firewall" /\ state[u] = "queued"
  /\ u = "server" => state["wg"] # "queued"
  /\ state' = [state EXCEPT ![u] = "active"]
  /\ UNCHANGED <<hostVars, original, at, rules, proc, stale, missed>>

LinkOrServerFails(u) ==
  /\ "stepFails" \in Faults
  /\ u # "firewall" /\ state[u] = "queued"
  /\ state' = [state EXCEPT ![u] = "off"]
  /\ UNCHANGED <<hostVars, original, at, rules, proc, stale, missed>>

FirewallStarts ==
  /\ state["firewall"] = "queued" /\ state["ipip"] # "queued" /\ script # Unset
  /\ state' = [state EXCEPT !["firewall"] = "starting"]
  /\ at' = [at EXCEPT !.unit = UpRun(script)]
  /\ UNCHANGED <<hostVars, original, rules, proc, stale, missed>>

\* A run has ended with its last line: the rules are there as of its start.
Ended(r) ==
  /\ state' = IF r # "unit" THEN state
              ELSE [state EXCEPT !["firewall"] = IF @ = "starting" THEN "active" ELSE "off"]
  /\ stale' = IF at[r][1][1] = "add" /\ r \in stale THEN stale \ {r} ELSE stale \ {r, "rules"}

After(r) ==
  /\ at' = [at EXCEPT ![r] = Tail(@)]
  /\ IF Len(at[r]) = 1 THEN Ended(r) ELSE UNCHANGED <<state, stale>>

\* ipt_check adds a rule that is not there; ipt_del removes every copy.
ScriptLine(r) ==
  /\ at[r] # << >>
  /\ rules' = IF at[r][1][1] = "add" THEN rules \cup {at[r][1][2]} ELSE rules \ {at[r][1][2]}
  /\ After(r)
  /\ UNCHANGED <<hostVars, original, proc, missed>>

\* The lock makes `iptables -C` fail, which ends the loop of ipt_del; ipt_check
\* then adds a second copy, which is ScriptLine, or fails.
LockEndsLoop(r) ==
  /\ "lock" \in Faults /\ ~missed
  /\ at[r] # << >> /\ at[r][1][1] = "remove"
  /\ After(r)
  /\ missed' = TRUE
  /\ UNCHANGED <<hostVars, original, rules, proc>>

ScriptFails(r) ==
  /\ {"lock", "stepFails"} \cap Faults # {}
  /\ at[r] # << >> /\ ~missed
  /\ at' = [at EXCEPT ![r] = << >>]
  /\ stale' = IF r = "unit" THEN stale \ {r, "rules"} ELSE stale \ {r}
  /\ IF r = "unit"
     THEN /\ state' = [state EXCEPT !["firewall"] = "off"]
          /\ missed' = TRUE /\ UNCHANGED proc
     ELSE proc' = Free /\ UNCHANGED <<state, missed>>
  /\ UNCHANGED <<hostVars, original, rules>>

----------------------------------------------------------------------------
(***************************************************************************)
(* What may go wrong.                                                      *)
(***************************************************************************)

Ignored == {"disable", "gone", "restore", "unlink", "wipe", "await", "ran"}

StepFails ==
  /\ proc.left # << >>
  /\ \/ "stepFails" \in Faults /\ proc.left[1][1] \notin Ignored
     \/ Step("enable") /\ ~(Arg \subseteq installed)
  /\ proc' = Free
  /\ UNCHANGED <<hostVars, unitVars, original>>

Kill ==
  /\ "kill" \in Faults /\ proc # Free
  /\ proc' = Free
  /\ at' = [at EXCEPT !.repair = << >>] /\ stale' = stale \ {"repair"}
  /\ UNCHANGED <<hostVars, original, state, rules, missed>>

Reboot ==
  /\ "reboot" \in Faults
  /\ proc' = Free
  /\ sysctl' = IF dropin THEN Managed ELSE original
  /\ state' = [u \in Units |-> IF u \in enabled THEN "queued" ELSE "off"]
  /\ at' = [r \in {"unit", "repair"} |-> << >>]
  /\ rules' = {} /\ stale' = {} /\ missed' = FALSE
  /\ UNCHANGED <<config, dropin, script, installed, enabled, original>>

\* Another program reloads the packet filter.
Reload ==
  /\ "reload" \in Faults
  /\ rules # {} /\ rules' = {}
  /\ stale' = {r \in {"unit", "repair"} : at[r] # << >>}
              \cup (IF state["firewall"] \in {"starting", "active"} THEN {"rules"} ELSE {})
  /\ UNCHANGED <<hostVars, original, state, at, proc, missed>>

----------------------------------------------------------------------------
Init ==
  /\ config = NoConfig /\ dropin = FALSE /\ script = Unset
  /\ installed = {} /\ enabled = {}
  /\ original \in Originals /\ sysctl = original
  /\ state = [u \in Units |-> "off"]
  /\ at = [r \in {"unit", "repair"} |-> << >>]
  /\ rules = {} /\ stale = {} /\ missed = FALSE
  /\ proc = Free

Commands == InitOutside \/ Uninstall \/ Accept \/ Manage \/ Repair

Steps ==
  \/ ReadOptions \/ Look \/ Capture \/ Save \/ WriteDropin \/ ApplySysctl
  \/ WriteScript \/ Install \/ Restore \/ Unlink \/ Wipe
  \/ EnableNow \/ Await \/ Restart \/ StopNow \/ DisableNow \/ Gone \/ RunUp \/ Ran

Systemd ==
  \/ \E u \in Units : LinkOrServerStarts(u) \/ LinkOrServerFails(u)
  \/ FirewallStarts
  \/ \E r \in {"unit", "repair"} : ScriptLine(r) \/ LockEndsLoop(r) \/ ScriptFails(r)

Next == Commands \/ Steps \/ Systemd \/ StepFails \/ Kill \/ Reboot \/ Reload

Spec == Init /\ [][Next]_vars

----------------------------------------------------------------------------
(***************************************************************************)
(* Properties.                                                             *)
(***************************************************************************)

\* The shape of the state; no command is left between commands with steps.
TypeOK ==
  /\ config.prev \in [Keys -> 0 .. 3] /\ sysctl \in [Keys -> 0 .. 2]
  /\ DOMAIN config.c = DOMAIN Unset /\ DOMAIN script = DOMAIN Unset
  /\ dropin \in BOOLEAN /\ missed \in BOOLEAN
  /\ installed \subseteq Units /\ enabled \subseteq installed
  /\ state \in [Units -> {"off", "queued", "starting", "active", "stopping"}]
  /\ state["firewall"] \in {"starting", "stopping"} <=> at.unit # << >>
  /\ stale \subseteq {"rules", "unit", "repair"}

\* While the host runs on, or will boot with, a sysctl of Hamara's, the values
\* to give back are on disk (capturePreviousSysctls, restorePreviousSysctls),
\* whenever init or uninstall is cut short.
SysctlsRecoverable ==
  sysctl # original \/ dropin => Exists /\ config.prev = original

\* A host without a configuration, which `hamara uninstall` has nothing more to
\* tell about, has nothing of Hamara's left running, enabled or in force.
NothingWithoutConfig ==
  ~Exists =>
    /\ enabled = {} /\ \A u \in Units : state[u] = "off"
    /\ ~dropin /\ sysctl = original
    /\ rules = {} \/ missed

\* No rule outlives the configuration it was made for, through init --force and
\* through changes of mode and port, unless a run of the script did not end.
OnlyConfigured == missed \/ rules \subseteq RulesOf(config.c)

\* While its unit is active the firewall that the configuration asks for is in
\* place, unless another program has flushed it since the last complete run.
FirewallInPlace ==
  state["firewall"] = "active" /\ "rules" \notin stale => RulesOf(config.c) \subseteq rules

\* An offer that init has got as far as building passes ValidateOffer: init does
\* not refuse its own offer with the gateway already running.
OfferSound == Step("offer") => ValidateOffer(MakeOffer(config.c))

\* The end that an edge makes of the offer is the other end of what the gateway
\* runs: addresses, ports, MTU, certificate check, Xray's source and mark.
LinkEndsAgree == Exists => EndsAgree(config.c, JoinConfig(MakeOffer(config.c)))

=============================================================================
