--------------------------- MODULE GatewayProofs ---------------------------
(***************************************************************************)
(* Theorems about Gateway, for all options, original values and faults.    *)
(*                                                                         *)
(* A command is a list of steps that may end anywhere, so what it has not  *)
(* done yet is what its list still has.  Owed says, of each step that is   *)
(* left, what must hold by the time it comes, or what step before it will  *)
(* bring that about: the configuration is wiped when each sysctl is the    *)
(* host's own or has a "restore" before, and so on.  A command begins with *)
(* nothing owed, each step does what is owed after it, and the step at the *)
(* head of the list has nothing before it.                                 *)
(***************************************************************************)
EXTENDS Gateway, OfferRulesProofs, SequenceTheorems

----------------------------------------------------------------------------
(***************************************************************************)
(* Configurations.                                                         *)
(***************************************************************************)

\* A configuration that init makes of options it has accepted.
Configured(c) == \E o \in Options : Acceptable(o) /\ c = ConfigFor(o)

\* A configuration as it is saved: with the sysctls that Hamara takes over.
Saved(cfg) ==
  \/ cfg = NoConfig
  \/ /\ Configured(cfg.c)
     /\ cfg.prev = IF Routed(cfg.c.mode) THEN original ELSE NoConfig.prev

----------------------------------------------------------------------------
(***************************************************************************)
(* Lists of steps.                                                         *)
(***************************************************************************)

Before(s, j, what, arg) == \E i \in 1 .. j - 1 : s[i][1] = what /\ s[i][2] = arg
Preceding(s, j) == {s[i][1] : i \in 1 .. j - 1}

Undoing == {"disable", "gone", "restore", "unlink"}

\* The step j of the list s has an argument it can work with, and its place.
Sound(s, j) ==
  LET x == s[j]  before == Preceding(s, j) IN
  /\ x[1] = "disable" => x[2] \in Units
  /\ x[1] = "restore" => x[2] \in Keys
  /\ x[1] = "stop"    => x[2] \in Units \ {"firewall"}
  /\ x[1] = "gone"    => x[2] = "firewall"
  /\ x[1] = "restart" => x[2] = "wg"
  /\ x[1] \in {"enable", "install"} => x[2] \subseteq Units
  /\ x[1] \in {"capture", "save", "dropin", "sysctl", "script"} => Configured(x[2])
  /\ x[1] \in {"dropin", "sysctl", "script"} => Routed(x[2].mode)
  /\ x[1] = "unlink" \/ (x[1] = "wipe" /\ x[2] = "config") => before \subseteq Undoing
  /\ x[1] = "wipe" => before \subseteq Undoing \cup {"wipe"}
  /\ x[1] \in {"capture", "options", "save"} => "save" \notin before
  /\ x[1] = "save" => \A i \in 1 .. j - 1 : s[i][1] = "capture" => s[i][2] = x[2]
  /\ x[1] \in {"save", "dropin", "sysctl", "script", "install", "enable", "restart", "offer"} =>
       before \cap {"unlink", "wipe"} = {}
  /\ x[1] = "run" => before \subseteq {"enable", "await"} /\ j < Len(s) /\ s[j + 1][1] = "ran"

\* What holds by the time the step j comes, or is brought about before.
OwedToFiles(s, cfg, j) ==
  LET x == s[j] IN
  /\ x[1] \in {"capture", "options"} => config = NoConfig \/ Before(s, j, "wipe", "config")
  /\ x[1] = "save" => /\ cfg.c = x[2] \/ Before(s, j, "capture", x[2])
                      /\ config = NoConfig \/ config.c = x[2]
  /\ x[1] \in {"dropin", "sysctl", "script"} => config.c = x[2] \/ Before(s, j, "save", x[2])
  /\ x[1] \in {"enable", "offer"} => config # NoConfig \/ "save" \in Preceding(s, j)
  /\ x[1] = "install" /\ "firewall" \in x[2] =>
       (config # NoConfig /\ script = config.c) \/ "script" \in Preceding(s, j)
  /\ x[1] = "restart" => /\ config # NoConfig
                         /\ "wg" \in installed \/ Before(s, j, "install", {"wg"})

OwedToSysctls(s, cfg, j) ==
  s[j][1] = "wipe" /\ s[j][2] = "config" =>
    /\ cfg = config
    /\ \A k \in Keys : sysctl[k] = original[k] \/ Before(s, j, "restore", k)
    /\ ~dropin \/ Before(s, j, "unlink", "sysctl")

DownBy(u) == IF u = "firewall" THEN "gone" ELSE "disable"

OwedToUnits(s, j) ==
  LET x == s[j] IN
  /\ x[1] = "wipe" => installed = {} \/ Before(s, j, "unlink", "units")
  /\ x[1] = "unlink" /\ x[2] = "units" => \A u \in Units :
       /\ u \notin enabled   \/ Before(s, j, "disable", u)
       /\ state[u] = "off"   \/ Before(s, j, DownBy(u), u)
  /\ x[1] = "run" => state["firewall"] = "active" \/ Before(s, j, "await", {"firewall"})

Promised(s, cfg, j) ==
  /\ Sound(s, j)
  /\ OwedToFiles(s, cfg, j) /\ OwedToSysctls(s, cfg, j) /\ OwedToUnits(s, j)

Promises(s, cfg) == \A j \in 1 .. Len(s) : Promised(s, cfg, j)

Owed == Promises(proc.left, proc.cfg)

FilesOwed   == \A j \in 1 .. Len(proc.left) : OwedToFiles(proc.left, proc.cfg, j)
SysctlsOwed == \A j \in 1 .. Len(proc.left) : OwedToSysctls(proc.left, proc.cfg, j)
UnitsOwed   == \A j \in 1 .. Len(proc.left) : OwedToUnits(proc.left, j)

----------------------------------------------------------------------------
(***************************************************************************)
(* The state.                                                              *)
(***************************************************************************)

StepNames ==
  {"disable", "gone", "stop", "restore", "unlink", "wipe", "options", "check", "capture", "install",
   "save", "dropin", "sysctl", "script", "enable", "await", "restart", "offer", "run", "ran"}

Arguments ==
  Units \cup (SUBSET Units) \cup Keys \cup Options
  \cup {ConfigFor(o) : o \in {p \in Options : Acceptable(p)}}
  \cup {0, "units", "sysctl", "config", "lib", "repair"}

Elements == StepNames \X Arguments

Typed == DOMAIN proc = {"left", "cfg"} /\ proc.left \in Seq(Elements)

Files ==
  /\ original \in [Keys -> 0 .. 2] /\ sysctl \in [Keys -> 0 .. 2]
  /\ Saved(config) /\ Saved(proc.cfg)
  /\ script = Unset \/ (Configured(script) /\ Routed(script.mode))
  /\ dropin \in BOOLEAN

Sysctls ==
  /\ \A k \in Keys : sysctl[k] \in {original[k], Managed[k]}
  /\ sysctl # original \/ dropin => Exists /\ Routed(config.c.mode)

UnitsUp ==
  /\ enabled \subseteq installed /\ installed \subseteq Units
  /\ \A u \in Units : state[u] # "off" => u \in installed
  /\ ~Exists => enabled = {} /\ \A u \in Units : state[u] = "off"
  /\ "firewall" \in installed => Exists /\ script = config.c
  /\ state \in [Units -> {"off", "queued", "starting", "active", "stopping"}]
  /\ \A u \in Units \ {"firewall"} : state[u] \in {"off", "queued", "active"}

\* The runs of the script, and the rules.
Pending(r) == {at[r][i][2] : i \in 1 .. Len(at[r])}

Runs ==
  /\ at \in [{"unit", "repair"} -> Seq({"add", "remove"} \X RulesOf(script))]
  /\ missed \in BOOLEAN /\ stale \subseteq {"rules", "unit", "repair"}
  /\ state["firewall"] \in {"starting", "stopping"} <=> at["unit"] # << >>
  /\ at["repair"] # << >> => Step("ran") /\ state["firewall"] = "active"
  /\ state["firewall"] = "starting" => \A i \in 1 .. Len(at["unit"]) : at["unit"][i][1] = "add"
  /\ state["firewall"] = "stopping" => \A i \in 1 .. Len(at["unit"]) : at["unit"][i][1] = "remove"
  /\ \A i \in 1 .. Len(at["repair"]) : at["repair"][i][1] = "add"

Rules ==
  /\ missed \/ rules \subseteq RulesOf(script)
  /\ missed \/ (state["firewall"] \in {"off", "queued"} => rules = {})
  /\ missed \/ (state["firewall"] = "stopping" => rules \subseteq Pending("unit"))
  /\ \A r \in {"unit", "repair"} : r \in stale => at[r] # << >>
  /\ state["firewall"] = "starting" /\ "unit" \notin stale => RulesOf(script) \subseteq rules \cup Pending("unit")
  /\ at["repair"] # << >> /\ "repair" \notin stale => RulesOf(script) \subseteq rules \cup Pending("repair")
  /\ state["firewall"] = "starting" /\ "unit" \in stale => "rules" \in stale
  /\ state["firewall"] = "active" /\ "rules" \notin stale => RulesOf(script) \subseteq rules

Inv == Typed /\ Owed /\ Files /\ Sysctls /\ UnitsUp /\ Runs /\ Rules

----------------------------------------------------------------------------
(***************************************************************************)
(* Going on with a list of steps.                                          *)
(***************************************************************************)

Shorter(s, t) == Len(t) = Len(s) - 1 /\ \A j \in 1 .. Len(t) : t[j] = s[j + 1]

\* The first step is done.
Went ==
  /\ proc.left # << >> /\ Len(proc.left) \in Nat /\ Shorter(proc.left, proc'.left)
  /\ Typed'

\* The command goes on with the configuration it has, or has ended.
SameConfig ==
  proc'.cfg \in {proc.cfg, NoConfig} /\ (Len(proc'.left) >= 1 => proc'.cfg = proc.cfg)

LEMMA FreeFields == DOMAIN Free = {"left", "cfg"} /\ Free.left = << >> /\ Free.cfg = NoConfig
  BY DEF Free

LEMMA RestGoes ==
  ASSUME Typed, proc.left # << >>, proc' = Rest
  PROVE  Went /\ SameConfig
<1>1. /\ proc.left \in Seq(Elements) /\ Len(proc.left) \in Nat \ {0}
  BY DEF Typed
<1>2. PICK t : t = Tail(proc.left)
  OBVIOUS
<1>3. t \in Seq(Elements) /\ Shorter(proc.left, t)
  BY <1>1, <1>2 DEF Shorter
<1>4. CASE Len(proc.left) = 1
  <2>1. proc' = Free /\ << >> \in Seq(Elements) /\ Len(<< >>) = 0
    BY <1>4 DEF Rest
  <2> QED
    BY <1>1, <1>4, <2>1, FreeFields DEF Went, SameConfig, Typed, Shorter
<1>5. CASE Len(proc.left) # 1
  <2>1. PICK p : p = [proc EXCEPT !.left = t]
    OBVIOUS
  <2>2. DOMAIN p = {"left", "cfg"} /\ p.left = t /\ p.cfg = proc.cfg
    BY <2>1 DEF Typed
  <2>3. proc' = p
    BY <1>2, <1>5, <2>1 DEF Rest
  <2> QED
    BY <1>1, <1>3, <2>2, <2>3 DEF Went, SameConfig, Typed
<1> QED
  BY <1>4, <1>5

\* What is before a step, when the first has been done.
LEMMA Later ==
  ASSUME NEW s, NEW t, Len(s) \in Nat, Shorter(s, t), NEW j \in 1 .. Len(t)
  PROVE  /\ j + 1 \in 1 .. Len(s) /\ t[j] = s[j + 1] /\ s[1][1] \in Preceding(s, j + 1)
         /\ Preceding(t, j) \subseteq Preceding(s, j + 1)
         /\ \A a \in Preceding(s, j + 1) : a = s[1][1] \/ a \in Preceding(t, j)
         /\ \A a, b : Before(s, j + 1, a, b) => (s[1][1] = a /\ s[1][2] = b) \/ Before(t, j, a, b)
<1>1. j \in Nat /\ Len(t) \in Nat /\ j + 1 \in 1 .. Len(s) /\ t[j] = s[j + 1]
  BY DEF Shorter
<1>2. \A i \in 1 .. j - 1 : i + 1 \in 1 .. j /\ t[i] = s[i + 1]
  BY <1>1 DEF Shorter
<1>3. \A i \in 1 .. j : i = 1 \/ (i - 1 \in 1 .. j - 1 /\ t[i - 1] = s[i])
  BY <1>1 DEF Shorter
<1>4. 1 \in 1 .. j /\ j + 1 - 1 = j
  BY <1>1
<1>5. /\ Preceding(s, j + 1) = {s[i][1] : i \in 1 .. j}
      /\ \A a, b : Before(s, j + 1, a, b) <=> \E i \in 1 .. j : s[i][1] = a /\ s[i][2] = b
  BY <1>4 DEF Preceding, Before
<1>6. s[1][1] \in Preceding(s, j + 1) /\ Preceding(t, j) \subseteq Preceding(s, j + 1)
  BY <1>2, <1>4, <1>5 DEF Preceding
<1>7. \A a \in Preceding(s, j + 1) : a = s[1][1] \/ a \in Preceding(t, j)
  <2> TAKE a \in Preceding(s, j + 1)
  <2>1. PICK i \in 1 .. j : a = s[i][1]
    BY <1>5
  <2>2. CASE i # 1
    <3>1. i - 1 \in 1 .. j - 1 /\ t[i - 1][1] = a
      BY <1>3, <2>1, <2>2
    <3> QED
      BY <3>1 DEF Preceding
  <2> QED
    BY <2>1, <2>2
<1>8. ASSUME NEW a, NEW b, Before(s, j + 1, a, b) PROVE (s[1][1] = a /\ s[1][2] = b) \/ Before(t, j, a, b)
  BY <1>3, <1>5, <1>8 DEF Before
<1> QED
  BY <1>1, <1>6, <1>7, <1>8

LEMMA SoundLater ==
  ASSUME NEW s, NEW t, Len(s) \in Nat, Shorter(s, t), NEW j \in 1 .. Len(t), Sound(s, j + 1)
  PROVE  Sound(t, j)
<1>1. t[j] = s[j + 1] /\ Preceding(t, j) \subseteq Preceding(s, j + 1) /\ j \in Nat /\ Len(t) \in Nat
  BY Later DEF Shorter
<1>2. \A i \in 1 .. j - 1 : i + 1 \in 1 .. j + 1 - 1 /\ t[i] = s[i + 1]
  BY <1>1 DEF Shorter
<1>3. j + 1 < Len(s) => j < Len(t) /\ t[j + 1] = s[j + 1 + 1]
  BY <1>1 DEF Shorter
<1> QED
  BY <1>1, <1>2, <1>3 DEF Sound

\* No step is before the first.
LEMMA AtHead ==
  ASSUME Typed, Owed, NEW what, Step(what)
  PROVE  /\ Promised(proc.left, proc.cfg, 1) /\ proc.left[1][1] = what /\ proc.left[1][2] = Arg
         /\ Preceding(proc.left, 1) = {} /\ \A a, b : ~Before(proc.left, 1, a, b)
<1>1. Len(proc.left) \in Nat \ {0} /\ proc.left # << >>
  BY DEF Typed, Step
<1>2. 1 \in 1 .. Len(proc.left) /\ 1 .. 1 - 1 = {}
  BY <1>1
<1> QED
  BY <1>1, <1>2 DEF Owed, Promises, Step, Arg, Preceding, Before

\* A command that has ended owes nothing.
LEMMA EndedOwesNothing ==
  ASSUME proc' = Free
  PROVE  Typed' /\ Owed'
<1>1. << >> \in Seq(Elements) /\ 1 .. Len(<< >>) = {}
  OBVIOUS
<1> QED
  BY <1>1, FreeFields DEF Typed, Owed, Promises

----------------------------------------------------------------------------
(***************************************************************************)
(* A step does what is owed after it.                                      *)
(***************************************************************************)

\* The step at the head, in what follows.
What == proc.left[1][1]
With == proc.left[1][2]

LEMMA OwedStays ==
  ASSUME Typed, Owed, Went, FilesOwed', SysctlsOwed', UnitsOwed'
  PROVE  Owed'
<1>1. \A j \in 1 .. Len(proc'.left) : Sound(proc'.left, j)
  <2> TAKE j \in 1 .. Len(proc'.left)
  <2>1. j + 1 \in 1 .. Len(proc.left)
    BY Later DEF Went
  <2>2. Sound(proc.left, j + 1)
    BY <2>1 DEF Owed, Promises, Promised
  <2> QED
    BY <2>2, SoundLater DEF Went
<1>2. \A j \in 1 .. Len(proc'.left) : Sound(proc.left, j)'
  BY <1>1 DEF Sound, Preceding
<1> QED
  BY <1>2 DEF Owed, Promises, Promised, FilesOwed, SysctlsOwed, UnitsOwed

\* The step j of the new list, as step j + 1 of the old.
LEMMA Next1 ==
  ASSUME Typed, Owed, Went, NEW j \in 1 .. Len(proc'.left)
  PROVE  /\ Promised(proc.left, proc.cfg, j + 1) /\ proc'.left[j] = proc.left[j + 1]
         /\ What \in Preceding(proc.left, j + 1) /\ Len(proc'.left) >= 1
         /\ \A a \in Preceding(proc.left, j + 1) : a = What \/ a \in Preceding(proc.left, j)'
         /\ \A a, b : Before(proc.left, j + 1, a, b) => (What = a /\ With = b) \/ Before(proc.left, j, a, b)'
<1>1. j + 1 \in 1 .. Len(proc.left) /\ Len(proc'.left) \in Nat
  BY Later DEF Went, Shorter
<1>2. Promised(proc.left, proc.cfg, j + 1) /\ Len(proc'.left) >= 1
  BY <1>1 DEF Owed, Promises
<1>3. /\ Preceding(proc.left, j)' = Preceding(proc'.left, j)
      /\ \A a, b : Before(proc.left, j, a, b)' <=> Before(proc'.left, j, a, b)
  BY DEF Preceding, Before
<1> QED
  BY <1>2, <1>3, Later DEF Went, What, With

LEMMA FilesGoOn ==
  ASSUME Typed, Owed, Went, SameConfig, config' = config, script' = script,
         What # "unlink" => installed \subseteq installed',
         What = "install" => With \subseteq installed',
         What \notin {"wipe", "save", "capture", "script"}
  PROVE  FilesOwed'
<1> SUFFICES ASSUME NEW j \in 1 .. Len(proc'.left) PROVE OwedToFiles(proc.left, proc.cfg, j)'
  BY DEF FilesOwed
<1> QED
  BY Next1 DEF SameConfig, Promised, Sound, OwedToFiles

LEMMA SysctlsGoOn ==
  ASSUME Typed, Owed, Went,
         What \in Undoing =>
           /\ SameConfig /\ config' = config /\ original' = original
           /\ \A k \in Keys : sysctl'[k] = sysctl[k] \/ sysctl'[k] = original[k]
           /\ What = "restore" /\ proc.cfg = config => sysctl'[With] = original[With]
           /\ dropin' => dropin
           /\ What = "unlink" /\ With = "sysctl" => ~dropin'
  PROVE  SysctlsOwed'
<1> SUFFICES ASSUME NEW j \in 1 .. Len(proc'.left) PROVE OwedToSysctls(proc.left, proc.cfg, j)'
  BY DEF SysctlsOwed
<1>1. CASE proc'.left[j][1] = "wipe" /\ proc'.left[j][2] = "config"
  <2>1. What \in Undoing
    BY <1>1, Next1 DEF Promised, Sound
  <2> QED
    BY <1>1, <2>1, Next1 DEF SameConfig, Promised, OwedToSysctls
<1> QED
  BY <1>1 DEF OwedToSysctls

LEMMA UnitsGoOn ==
  ASSUME Typed, Owed, Went,
         What \in Undoing \cup {"wipe"} =>
           /\ enabled' \subseteq enabled /\ installed' \subseteq installed
           /\ \A u \in Units : state[u] = "off" => state'[u] = "off"
           /\ What = "disable" => With \notin enabled'
           /\ \A u \in Units : What = DownBy(u) /\ With = u => state'[u] = "off"
           /\ What = "unlink" /\ With = "units" => installed' = {},
         What \in {"enable", "await"} =>
           (state["firewall"] = "active" \/ (What = "await" /\ With = {"firewall"})
              => state'["firewall"] = "active")
  PROVE  UnitsOwed'
<1> SUFFICES ASSUME NEW j \in 1 .. Len(proc'.left) PROVE OwedToUnits(proc.left, j)'
  BY DEF UnitsOwed
<1> DEFINE x == proc'.left[j]
<1>1. Promised(proc.left, proc.cfg, j + 1) /\ x = proc.left[j + 1]
  BY Next1
<1>2. x[1] = "wipe" => installed' = {} \/ Before(proc.left, j, "unlink", "units")'
  <2> SUFFICES ASSUME x[1] = "wipe" PROVE installed' = {} \/ Before(proc.left, j, "unlink", "units")'
    OBVIOUS
  <2>1. What \in Undoing \cup {"wipe"}
    BY <1>1, Next1 DEF Promised, Sound
  <2>2. installed = {} \/ Before(proc.left, j + 1, "unlink", "units")
    BY <1>1 DEF Promised, OwedToUnits
  <2> QED
    BY <2>1, <2>2, Next1
<1>3. ASSUME x[1] = "unlink", x[2] = "units", NEW u \in Units
      PROVE  /\ u \notin enabled' \/ Before(proc.left, j, "disable", u)'
             /\ state'[u] = "off" \/ Before(proc.left, j, DownBy(u), u)'
  <2>1. What \in Undoing
    BY <1>1, <1>3, Next1 DEF Promised, Sound
  <2>2. /\ u \notin enabled \/ Before(proc.left, j + 1, "disable", u)
        /\ state[u] = "off" \/ Before(proc.left, j + 1, DownBy(u), u)
    BY <1>1, <1>3 DEF Promised, OwedToUnits
  <2> QED
    BY <2>1, <2>2, Next1
<1>4. x[1] = "run" => state'["firewall"] = "active" \/ Before(proc.left, j, "await", {"firewall"})'
  <2> SUFFICES ASSUME x[1] = "run"
               PROVE  state'["firewall"] = "active" \/ Before(proc.left, j, "await", {"firewall"})'
    OBVIOUS
  <2>1. What \in {"enable", "await"}
    BY <1>1, Next1 DEF Promised, Sound
  <2>2. state["firewall"] = "active" \/ Before(proc.left, j + 1, "await", {"firewall"})
    BY <1>1 DEF Promised, OwedToUnits
  <2> QED
    BY <2>1, <2>2, Next1
<1> QED
  BY <1>2, <1>3, <1>4 DEF OwedToUnits

\* While systemd works, or the packet filter is flushed, nothing more is owed.
LEMMA OwedMeanwhile ==
  ASSUME Typed, Owed, proc' = proc, UNCHANGED hostVars, original' = original,
         \A u \in Units : state[u] = "off" => state'[u] = "off",
         state["firewall"] = "active" => state'["firewall"] = "active"
  PROVE  Owed'
<1> SUFFICES ASSUME NEW j \in 1 .. Len(proc.left) PROVE Promised(proc.left, proc.cfg, j)'
  BY DEF Owed, Promises
<1>1. Promised(proc.left, proc.cfg, j)
  BY DEF Owed, Promises
<1>2. /\ Preceding(proc.left, j)' = Preceding(proc.left, j)
      /\ \A a, b : Before(proc.left, j, a, b)' <=> Before(proc.left, j, a, b)
  BY DEF Preceding, Before
<1>3. Sound(proc.left, j)'
  <2>1. Sound(proc'.left, j)
    BY <1>1 DEF Promised
  <2> QED
    BY <2>1 DEF Sound, Preceding
<1>4. OwedToFiles(proc.left, proc.cfg, j)' /\ OwedToSysctls(proc.left, proc.cfg, j)'
  BY <1>1, <1>2 DEF Promised, OwedToFiles, OwedToSysctls, hostVars
<1>5. OwedToUnits(proc.left, j)'
  BY <1>1, <1>2 DEF Promised, OwedToUnits, hostVars
<1> QED
  BY <1>3, <1>4, <1>5 DEF Promised

----------------------------------------------------------------------------
(***************************************************************************)
(* The steps, and what they change.                                        *)
(***************************************************************************)

LEMMA ModeOf ==
  ASSUME NEW c, Configured(c)
  PROVE  DOMAIN c = Fields /\ c.mode \in ModeNames /\ c # Unset /\ c # NoConfig.c
<1>1. PICK o \in Options : Acceptable(o) /\ c = ConfigFor(o)
  BY DEF Configured
<1>2. o.mode \in {"ara", "wireguard", "ipip", "ssh"}
  BY <1>1 DEF Acceptable, Screened, ModeNames
<1>3. DOMAIN Defaults(o.mode) = Fields /\ Defaults(o.mode).mode = o.mode
  BY <1>2, ARADefaults, WireGuardDefaults, IPIPDefaults, SSHDefaults DEF Addressed
<1>4. DOMAIN c = Fields /\ c.mode = o.mode
  BY <1>1, <1>3, ConfigFields DEF Kept
<1>5. Unset.mode = "none" /\ NoConfig.c.mode = "none"
  BY DEF Unset, NoConfig
<1> QED
  BY <1>2, <1>4, <1>5 DEF ModeNames

LEMMA ExistsIs ==
  ASSUME Files
  PROVE  /\ Exists <=> config # NoConfig
         /\ Exists => Configured(config.c)
<1>1. NoConfig.c.mode = "none"
  BY DEF Unset, NoConfig
<1>2. config # NoConfig => Configured(config.c)
  BY DEF Files, Saved
<1>3. Configured(config.c) => config.c.mode # "none"
  BY ModeOf DEF ModeNames
<1> QED
  BY <1>1, <1>2, <1>3 DEF Exists

Core == Typed /\ Owed /\ Files /\ Sysctls /\ UnitsUp

LEMMA SavedStays ==
  ASSUME Files, original' = original, proc'.cfg \in {proc.cfg, NoConfig}
  PROVE  Saved(proc.cfg)' /\ Saved(config)' = Saved(config') /\ \A cfg : Saved(cfg)' <=> Saved(cfg)
  BY DEF Files, Saved

\* Steps that write nothing which is spoken of above.
LEMMA QuietStep ==
  ASSUME Core, Went, SameConfig, UNCHANGED <<hostVars, original>>,
         What \in {"check", "offer", "ran", "run", "gone", "await", "stop"},
         \A u \in Units : state[u] = "off" => state'[u] = "off",
         What = "gone" => With = "firewall" /\ state'["firewall"] = "off",
         What = "await" => (state["firewall"] = "active" \/ With = {"firewall"} => state'["firewall"] = "active"),
         state' \in [Units -> {"off", "queued", "starting", "active", "stopping"}],
         \A u \in Units \ {"firewall"} : state'[u] \in {"off", "queued", "active"}
  PROVE  Core'
<1>1. UnitsUp'
  BY DEF Core, UnitsUp, hostVars, Exists
<1>2. Files' /\ Sysctls'
  BY SavedStays DEF Core, Files, Sysctls, SameConfig, hostVars, Exists
<1>3. FilesOwed' /\ SysctlsOwed' 
  BY FilesGoOn, SysctlsGoOn DEF Core, hostVars, Undoing
<1>4. UnitsOwed'
  BY UnitsGoOn DEF Core, hostVars, Undoing, DownBy
<1> QED
  BY <1>1, <1>2, <1>3, <1>4, OwedStays DEF Core, Went

\* The step at the head is done.
LEMMA HeadDone ==
  ASSUME Core, NEW w, Step(w), proc' = Rest
  PROVE  /\ Went /\ SameConfig /\ What = w /\ With = Arg
         /\ Sound(proc.left, 1) /\ OwedToFiles(proc.left, proc.cfg, 1)
         /\ OwedToSysctls(proc.left, proc.cfg, 1) /\ OwedToUnits(proc.left, 1)
         /\ Preceding(proc.left, 1) = {} /\ \A a, b : ~Before(proc.left, 1, a, b)
<1>1. Typed /\ Owed /\ proc.left # << >>
  BY DEF Core, Step
<1>2. What = proc.left[1][1] /\ With = proc.left[1][2]
  BY DEF What, With
<1> QED
  BY <1>1, <1>2, RestGoes, AtHead DEF Promised

LEMMA StepSave ==
  ASSUME Core, Save
  PROVE  Core'
<1>1. /\ Step("save") /\ proc' = Rest /\ config' = proc.cfg
      /\ UNCHANGED <<dropin, sysctl, script, installed, enabled, state, original>>
  BY DEF Save, OnHost, unitVars
<1>2. /\ Went /\ SameConfig /\ What = "save" /\ proc.left[1][1] = "save" /\ proc.left[1][2] = With
      /\ Sound(proc.left, 1) /\ OwedToFiles(proc.left, proc.cfg, 1)
      /\ \A a, b : ~Before(proc.left, 1, a, b)
  BY <1>1, HeadDone DEF Step, With
<1>3. /\ proc.cfg.c = With /\ Configured(With) /\ (config = NoConfig \/ config.c = With)
  BY <1>2 DEF Sound, OwedToFiles
<1>4. /\ config'.c = With /\ config' # NoConfig /\ With # NoConfig.c /\ With # Unset
      /\ Saved(proc.cfg) /\ (Exists => config.c = With) /\ Exists' /\ ~(Exists /\ config = NoConfig)
  <2>1. With.mode # "none" /\ With # NoConfig.c /\ With # Unset
    BY <1>3, ModeOf DEF ModeNames
  <2> QED
    BY <1>1, <1>3, <2>1, ExistsIs DEF Core, Files, Exists
<1>5. Files'
  BY <1>1, <1>2, <1>4, SavedStays DEF Core, Files, SameConfig
<1>6. Sysctls' /\ UnitsUp'
  BY <1>1, <1>4 DEF Core, Sysctls, UnitsUp
<1>7. FilesOwed'
  <2> SUFFICES ASSUME NEW j \in 1 .. Len(proc'.left) PROVE OwedToFiles(proc.left, proc.cfg, j)'
    BY DEF FilesOwed
  <2>0. PICK x : x = proc'.left[j]
    OBVIOUS
  <2>1. /\ Sound(proc.left, j + 1) /\ OwedToFiles(proc.left, proc.cfg, j + 1) /\ x = proc.left[j + 1]
        /\ "save" \in Preceding(proc.left, j + 1)
        /\ \A a \in Preceding(proc.left, j + 1) : a = "save" \/ a \in Preceding(proc.left, j)'
        /\ \A a, b : Before(proc.left, j + 1, a, b) => ("save" = a /\ With = b) \/ Before(proc.left, j, a, b)'
    BY <1>2, <2>0, Next1 DEF Core, Promised
  <2>2. x[1] \notin {"capture", "options", "save"}
    BY <2>1 DEF Sound
  <2>3. x[1] \in {"dropin", "sysctl", "script"} => config'.c = x[2] \/ Before(proc.left, j, "save", x[2])'
    <3> SUFFICES ASSUME x[1] \in {"dropin", "sysctl", "script"}
                 PROVE  config'.c = x[2] \/ Before(proc.left, j, "save", x[2])'
      OBVIOUS
    <3>1. Configured(x[2]) /\ (config.c = x[2] \/ Before(proc.left, j + 1, "save", x[2]))
      BY <2>1 DEF Sound, OwedToFiles
    <3>2. x[2] # NoConfig.c
      BY <3>1, ModeOf
    <3> QED
      BY <1>3, <1>4, <2>1, <3>1, <3>2
  <2>4. x[1] = "install" /\ "firewall" \in x[2] =>
          (config' # NoConfig /\ script' = config'.c) \/ "script" \in Preceding(proc.left, j)'
    BY <1>1, <1>3, <1>4, <2>1 DEF OwedToFiles
  <2>5. x[1] = "restart" => "wg" \in installed' \/ Before(proc.left, j, "install", {"wg"})'
    BY <1>1, <2>1 DEF OwedToFiles
  <2> QED
    BY <1>4, <2>0, <2>2, <2>3, <2>4, <2>5 DEF OwedToFiles
<1>8. SysctlsOwed' /\ UnitsOwed'
  BY <1>1, <1>2, SysctlsGoOn, UnitsGoOn DEF Core, Undoing
<1> QED
  BY <1>2, <1>5, <1>6, <1>7, <1>8, OwedStays DEF Core, Went

LEMMA StepScript ==
  ASSUME Core, WriteScript
  PROVE  Core'
<1>1. /\ Step("script") /\ proc' = Rest /\ script' = Arg
      /\ UNCHANGED <<config, dropin, sysctl, installed, enabled, state, original>>
  BY DEF WriteScript, OnHost, unitVars
<1>2. /\ Went /\ SameConfig /\ What = "script" /\ With = Arg
      /\ proc.left[1][1] = "script" /\ proc.left[1][2] = With
      /\ Sound(proc.left, 1) /\ OwedToFiles(proc.left, proc.cfg, 1)
      /\ \A a, b : ~Before(proc.left, 1, a, b)
  BY <1>1, HeadDone DEF Step, With
<1>3. Configured(With) /\ Routed(With.mode) /\ config.c = With
  BY <1>2 DEF Sound, OwedToFiles
<1>4. config # NoConfig /\ Exists /\ (Exists' <=> Exists)
  BY <1>1, <1>3, ModeOf, ExistsIs DEF Core, Exists
<1>5. Files'
  BY <1>1, <1>2, <1>3, SavedStays DEF Core, Files, SameConfig
<1>6. Sysctls' /\ UnitsUp'
  BY <1>1, <1>2, <1>3, <1>4 DEF Core, Sysctls, UnitsUp
<1>7. FilesOwed'
  <2> SUFFICES ASSUME NEW j \in 1 .. Len(proc'.left) PROVE OwedToFiles(proc.left, proc.cfg, j)'
    BY DEF FilesOwed
  <2> QED
    BY <1>1, <1>2, <1>3, <1>4, Next1 DEF Core, SameConfig, Promised, OwedToFiles
<1>8. SysctlsOwed' /\ UnitsOwed'
  BY <1>1, <1>2, SysctlsGoOn, UnitsGoOn DEF Core, Undoing
<1> QED
  BY <1>2, <1>5, <1>6, <1>7, <1>8, OwedStays DEF Core, Went

LEMMA StepInstall ==
  ASSUME Core, Install
  PROVE  Core'
<1>1. /\ Step("install") /\ proc' = Rest /\ installed' = installed \cup Arg
      /\ UNCHANGED <<config, dropin, sysctl, script, enabled, state, original>>
  BY DEF Install, OnHost, unitVars
<1>2. /\ Went /\ SameConfig /\ What = "install" /\ With = Arg
      /\ proc.left[1][1] = "install" /\ proc.left[1][2] = With
      /\ Sound(proc.left, 1) /\ OwedToFiles(proc.left, proc.cfg, 1)
      /\ Preceding(proc.left, 1) = {}
  BY <1>1, HeadDone DEF Step, With
<1>3. With \subseteq Units /\ ("firewall" \in With => Exists /\ script = config.c)
  BY <1>2, ExistsIs DEF Sound, OwedToFiles, Core
<1>4. Files' /\ Sysctls'
  BY <1>1, <1>2, SavedStays DEF Core, Files, Sysctls, SameConfig, Exists
<1>5. UnitsUp'
  BY <1>1, <1>2, <1>3 DEF Core, UnitsUp, Exists
<1>6. FilesOwed' /\ SysctlsOwed' /\ UnitsOwed'
  BY <1>1, <1>2, FilesGoOn, SysctlsGoOn, UnitsGoOn DEF Core, Undoing
<1> QED
  BY <1>2, <1>4, <1>5, <1>6, OwedStays DEF Core, Went

LEMMA StepWipe ==
  ASSUME Core, Wipe
  PROVE  Core'
<1>1. /\ Step("wipe") /\ proc' = Rest
      /\ UNCHANGED <<dropin, sysctl, installed, enabled, state, original>>
      /\ \/ Arg = "config" /\ config' = NoConfig /\ script' = script
         \/ Arg = "lib" /\ script' = Unset /\ config' = config
  BY DEF Wipe, OnHost, unitVars
<1>2. /\ Went /\ SameConfig /\ What = "wipe" /\ With = Arg
      /\ proc.left[1][1] = "wipe" /\ proc.left[1][2] = With
      /\ OwedToSysctls(proc.left, proc.cfg, 1) /\ OwedToUnits(proc.left, 1)
      /\ \A a, b : ~Before(proc.left, 1, a, b)
  BY <1>1, HeadDone DEF Step, With
<1>3. installed = {} /\ enabled = {} /\ \A u \in Units : state[u] = "off"
  BY <1>2 DEF OwedToUnits, Core, UnitsUp
<1>4. With = "config" => sysctl = original /\ ~dropin
  BY <1>2 DEF OwedToSysctls, Core, Files
<1>5. Files'
  BY <1>1, <1>2, SavedStays DEF Core, Files, SameConfig, Saved
<1>6. Sysctls'
  BY <1>1, <1>2, <1>4 DEF Core, Sysctls, Exists
<1>7. UnitsUp'
  BY <1>1, <1>3 DEF Core, UnitsUp
<1>8. FilesOwed'
  <2> SUFFICES ASSUME NEW j \in 1 .. Len(proc'.left) PROVE OwedToFiles(proc.left, proc.cfg, j)'
    BY DEF FilesOwed
  <2>0. PICK x : x = proc'.left[j]
    OBVIOUS
  <2>1. /\ Sound(proc.left, j + 1) /\ OwedToFiles(proc.left, proc.cfg, j + 1) /\ x = proc.left[j + 1]
        /\ "wipe" \in Preceding(proc.left, j + 1)
        /\ \A a, b : Before(proc.left, j + 1, a, b) => ("wipe" = a /\ With = b) \/ Before(proc.left, j, a, b)'
    BY <1>2, <2>0, Next1 DEF Core, Promised
  <2>2. x[1] \notin {"save", "dropin", "sysctl", "script", "install", "enable", "restart", "offer"}
    BY <2>1 DEF Sound
  <2>3. x[1] \in {"capture", "options"} => config' = NoConfig \/ Before(proc.left, j, "wipe", "config")'
    BY <1>1, <1>2, <2>1 DEF OwedToFiles
  <2> QED
    BY <2>0, <2>2, <2>3 DEF OwedToFiles
<1>9. SysctlsOwed' /\ UnitsOwed'
  BY <1>1, <1>2, SysctlsGoOn, UnitsGoOn DEF Core, Undoing, DownBy
<1> QED
  BY <1>2, <1>5, <1>6, <1>7, <1>8, <1>9, OwedStays DEF Core, Went

LEMMA StepCapture ==
  ASSUME Core, Capture
  PROVE  Core'
<1>1. Step("capture") /\ UNCHANGED <<hostVars, state, original>>
  BY DEF Capture, unitVars
<1>2. PICK p, t :
        /\ t = Tail(proc.left)
        /\ p = [left |-> t, cfg |-> [c |-> Arg, prev |-> IF Routed(Arg.mode) THEN sysctl ELSE NoConfig.prev]]
  OBVIOUS
<1>3. proc' = p /\ DOMAIN p = {"left", "cfg"} /\ p.left = t
      /\ p.cfg.c = Arg /\ p.cfg.prev = IF Routed(Arg.mode) THEN sysctl ELSE NoConfig.prev
  BY <1>2 DEF Capture
<1>4. Went
  <2>1. proc.left # << >> /\ proc.left \in Seq(Elements)
    BY <1>1 DEF Step, Core, Typed
  <2>2. Len(proc.left) \in Nat /\ t \in Seq(Elements) /\ Shorter(proc.left, t)
    BY <1>2, <2>1 DEF Shorter
  <2> QED
    BY <1>3, <2>1, <2>2 DEF Went, Typed
<1>5. /\ What = "capture" /\ With = Arg /\ proc.left[1][1] = "capture" /\ proc.left[1][2] = With
      /\ Sound(proc.left, 1) /\ OwedToFiles(proc.left, proc.cfg, 1)
      /\ \A a, b : ~Before(proc.left, 1, a, b)
  BY <1>1, AtHead DEF Step, Arg, What, With, Core, Promised
<1>6. Configured(With) /\ config = NoConfig
  BY <1>5 DEF Sound, OwedToFiles
<1>7. sysctl = original
  BY <1>6, ExistsIs DEF Core, Sysctls
<1>8. Files'
  <2>1. Saved(p.cfg)
    BY <1>3, <1>5, <1>6, <1>7 DEF Saved
  <2> QED
    BY <1>1, <1>3, <2>1 DEF Core, Files, hostVars, Saved
<1>9. Sysctls' /\ UnitsUp'
  BY <1>1 DEF Core, Sysctls, UnitsUp, hostVars, Exists
<1>10. FilesOwed'
  <2> SUFFICES ASSUME NEW j \in 1 .. Len(proc'.left) PROVE OwedToFiles(proc.left, proc.cfg, j)'
    BY DEF FilesOwed
  <2>0. PICK x : x = proc'.left[j]
    OBVIOUS
  <2>1. /\ Sound(proc.left, j + 1) /\ OwedToFiles(proc.left, proc.cfg, j + 1) /\ x = proc.left[j + 1]
        /\ \A a \in Preceding(proc.left, j + 1) : a = "capture" \/ a \in Preceding(proc.left, j)'
        /\ \A a, b : Before(proc.left, j + 1, a, b) => ("capture" = a /\ With = b) \/ Before(proc.left, j, a, b)'
    BY <1>4, <1>5, <2>0, Next1 DEF Core, Promised
  <2>2. x[1] = "save" => With = x[2]
    <3>1. j + 1 - 1 = j /\ 1 \in 1 .. j
      OBVIOUS
    <3> QED
      BY <1>5, <2>1, <3>1 DEF Sound
  <2> QED
    BY <1>1, <1>3, <1>5, <1>6, <2>0, <2>1, <2>2 DEF OwedToFiles, hostVars
<1>11. SysctlsOwed' /\ UnitsOwed'
  BY <1>1, <1>4, <1>5, SysctlsGoOn, UnitsGoOn DEF Core, Undoing, hostVars
<1> QED
  BY <1>4, <1>8, <1>9, <1>10, <1>11, OwedStays DEF Core, Went

LEMMA StepDropin ==
  ASSUME Core, WriteDropin
  PROVE  Core'
<1>1. /\ Step("dropin") /\ proc' = Rest /\ dropin' = TRUE
      /\ UNCHANGED <<config, script, sysctl, installed, enabled, state, original>>
  BY DEF WriteDropin, OnHost, unitVars
<1>2. /\ Went /\ SameConfig /\ What = "dropin" /\ With = Arg
      /\ proc.left[1][1] = "dropin" /\ proc.left[1][2] = With
      /\ Sound(proc.left, 1) /\ OwedToFiles(proc.left, proc.cfg, 1)
      /\ \A a, b : ~Before(proc.left, 1, a, b)
  BY <1>1, HeadDone DEF Step, With
<1>3. Configured(With) /\ Routed(With.mode) /\ config.c = With /\ Exists
  <2>1. Configured(With) /\ Routed(With.mode) /\ config.c = With
    BY <1>2 DEF Sound, OwedToFiles
  <2> QED
    BY <2>1, ModeOf DEF Exists, ModeNames
<1>4. Files' /\ Sysctls' /\ UnitsUp'
  BY <1>1, <1>2, <1>3, SavedStays DEF Core, Files, Sysctls, UnitsUp, SameConfig, Exists
<1>5. FilesOwed' /\ SysctlsOwed' /\ UnitsOwed'
  BY <1>1, <1>2, FilesGoOn, SysctlsGoOn, UnitsGoOn DEF Core, Undoing
<1> QED
  BY <1>2, <1>4, <1>5, OwedStays DEF Core, Went

LEMMA StepApplySysctl ==
  ASSUME Core, ApplySysctl
  PROVE  Core'
<1>1. /\ Step("sysctl") /\ proc' = Rest /\ sysctl' = Managed
      /\ UNCHANGED <<config, script, dropin, installed, enabled, state, original>>
  BY DEF ApplySysctl, OnHost, unitVars
<1>2. /\ Went /\ SameConfig /\ What = "sysctl" /\ With = Arg
      /\ proc.left[1][1] = "sysctl" /\ proc.left[1][2] = With
      /\ Sound(proc.left, 1) /\ OwedToFiles(proc.left, proc.cfg, 1)
      /\ \A a, b : ~Before(proc.left, 1, a, b)
  BY <1>1, HeadDone DEF Step, With
<1>3. Configured(With) /\ Routed(With.mode) /\ config.c = With /\ Exists
  <2>1. Configured(With) /\ Routed(With.mode) /\ config.c = With
    BY <1>2 DEF Sound, OwedToFiles
  <2> QED
    BY <2>1, ModeOf DEF Exists, ModeNames
<1>4. Managed \in [Keys -> 0 .. 2]
  BY DEF Managed
<1>5. Files' /\ Sysctls' /\ UnitsUp'
  BY <1>1, <1>2, <1>3, <1>4, SavedStays DEF Core, Files, Sysctls, UnitsUp, SameConfig, Exists
<1>6. FilesOwed' /\ SysctlsOwed' /\ UnitsOwed'
  BY <1>1, <1>2, FilesGoOn, SysctlsGoOn, UnitsGoOn DEF Core, Undoing
<1> QED
  BY <1>2, <1>5, <1>6, OwedStays DEF Core, Went

LEMMA StepRestore ==
  ASSUME Core, Restore
  PROVE  Core'
<1>1. /\ Step("restore") /\ proc' = Rest
      /\ sysctl' = [sysctl EXCEPT ![Arg] = IF @ = Managed[Arg] /\ proc.cfg.prev[Arg] \in 0 .. 2
                                           THEN proc.cfg.prev[Arg] ELSE @]
      /\ UNCHANGED <<config, script, dropin, installed, enabled, state, original>>
  BY DEF Restore, OnHost, unitVars
<1>2. /\ Went /\ SameConfig /\ What = "restore" /\ With = Arg
      /\ proc.left[1][1] = "restore" /\ proc.left[1][2] = With /\ Sound(proc.left, 1)
  BY <1>1, HeadDone DEF Step, With
<1>3. With \in Keys
  BY <1>2 DEF Sound
<1>4. /\ original \in [Keys -> 0 .. 2] /\ sysctl \in [Keys -> 0 .. 2] /\ NoConfig.prev[With] = 3
      /\ \A k \in Keys : sysctl[k] \in {original[k], Managed[k]}
  BY <1>3 DEF Core, Files, Sysctls, NoConfig
<1>5. proc.cfg.prev[With] \in 0 .. 2 => proc.cfg.prev = original
  BY <1>3, <1>4 DEF Core, Files, Saved
<1>6. /\ \A k \in Keys : sysctl'[k] = sysctl[k] \/ sysctl'[k] = original[k]
      /\ sysctl' \in [Keys -> 0 .. 2]
  BY <1>1, <1>2, <1>3, <1>4, <1>5
<1>7. proc.cfg = config => sysctl'[With] = original[With]
  <2> SUFFICES ASSUME proc.cfg = config, sysctl[With] # original[With] PROVE sysctl'[With] = original[With]
    BY <1>3, <1>6
  <2>1. Exists /\ Routed(config.c.mode)
    BY DEF Core, Sysctls
  <2>2. proc.cfg.prev = original
    BY <2>1, ExistsIs DEF Core, Files, Saved
  <2> QED
    BY <1>1, <1>2, <1>3, <1>4, <2>2
<1>8. Files' /\ UnitsUp'
  BY <1>1, <1>2, <1>6, SavedStays DEF Core, Files, UnitsUp, SameConfig, Exists
<1>9. Sysctls'
  <2>1. sysctl' # original => sysctl # original
    BY <1>4, <1>6
  <2> QED
    BY <1>1, <1>4, <1>6, <2>1 DEF Core, Sysctls, Exists
<1>10. FilesOwed' /\ SysctlsOwed' /\ UnitsOwed'
  BY <1>1, <1>2, <1>6, <1>7, FilesGoOn, SysctlsGoOn, UnitsGoOn DEF Core, Undoing, DownBy
<1> QED
  BY <1>2, <1>8, <1>9, <1>10, OwedStays DEF Core, Went

LEMMA StepUnlink ==
  ASSUME Core, Unlink
  PROVE  Core'
<1>1. /\ Step("unlink") /\ proc' = Rest
      /\ UNCHANGED <<config, script, sysctl, enabled, state, original>>
      /\ \/ Arg = "units"  /\ installed' = {}  /\ dropin' = dropin
         \/ Arg = "sysctl" /\ dropin' = FALSE /\ installed' = installed
  BY DEF Unlink, OnHost, unitVars
<1>2. /\ Went /\ SameConfig /\ What = "unlink" /\ With = Arg
      /\ proc.left[1][1] = "unlink" /\ proc.left[1][2] = With /\ OwedToUnits(proc.left, 1)
      /\ \A a, b : ~Before(proc.left, 1, a, b)
  BY <1>1, HeadDone DEF Step, With
<1>3. With = "units" => enabled \cap Units = {} /\ \A u \in Units : state[u] = "off"
  BY <1>2 DEF OwedToUnits
<1>4. Files' /\ Sysctls'
  <2>1. dropin' = FALSE \/ dropin' = dropin
    BY <1>1
  <2>2. Files'
    BY <1>1, <1>2, <2>1, SavedStays DEF Core, Files, SameConfig
  <2>3. Sysctls'
    BY <1>1, <2>1 DEF Core, Sysctls, Exists
  <2> QED
    BY <2>2, <2>3
<1>5. UnitsUp'
  BY <1>1, <1>2, <1>3 DEF Core, UnitsUp, Exists
<1>6. FilesOwed'
  BY <1>1, <1>2, FilesGoOn DEF Core
<1>7. SysctlsOwed'
  BY <1>1, <1>2, SysctlsGoOn DEF Core, Files
<1>8. UnitsOwed'
  BY <1>1, <1>2, UnitsGoOn DEF Core, DownBy
<1> QED
  BY <1>2, <1>4, <1>5, <1>6, <1>7, <1>8, OwedStays DEF Core, Went

\* Steps that ask systemd for something, or wait for it.
LEMMA StepEnable ==
  ASSUME Core, EnableNow
  PROVE  Core'
<1>1. /\ Step("enable") /\ proc' = Rest /\ Arg \subseteq installed /\ enabled' = enabled \cup Arg
      /\ state' = [u \in Units |-> IF u \in Arg /\ state[u] = "off" THEN "queued" ELSE state[u]]
      /\ UNCHANGED <<config, dropin, sysctl, script, installed, original>>
  BY DEF EnableNow
<1>2. /\ Went /\ SameConfig /\ What = "enable" /\ With = Arg
      /\ proc.left[1][1] = "enable" /\ OwedToFiles(proc.left, proc.cfg, 1) /\ Preceding(proc.left, 1) = {}
  BY <1>1, HeadDone DEF Step
<1>3. Exists
  BY <1>2, ExistsIs DEF OwedToFiles, Core
<1>4. /\ state' \in [Units -> {"off", "queued", "starting", "active", "stopping"}]
      /\ state["firewall"] = "active" => state'["firewall"] = "active"
  BY <1>1 DEF Core, UnitsUp, Units
<1>5. Files' /\ Sysctls'
  BY <1>1, <1>2, SavedStays DEF Core, Files, Sysctls, SameConfig, Exists
<1>6. UnitsUp'
  BY <1>1, <1>3, <1>4 DEF Core, UnitsUp, Exists
<1>7. FilesOwed' /\ SysctlsOwed' /\ UnitsOwed'
  BY <1>1, <1>2, <1>4, FilesGoOn, SysctlsGoOn, UnitsGoOn DEF Core, Undoing
<1> QED
  BY <1>2, <1>5, <1>6, <1>7, OwedStays DEF Core, Went

LEMMA StepRestart ==
  ASSUME Core, Restart
  PROVE  Core'
<1>1. /\ Step("restart") /\ proc' = Rest /\ state' = [state EXCEPT ![Arg] = "queued"]
      /\ UNCHANGED <<hostVars, original>>
  BY DEF Restart
<1>2. /\ Went /\ SameConfig /\ What = "restart" /\ With = Arg
      /\ proc.left[1][1] = "restart" /\ proc.left[1][2] = With
      /\ Sound(proc.left, 1) /\ OwedToFiles(proc.left, proc.cfg, 1)
      /\ \A a, b : ~Before(proc.left, 1, a, b)
  BY <1>1, HeadDone DEF Step, With
<1>3. Arg = "wg" /\ Exists /\ "wg" \in installed
  BY <1>2, ExistsIs DEF Sound, OwedToFiles, Core
<1>4. Files' /\ Sysctls'
  BY <1>1, <1>2, SavedStays DEF Core, Files, Sysctls, SameConfig, Exists, hostVars
<1>5. UnitsUp'
  BY <1>1, <1>3 DEF Core, UnitsUp, Units, Exists, hostVars
<1>6. FilesOwed' /\ SysctlsOwed' /\ UnitsOwed'
  BY <1>1, <1>2, FilesGoOn, SysctlsGoOn, UnitsGoOn DEF Core, Undoing, hostVars
<1> QED
  BY <1>2, <1>4, <1>5, <1>6, OwedStays DEF Core, Went

\* A unit is taken down, or begins to go down.
LEMMA StopStops ==
  ASSUME Core, NEW u \in Units, Stop(u)
  PROVE  /\ \A v \in Units : state'[v] = state[v] \/ (v = u /\ state'[v] \in {"off", "stopping"})
         /\ \A v \in Units : state[v] = "off" => state'[v] = "off"
         /\ u # "firewall" => state'[u] = "off"
         /\ state' \in [Units -> {"off", "queued", "starting", "active", "stopping"}]
  BY DEF Core, UnitsUp, Stop

LEMMA StepDisable ==
  ASSUME Core, DisableNow
  PROVE  Core'
<1>1. /\ Step("disable") /\ proc' = Rest /\ enabled' = enabled \ {Arg} /\ Stop(Arg)
      /\ UNCHANGED <<config, dropin, sysctl, script, installed, original>>
  BY DEF DisableNow
<1>2. /\ Went /\ SameConfig /\ What = "disable" /\ With = Arg
      /\ proc.left[1][1] = "disable" /\ proc.left[1][2] = With /\ Sound(proc.left, 1)
  BY <1>1, HeadDone DEF Step, With
<1>3. Arg \in Units
  BY <1>2 DEF Sound
<1>4. /\ \A v \in Units : state'[v] = state[v] \/ (v = Arg /\ state'[v] \in {"off", "stopping"})
      /\ \A v \in Units : state[v] = "off" => state'[v] = "off"
      /\ Arg # "firewall" => state'[Arg] = "off"
      /\ state' \in [Units -> {"off", "queued", "starting", "active", "stopping"}]
  BY <1>1, <1>3, StopStops
<1>5. Files' /\ Sysctls'
  BY <1>1, <1>2, SavedStays DEF Core, Files, Sysctls, SameConfig, Exists
<1>6. UnitsUp'
  BY <1>1, <1>3, <1>4 DEF Core, UnitsUp, Exists
<1>7. FilesOwed' /\ SysctlsOwed' /\ UnitsOwed'
  BY <1>1, <1>2, <1>4, FilesGoOn, SysctlsGoOn, UnitsGoOn DEF Core, Undoing, DownBy
<1> QED
  BY <1>2, <1>5, <1>6, <1>7, OwedStays DEF Core, Went

LEMMA StepStop ==
  ASSUME Core, StopNow
  PROVE  Core'
<1>1. /\ Step("stop") /\ proc' = Rest /\ Stop(Arg) /\ UNCHANGED <<hostVars, original>>
  BY DEF StopNow
<1>2. /\ Went /\ SameConfig /\ What = "stop" /\ With = Arg
      /\ proc.left[1][1] = "stop" /\ proc.left[1][2] = With /\ Sound(proc.left, 1)
  BY <1>1, HeadDone DEF Step, With
<1>3. Arg \in Units \ {"firewall"}
  BY <1>2 DEF Sound
<1>4. /\ \A v \in Units : state'[v] = state[v] \/ (v = Arg /\ state'[v] \in {"off", "stopping"})
      /\ \A v \in Units : state[v] = "off" => state'[v] = "off"
      /\ state'[Arg] = "off"
      /\ state' \in [Units -> {"off", "queued", "starting", "active", "stopping"}]
  BY <1>1, <1>3, StopStops
<1>5. \A u \in Units \ {"firewall"} : state'[u] \in {"off", "queued", "active"}
  BY <1>4 DEF Core, UnitsUp
<1> QED
  BY <1>1, <1>2, <1>4, <1>5, QuietStep

\* Steps that change nothing here, or only the runs of the script.
LEMMA StepQuiet ==
  ASSUME Core, Look \/ Await \/ Gone \/ RunUp \/ Ran
  PROVE  Core'
<1>1. CASE proc' = Free
  <2>1. UNCHANGED <<hostVars, original, state>>
    BY DEF Look, OnHost, Await, Gone, RunUp, Ran, unitVars
  <2>2. Saved(NoConfig) /\ proc'.cfg = NoConfig
    BY <1>1, FreeFields DEF Saved
  <2>3. Files' /\ Sysctls' /\ UnitsUp'
    BY <2>1, <2>2, SavedStays DEF Core, Files, Sysctls, UnitsUp, Exists, hostVars
  <2> QED
    BY <1>1, <2>3, EndedOwesNothing DEF Core
<1>2. CASE proc' # Free
  <2>1. PICK w \in {"check", "offer", "await", "gone", "run", "ran"} :
          /\ Step(w) /\ proc' = Rest /\ UNCHANGED <<hostVars, original, state>>
          /\ w = "await" => \A u \in Arg : state[u] = "active"
          /\ w = "gone" => state[Arg] = "off"
    <3>1. CASE Look
      BY <3>1 DEF Look, OnHost, unitVars
    <3>2. CASE Await
      BY <1>2, <3>2 DEF Await, unitVars
    <3>3. CASE Gone
      BY <3>3 DEF Gone, unitVars
    <3>4. CASE RunUp
      BY <3>4 DEF RunUp
    <3>5. CASE Ran
      BY <3>5 DEF Ran, unitVars
    <3> QED
      BY <3>1, <3>2, <3>3, <3>4, <3>5
  <2>2. /\ Went /\ SameConfig /\ What = w /\ With = Arg
        /\ proc.left[1][1] = w /\ proc.left[1][2] = With /\ Sound(proc.left, 1)
    BY <2>1, HeadDone DEF Step, With
  <2>3. w = "gone" => With = "firewall"
    BY <2>2 DEF Sound
  <2>4. /\ state \in [Units -> {"off", "queued", "starting", "active", "stopping"}]
        /\ \A u \in Units \ {"firewall"} : state[u] \in {"off", "queued", "active"}
    BY DEF Core, UnitsUp
  <2> QED
    BY <2>1, <2>2, <2>3, <2>4, QuietStep
<1> QED
  BY <1>1, <1>2

----------------------------------------------------------------------------
(***************************************************************************)
(* The commands, as they begin.                                            *)
(***************************************************************************)

LEMMA StepsAre ==
  /\ \A w \in StepNames, a \in Arguments : <<w, a>> \in Elements
  /\ Units \subseteq Arguments /\ SUBSET Units \subseteq Arguments /\ Keys \subseteq Arguments
  /\ Options \subseteq Arguments /\ {0, "units", "sysctl", "config", "lib", "repair"} \subseteq Arguments
  /\ \A c : Configured(c) => c \in Arguments
<1>1. \A c : Configured(c) => c \in {ConfigFor(o) : o \in {p \in Options : Acceptable(p)}}
  <2> TAKE c
  <2> HAVE Configured(c)
  <2>1. PICK o \in Options : Acceptable(o) /\ c = ConfigFor(o)
    BY DEF Configured
  <2>2. o \in {p \in Options : Acceptable(p)}
    BY <2>1
  <2> QED
    BY <2>1, <2>2
<1> QED
  BY <1>1 DEF Elements, Arguments

\* The list q is the list p followed by the list r.
Joins(q, p, r) ==
  /\ q \in Seq(Elements) /\ Len(q) = Len(p) + Len(r)
  /\ \A i \in 1 .. Len(p) + Len(r) : q[i] = IF i <= Len(p) THEN p[i] ELSE r[i - Len(p)]

LEMMA Joined ==
  ASSUME NEW p \in Seq(Elements), NEW r \in Seq(Elements)
  PROVE  Joins(p \o r, p, r)
  BY ConcatProperties DEF Joins

LEMMA DisableIs ==
  /\ \A u \in {"server", "ipip", "wg"} : Disable(u) = << <<"disable", u>> >>
  /\ Disable("firewall") = << <<"disable", "firewall">>, <<"gone", "firewall">> >>
<1>1. PICK d, e : d = <<"disable", "firewall">> /\ e = <<"gone", "firewall">>
  OBVIOUS
<1>2. <<d>> \o <<e>> = <<d, e>>
  <2>1. PICK q : q = <<d>> \o <<e>>
    OBVIOUS
  <2>2. d \in {d, e} /\ e \in {d, e}
    OBVIOUS
  <2>3. <<d>> \in Seq({d, e}) /\ <<e>> \in Seq({d, e}) /\ <<d, e>> \in Seq({d, e})
    BY <2>2
  <2>4. /\ q \in Seq({d, e}) /\ Len(q) = Len(<<d>>) + Len(<<e>>)
        /\ \A i \in 1 .. Len(<<d>>) + Len(<<e>>) :
              q[i] = IF i <= Len(<<d>>) THEN <<d>>[i] ELSE <<e>>[i - Len(<<d>>)]
    BY <2>1, <2>3, ConcatProperties
  <2>5. Len(q) = 2 /\ q[1] = d /\ q[2] = e
    BY <2>4
  <2>6. q = <<d, e>>
    BY <2>3, <2>4, <2>5, SeqEqual
  <2> QED
    BY <2>1, <2>6
<1>3. Disable("firewall") = <<d, e>>
  BY <1>1, <1>2 DEF Disable
<1>4. ASSUME NEW u \in {"server", "ipip", "wg"} PROVE Disable(u) = << <<"disable", u>> >>
  <2>1. PICK f : f = <<"disable", u>>
    OBVIOUS
  <2>2. <<f>> \o << >> = <<f>>
    OBVIOUS
  <2>3. u # "firewall"
    OBVIOUS
  <2> QED
    BY <2>1, <2>2, <2>3 DEF Disable
<1> QED
  BY <1>1, <1>3, <1>4

Disables == Disable("server") \o Disable("ipip") \o Disable("firewall") \o Disable("wg")

LEMMA DisablesAre ==
  ASSUME NEW s, s = Disables
  PROVE  /\ s \in Seq(Elements) /\ Len(s) = 5
         /\ s[1] = <<"disable", "server">> /\ s[2] = <<"disable", "ipip">>
         /\ s[3] = <<"disable", "firewall">> /\ s[4] = <<"gone", "firewall">> /\ s[5] = <<"disable", "wg">>
<1>1. PICK a, b, c, d, e :
        /\ a = <<"disable", "server">> /\ b = <<"disable", "ipip">> /\ c = <<"disable", "firewall">>
        /\ d = <<"gone", "firewall">> /\ e = <<"disable", "wg">>
  OBVIOUS
<1>2. a \in Elements /\ b \in Elements /\ c \in Elements /\ d \in Elements /\ e \in Elements
  <2>1. "disable" \in StepNames /\ "gone" \in StepNames /\ {"server", "ipip", "firewall", "wg"} \subseteq Arguments
    BY StepsAre DEF StepNames, Units
  <2> QED
    BY <1>1, <2>1, StepsAre
<1>3. PICK la, lb, lc, le : la = <<a>> /\ lb = <<b>> /\ lc = <<c, d>> /\ le = <<e>>
  OBVIOUS
<1>4. /\ la \in Seq(Elements) /\ Len(la) = 1 /\ la[1] = a
      /\ lb \in Seq(Elements) /\ Len(lb) = 1 /\ lb[1] = b
      /\ lc \in Seq(Elements) /\ Len(lc) = 2 /\ lc[1] = c /\ lc[2] = d
      /\ le \in Seq(Elements) /\ Len(le) = 1 /\ le[1] = e
  BY <1>2, <1>3
<1>5. PICK p, q : p = la \o lb /\ q = p \o lc
  OBVIOUS
<1>6. s = q \o le
  BY <1>1, <1>3, <1>5, DisableIs DEF Disables
<1>7. Joins(p, la, lb)
  BY <1>4, <1>5, Joined
<1>8. p \in Seq(Elements) /\ Len(p) = 2 /\ p[1] = a /\ p[2] = b
  BY <1>4, <1>7 DEF Joins
<1>9. Joins(q, p, lc)
  BY <1>4, <1>5, <1>8, Joined
<1>10. q \in Seq(Elements) /\ Len(q) = 4 /\ q[1] = a /\ q[2] = b /\ q[3] = c /\ q[4] = d
  BY <1>4, <1>8, <1>9 DEF Joins
<1>11. Joins(s, q, le)
  BY <1>4, <1>6, <1>10, Joined
<1>12. /\ s \in Seq(Elements) /\ Len(s) = 5
       /\ s[1] = q[1] /\ s[2] = q[2] /\ s[3] = q[3] /\ s[4] = q[4] /\ s[5] = le[1]
  <2>1. Len(q) = 4 /\ Len(le) = 1
    BY <1>4, <1>10
  <2> QED
    BY <1>11, <2>1 DEF Joins
<1> QED
  BY <1>1, <1>4, <1>10, <1>12

Restores == << <<"restore", "ip_forward">>, <<"restore", "rp_all">>, <<"restore", "rp_default">> >>
Removals == << <<"unlink", "units">>, <<"unlink", "sysctl">>, <<"wipe", "config">>, <<"wipe", "lib">> >>

LEMMA UninstallIs ==
  ASSUME NEW c, NEW s, s = UninstallSteps(c)
  PROVE  /\ s \in Seq(Elements)
         /\ s[1] = <<"disable", "server">> /\ s[2] = <<"disable", "ipip">>
         /\ s[3] = <<"disable", "firewall">> /\ s[4] = <<"gone", "firewall">> /\ s[5] = <<"disable", "wg">>
         /\ Routed(c.mode) =>
              /\ Len(s) = 12
              /\ s[6] = <<"restore", "ip_forward">> /\ s[7] = <<"restore", "rp_all">>
              /\ s[8] = <<"restore", "rp_default">>
              /\ s[9] = <<"unlink", "units">> /\ s[10] = <<"unlink", "sysctl">>
              /\ s[11] = <<"wipe", "config">> /\ s[12] = <<"wipe", "lib">>
         /\ ~Routed(c.mode) =>
              /\ Len(s) = 9
              /\ s[6] = <<"unlink", "units">> /\ s[7] = <<"unlink", "sysctl">>
              /\ s[8] = <<"wipe", "config">> /\ s[9] = <<"wipe", "lib">>
<1>1. PICK p, r, w :
        /\ p = Disables
        /\ r = (IF Routed(c.mode) THEN Restores ELSE << >>) /\ w = Removals
  OBVIOUS
<1>2. PICK q : q = p \o r
  OBVIOUS
<1>3. s = q \o w
  BY <1>1, <1>2 DEF UninstallSteps, Disables, Restores, Removals
<1>4. /\ p \in Seq(Elements) /\ Len(p) = 5
      /\ p[1] = <<"disable", "server">> /\ p[2] = <<"disable", "ipip">>
      /\ p[3] = <<"disable", "firewall">> /\ p[4] = <<"gone", "firewall">> /\ p[5] = <<"disable", "wg">>
  BY <1>1, DisablesAre
<1>5. /\ <<"restore", "ip_forward">> \in Elements /\ <<"restore", "rp_all">> \in Elements
      /\ <<"restore", "rp_default">> \in Elements
  <2>1. "restore" \in StepNames /\ Keys \subseteq Arguments
    BY StepsAre DEF StepNames
  <2> QED
    BY <2>1, StepsAre DEF Keys
<1>6. /\ <<"unlink", "units">> \in Elements /\ <<"unlink", "sysctl">> \in Elements
      /\ <<"wipe", "config">> \in Elements /\ <<"wipe", "lib">> \in Elements
  <2>1. "unlink" \in StepNames /\ "wipe" \in StepNames
    BY DEF StepNames
  <2> QED
    BY <2>1, StepsAre
<1>7. /\ w \in Seq(Elements) /\ Len(w) = 4
      /\ w[1] = <<"unlink", "units">> /\ w[2] = <<"unlink", "sysctl">>
      /\ w[3] = <<"wipe", "config">> /\ w[4] = <<"wipe", "lib">>
  BY <1>1, <1>6 DEF Removals
<1>8. /\ r \in Seq(Elements) /\ (~Routed(c.mode) => Len(r) = 0)
      /\ Routed(c.mode) =>
           /\ Len(r) = 3 /\ r[1] = <<"restore", "ip_forward">>
           /\ r[2] = <<"restore", "rp_all">> /\ r[3] = <<"restore", "rp_default">>
  BY <1>1, <1>5 DEF Restores
<1>9. Joins(q, p, r)
  BY <1>2, <1>4, <1>8, Joined
<1>10. /\ q \in Seq(Elements) /\ \A i \in 1 .. 5 : q[i] = p[i]
       /\ ~Routed(c.mode) => Len(q) = 5
       /\ Routed(c.mode) => Len(q) = 8 /\ q[6] = r[1] /\ q[7] = r[2] /\ q[8] = r[3]
  <2>1. /\ q \in Seq(Elements) /\ Len(q) = 5 + Len(r)
        /\ \A i \in 1 .. 5 + Len(r) : q[i] = IF i <= 5 THEN p[i] ELSE r[i - 5]
    BY <1>4, <1>9 DEF Joins
  <2>2. CASE ~Routed(c.mode)
    BY <1>8, <2>1, <2>2
  <2>3. CASE Routed(c.mode)
    <3>1. Len(r) = 3
      BY <1>8, <2>3
    <3>2. Len(q) = 8 /\ q[6] = r[1] /\ q[7] = r[2] /\ q[8] = r[3]
      BY <2>1, <3>1
    <3> QED
      BY <2>1, <2>3, <3>1, <3>2
  <2> QED
    BY <2>2, <2>3
<1>11. Joins(s, q, w)
  BY <1>3, <1>7, <1>10, Joined
<1>12. /\ s \in Seq(Elements) /\ \A i \in 1 .. 5 : s[i] = p[i]
       /\ ~Routed(c.mode) => Len(s) = 9 /\ s[6] = w[1] /\ s[7] = w[2] /\ s[8] = w[3] /\ s[9] = w[4]
       /\ Routed(c.mode) =>
            /\ Len(s) = 12 /\ s[6] = q[6] /\ s[7] = q[7] /\ s[8] = q[8]
            /\ s[9] = w[1] /\ s[10] = w[2] /\ s[11] = w[3] /\ s[12] = w[4]
  <2>1. CASE ~Routed(c.mode)
    <3>1. Len(q) = 5 /\ Len(w) = 4
      BY <1>7, <1>10, <2>1
    <3>2. /\ s \in Seq(Elements) /\ Len(s) = 9
          /\ \A i \in 1 .. 5 : s[i] = q[i]
          /\ s[6] = w[1] /\ s[7] = w[2] /\ s[8] = w[3] /\ s[9] = w[4]
      BY <1>11, <3>1 DEF Joins
    <3> QED
      BY <1>10, <2>1, <3>2
  <2>2. CASE Routed(c.mode)
    <3>1. Len(q) = 8 /\ Len(w) = 4
      BY <1>7, <1>10, <2>2
    <3>2. /\ s \in Seq(Elements) /\ Len(s) = 12
          /\ \A i \in 1 .. 8 : s[i] = q[i]
          /\ s[9] = w[1] /\ s[10] = w[2] /\ s[11] = w[3] /\ s[12] = w[4]
      BY <1>11, <3>1 DEF Joins
    <3> QED
      BY <1>10, <2>2, <3>2
  <2> QED
    BY <2>1, <2>2
<1>13. \A i \in 1 .. 5 : s[i] = p[i]
  BY <1>12
<1>14. s[1] = p[1] /\ s[2] = p[2] /\ s[3] = p[3] /\ s[4] = p[4] /\ s[5] = p[5]
  BY <1>13
<1>15. Routed(c.mode) => s[6] = r[1] /\ s[7] = r[2] /\ s[8] = r[3]
  BY <1>10, <1>12
<1> QED
  BY <1>4, <1>7, <1>8, <1>12, <1>14, <1>15

LEMMA UninstallBefore ==
  ASSUME NEW c, NEW s, s = UninstallSteps(c)
  PROVE  /\ \A u \in Units : \A n : s[n] = <<"unlink", "units">> /\ n \in 1 .. Len(s) =>
              Before(s, n, "disable", u) /\ Before(s, n, DownBy(u), u)
         /\ \A n \in 1 .. Len(s) : s[n][1] = "wipe" =>
              /\ Before(s, n, "unlink", "units") /\ Before(s, n, "unlink", "sysctl")
              /\ Routed(c.mode) => \A k \in Keys : Before(s, n, "restore", k)
<1>0. /\ s[1] = <<"disable", "server">> /\ s[2] = <<"disable", "ipip">>
      /\ s[3] = <<"disable", "firewall">> /\ s[4] = <<"gone", "firewall">> /\ s[5] = <<"disable", "wg">>
  BY UninstallIs
<1>1. \A n \in Nat : 9 <= n => 1 .. 8 \subseteq 1 .. n - 1
  OBVIOUS
<1>2. \A n \in Nat : 6 <= n => 1 .. 5 \subseteq 1 .. n - 1
  OBVIOUS
<1>3. \A u \in Units : \A n \in Nat : 6 <= n =>
        Before(s, n, "disable", u) /\ Before(s, n, DownBy(u), u)
  <2>1. \A u \in Units : \E i \in 1 .. 5 : s[i][1] = "disable" /\ s[i][2] = u
    BY <1>0 DEF Units
  <2>2. \A u \in Units : \E i \in 1 .. 5 : s[i][1] = DownBy(u) /\ s[i][2] = u
    BY <1>0 DEF Units, DownBy
  <2> QED
    BY <1>2, <2>1, <2>2 DEF Before
<1>4. CASE Routed(c.mode)
  <2>1. /\ Len(s) = 12
        /\ s[6] = <<"restore", "ip_forward">> /\ s[7] = <<"restore", "rp_all">>
        /\ s[8] = <<"restore", "rp_default">>
        /\ s[9] = <<"unlink", "units">> /\ s[10] = <<"unlink", "sysctl">>
        /\ s[11] = <<"wipe", "config">> /\ s[12] = <<"wipe", "lib">>
    BY <1>4, UninstallIs
  <2>2. \A n \in 1 .. Len(s) : (s[n][1] = "wipe" => n \in 11 .. 12) /\ (s[n][1] = "unlink" => n \in 9 .. 10)
    BY <1>0, <2>1
  <2>3. \A k \in Keys : \E i \in 1 .. 8 : s[i][1] = "restore" /\ s[i][2] = k
    BY <2>1 DEF Keys
  <2>4. \A n \in 11 .. 12 : \A k \in Keys : Before(s, n, "restore", k)
    BY <1>1, <2>3 DEF Before
  <2>5. \A n \in 11 .. 12 : Before(s, n, "unlink", "units") /\ Before(s, n, "unlink", "sysctl")
    <3>1. \A n \in 11 .. 12 : 9 \in 1 .. n - 1 /\ 10 \in 1 .. n - 1
      OBVIOUS
    <3> QED
      BY <2>1, <3>1 DEF Before
  <2>6. \A n : s[n] = <<"unlink", "units">> => s[n][1] = "unlink"
    OBVIOUS
  <2> QED
    BY <1>3, <2>2, <2>4, <2>5, <2>6
<1>5. CASE ~Routed(c.mode)
  <2>1. /\ Len(s) = 9
        /\ s[6] = <<"unlink", "units">> /\ s[7] = <<"unlink", "sysctl">>
        /\ s[8] = <<"wipe", "config">> /\ s[9] = <<"wipe", "lib">>
    BY <1>5, UninstallIs
  <2>2. \A n \in 1 .. Len(s) : (s[n][1] = "wipe" => n \in 8 .. 9) /\ (s[n][1] = "unlink" => n \in 6 .. 7)
    BY <1>0, <2>1
  <2>3. \A n \in 8 .. 9 : Before(s, n, "unlink", "units") /\ Before(s, n, "unlink", "sysctl")
    <3>1. \A n \in 8 .. 9 : 6 \in 1 .. n - 1 /\ 7 \in 1 .. n - 1
      OBVIOUS
    <3> QED
      BY <2>1, <3>1 DEF Before
  <2>4. \A n : s[n] = <<"unlink", "units">> => s[n][1] = "unlink"
    OBVIOUS
  <2> QED
    BY <1>3, <1>5, <2>2, <2>3, <2>4
<1> QED
  BY <1>4, <1>5

LEMMA UninstallSound ==
  ASSUME NEW c, NEW s, s = UninstallSteps(c)
  PROVE  /\ \A j \in 1 .. Len(s) : Sound(s, j) /\ \A cfg : OwedToFiles(s, cfg, j)
         /\ \A j \in 1 .. Len(s) : s[j][1] \in {"disable", "gone", "restore", "unlink", "wipe"}
         /\ \A j \in 1 .. Len(s) : s[j][1] = "unlink" /\ s[j][2] = "units" => s[j] = <<"unlink", "units">>
         /\ \E n \in 1 .. Len(s) : s[n][1] = "wipe" /\ s[n][2] = "config"
<1>1. CASE Routed(c.mode)
  <2>1. /\ s[1] = <<"disable", "server">> /\ s[2] = <<"disable", "ipip">>
        /\ s[3] = <<"disable", "firewall">> /\ s[4] = <<"gone", "firewall">> /\ s[5] = <<"disable", "wg">>
        /\ Len(s) = 12
        /\ s[6] = <<"restore", "ip_forward">> /\ s[7] = <<"restore", "rp_all">>
        /\ s[8] = <<"restore", "rp_default">>
        /\ s[9] = <<"unlink", "units">> /\ s[10] = <<"unlink", "sysctl">>
        /\ s[11] = <<"wipe", "config">> /\ s[12] = <<"wipe", "lib">>
    BY <1>1, UninstallIs
  <2>2. \A j \in 1 .. Len(s) : Sound(s, j)
    BY <2>1 DEF Sound, Preceding, Undoing, Units, Keys
  <2>3. \A j \in 1 .. Len(s) : \A cfg : OwedToFiles(s, cfg, j)
    BY <2>1 DEF OwedToFiles
  <2>4. /\ \A j \in 1 .. Len(s) : s[j][1] \in {"disable", "gone", "restore", "unlink", "wipe"}
        /\ \A j \in 1 .. Len(s) : s[j][1] = "unlink" /\ s[j][2] = "units" => s[j] = <<"unlink", "units">>
        /\ \E n \in 1 .. Len(s) : s[n][1] = "wipe" /\ s[n][2] = "config"
    BY <2>1
  <2> QED
    BY <2>2, <2>3, <2>4
<1>2. CASE ~Routed(c.mode)
  <2>1. /\ s[1] = <<"disable", "server">> /\ s[2] = <<"disable", "ipip">>
        /\ s[3] = <<"disable", "firewall">> /\ s[4] = <<"gone", "firewall">> /\ s[5] = <<"disable", "wg">>
        /\ Len(s) = 9
        /\ s[6] = <<"unlink", "units">> /\ s[7] = <<"unlink", "sysctl">>
        /\ s[8] = <<"wipe", "config">> /\ s[9] = <<"wipe", "lib">>
    BY <1>2, UninstallIs
  <2>2. \A j \in 1 .. Len(s) : Sound(s, j)
    BY <2>1 DEF Sound, Preceding, Undoing, Units, Keys
  <2>3. \A j \in 1 .. Len(s) : \A cfg : OwedToFiles(s, cfg, j)
    BY <2>1 DEF OwedToFiles
  <2>4. /\ \A j \in 1 .. Len(s) : s[j][1] \in {"disable", "gone", "restore", "unlink", "wipe"}
        /\ \A j \in 1 .. Len(s) : s[j][1] = "unlink" /\ s[j][2] = "units" => s[j] = <<"unlink", "units">>
        /\ \E n \in 1 .. Len(s) : s[n][1] = "wipe" /\ s[n][2] = "config"
    BY <2>1
  <2> QED
    BY <2>2, <2>3, <2>4
<1> QED
  BY <1>1, <1>2

\* What uninstall does keeps what is owed by the time each of its steps comes.
LEMMA UninstallPromises ==
  ASSUME Core, NEW s, s = UninstallSteps(config.c)
  PROVE  Promises(s, config) /\ s \in Seq(Elements) /\ Len(s) \in Nat \ {0}
         /\ \E n \in 1 .. Len(s) : s[n][1] = "wipe" /\ s[n][2] = "config"
<1>1. ASSUME NEW j \in 1 .. Len(s) PROVE OwedToSysctls(s, config, j)
  <2>1. CASE Routed(config.c.mode)
    BY <1>1, <2>1, UninstallBefore DEF OwedToSysctls
  <2>2. CASE ~Routed(config.c.mode)
    <3>1. sysctl = original /\ ~dropin
      BY <2>2 DEF Core, Sysctls
    <3> QED
      BY <3>1 DEF OwedToSysctls
  <2> QED
    BY <2>1, <2>2
<1>2. ASSUME NEW j \in 1 .. Len(s) PROVE OwedToUnits(s, j)
  BY <1>2, UninstallBefore, UninstallSound DEF OwedToUnits
<1>3. \E n \in 1 .. Len(s) : s[n][1] = "wipe" /\ s[n][2] = "config"
  BY UninstallSound
<1>4. s \in Seq(Elements) /\ Len(s) \in Nat \ {0}
  <2>1. s \in Seq(Elements)
    BY UninstallIs
  <2> QED
    BY <1>3, <2>1
<1> QED
  BY <1>1, <1>2, <1>3, <1>4, UninstallSound DEF Promises, Promised

\* A longer list keeps the promises of the steps it begins with.
LEMMA Longer ==
  ASSUME NEW s, NEW t, Len(s) \in Nat, Len(t) \in Nat, Len(s) <= Len(t),
         \A i \in 1 .. Len(s) : t[i] = s[i],
         NEW cfg, NEW j \in 1 .. Len(s), Promised(s, cfg, j)
  PROVE  Promised(t, cfg, j)
<1>1. j \in Nat /\ t[j] = s[j] /\ \A i \in 1 .. j - 1 : t[i] = s[i]
  OBVIOUS
<1>2. Preceding(t, j) = Preceding(s, j) /\ \A a, b : Before(t, j, a, b) <=> Before(s, j, a, b)
  BY <1>1 DEF Preceding, Before
<1>3. j < Len(s) => j < Len(t) /\ t[j + 1] = s[j + 1]
  OBVIOUS
<1>4. Sound(t, j)
  BY <1>1, <1>2, <1>3 DEF Promised, Sound
<1>5. OwedToFiles(t, cfg, j) /\ OwedToSysctls(t, cfg, j) /\ OwedToUnits(t, j)
  BY <1>1, <1>2 DEF Promised, OwedToFiles, OwedToSysctls, OwedToUnits
<1> QED
  BY <1>4, <1>5 DEF Promised

LEMMA InitPromises ==
  ASSUME Core, NEW s, s = InitSteps
  PROVE  Promises(s, config) /\ s \in Seq(Elements)
<1>1. PICK e, u : e = <<"options", 0>> /\ u = IF Exists THEN UninstallSteps(config.c) ELSE << >>
  OBVIOUS
<1>2. e \in Elements
  BY <1>1, StepsAre DEF StepNames
<1>3. PICK le : le = <<e>>
  OBVIOUS
<1>4. le \in Seq(Elements) /\ Len(le) = 1 /\ le[1] = e
  BY <1>2, <1>3
<1>5. s = u \o le
  BY <1>1, <1>3 DEF InitSteps
<1>6. u \in Seq(Elements) /\ Len(u) \in Nat
  BY <1>1, UninstallPromises
<1>7. Joins(s, u, le)
  BY <1>4, <1>5, <1>6, Joined
<1>8. /\ s \in Seq(Elements) /\ Len(s) = Len(u) + 1 /\ Len(s) \in Nat
      /\ \A i \in 1 .. Len(u) : s[i] = u[i]
      /\ s[Len(s)] = e
  BY <1>4, <1>6, <1>7 DEF Joins
<1>9. ASSUME NEW j \in 1 .. Len(u) PROVE Promised(s, config, j)
  <2>1. Exists
    BY <1>1
  <2>2. Promised(u, config, j)
    BY <1>1, <2>1, UninstallPromises DEF Promises
  <2> QED
    BY <1>6, <1>8, <2>2, Longer
<1>10. Promised(s, config, Len(s))
  <2> DEFINE n == Len(s)
  <2>1. n - 1 = Len(u) /\ \A i \in 1 .. n - 1 : s[i] = u[i]
    BY <1>6, <1>8
  <2>2. s[n][1] = "options" /\ s[n][2] = 0
    BY <1>1, <1>8
  <2>3. config = NoConfig \/ Before(s, n, "wipe", "config")
    <3>1. CASE Exists
      <4>1. PICK i \in 1 .. Len(u) : u[i][1] = "wipe" /\ u[i][2] = "config"
        BY <1>1, <3>1, UninstallPromises
      <4> QED
        BY <2>1, <4>1 DEF Before
    <3>2. CASE ~Exists
      BY <3>2, ExistsIs DEF Core
    <3> QED
      BY <3>1, <3>2
  <2>4. "save" \notin Preceding(s, n)
    <3>1. \A i \in 1 .. Len(u) : u[i][1] # "save"
      <4>1. CASE Exists
        BY <1>1, <4>1, UninstallSound
      <4>2. CASE ~Exists
        BY <1>1, <4>2
      <4> QED
        BY <4>1, <4>2
    <3> QED
      BY <2>1, <3>1 DEF Preceding
  <2>5. Sound(s, n)
    BY <2>2, <2>4 DEF Sound
  <2> QED
    BY <2>2, <2>3, <2>5 DEF Promised, OwedToFiles, OwedToSysctls, OwedToUnits
<1>11. \A j \in 1 .. Len(s) : j \in 1 .. Len(u) \/ j = Len(s)
  BY <1>6, <1>8
<1> QED
  BY <1>8, <1>9, <1>10, <1>11 DEF Promises

LEMMA ConfiguredIs ==
  ASSUME NEW o \in Options, Acceptable(o), NEW c, c = ConfigFor(o)
  PROVE  /\ Configured(c) /\ c.mode = o.mode /\ o.mode \in ModeNames
         /\ UnitsOf(c) \subseteq Units /\ c \in Arguments /\ o \in Arguments
<1>1. Configured(c) /\ o.mode \in {"ara", "wireguard", "ipip", "ssh"}
  BY DEF Configured, Acceptable, Screened, ModeNames
<1>2. DOMAIN Defaults(o.mode) = Fields /\ Defaults(o.mode).mode = o.mode
  BY <1>1, ARADefaults, WireGuardDefaults, IPIPDefaults, SSHDefaults DEF Addressed
<1>3. c.mode = o.mode
  BY <1>2, ConfigFields DEF Kept
<1> QED
  BY <1>1, <1>3, StepsAre DEF UnitsOf, LinkUnit, Units, ModeNames

\* What init does of accepted options, by mode.
IsInitARA(s, o, c) ==
  /\ s \in Seq(Elements) /\ Len(s) = 11
  /\ s[1] = <<"check", o>> /\ s[2] = <<"capture", c>> /\ s[3] = <<"install", {"wg"}>>
  /\ s[4] = <<"save", c>> /\ s[5] = <<"dropin", c>> /\ s[6] = <<"sysctl", c>>
  /\ s[7] = <<"script", c>> /\ s[8] = <<"install", UnitsOf(c) \ {"wg"}>>
  /\ s[9] = <<"enable", UnitsOf(c)>> /\ s[10] = <<"await", UnitsOf(c)>> /\ s[11] = <<"offer", o>>

LEMMA InitARAIs ==
  ASSUME NEW o \in Options, Acceptable(o), NEW c, c = ConfigFor(o), c.mode \in {"ara", "wireguard"},
         NEW s, s = InitStepsFor(o)
  PROVE  IsInitARA(s, o, c)
<1>1. PICK e1, e2, e3, e4, e5, e6, e7, e8, e9, e10, e11 :
        /\ e1 = <<"check", o>> /\ e2 = <<"capture", c>> /\ e3 = <<"install", {"wg"}>>
        /\ e4 = <<"save", c>> /\ e5 = <<"dropin", c>> /\ e6 = <<"sysctl", c>>
        /\ e7 = <<"script", c>> /\ e8 = <<"install", UnitsOf(c) \ {"wg"}>>
        /\ e9 = <<"enable", UnitsOf(c)>> /\ e10 = <<"await", UnitsOf(c)>> /\ e11 = <<"offer", o>>
  OBVIOUS
<1>2. /\ e1 \in Elements /\ e2 \in Elements /\ e3 \in Elements /\ e4 \in Elements /\ e5 \in Elements
      /\ e6 \in Elements /\ e7 \in Elements /\ e8 \in Elements /\ e9 \in Elements /\ e10 \in Elements
      /\ e11 \in Elements
  <2>1. /\ UnitsOf(c) \in Arguments /\ UnitsOf(c) \ {"wg"} \in Arguments /\ {"wg"} \in Arguments
        /\ c \in Arguments /\ o \in Arguments
    <3>1. UnitsOf(c) \in SUBSET Units /\ UnitsOf(c) \ {"wg"} \in SUBSET Units /\ {"wg"} \in SUBSET Units
      BY ConfiguredIs DEF Units
    <3> QED
      BY <3>1, ConfiguredIs, StepsAre
  <2>2. {"check", "capture", "install", "save", "dropin", "sysctl", "script", "enable", "await", "offer"}
          \subseteq StepNames
    BY DEF StepNames
  <2> QED
    BY <1>1, <2>1, <2>2, StepsAre
<1>3. PICK x, a, b, d, t, g, h, z :
        /\ x = <<e1>> /\ a = <<e2>> /\ b = <<e3>> /\ d = <<e4>> /\ t = <<e5, e6>>
        /\ g = <<e7, e8>> /\ h = <<e9, e10>> /\ z = <<e11>>
  OBVIOUS
<1>4. /\ x \in Seq(Elements) /\ Len(x) = 1 /\ x[1] = e1
      /\ a \in Seq(Elements) /\ Len(a) = 1 /\ a[1] = e2
      /\ b \in Seq(Elements) /\ Len(b) = 1 /\ b[1] = e3
      /\ d \in Seq(Elements) /\ Len(d) = 1 /\ d[1] = e4
      /\ t \in Seq(Elements) /\ Len(t) = 2 /\ t[1] = e5 /\ t[2] = e6
      /\ g \in Seq(Elements) /\ Len(g) = 2 /\ g[1] = e7 /\ g[2] = e8
      /\ h \in Seq(Elements) /\ Len(h) = 2 /\ h[1] = e9 /\ h[2] = e10
      /\ z \in Seq(Elements) /\ Len(z) = 1 /\ z[1] = e11
  BY <1>2, <1>3
<1>5. PICK p, q, u, v, w, y : p = a \o b /\ q = p \o d /\ u = q \o t /\ v = g \o h /\ w = u \o v /\ y = w \o z
  OBVIOUS
<1>6. s = x \o y
  <2>1. Screened(o) /\ Prepared(c)
    BY DEF Acceptable
  <2>2. TakeOverSteps(c) = u
    BY <1>1, <1>3, <1>5 DEF TakeOverSteps, Routed
  <2>3. ActivateSteps(c) = v
    BY <1>1, <1>3, <1>5 DEF ActivateSteps, Enable
  <2> QED
    BY <1>1, <1>3, <1>5, <2>1, <2>2, <2>3 DEF InitStepsFor
<1>7. p \in Seq(Elements) /\ Len(p) = 2 /\ p[1] = e2 /\ p[2] = e3
  <2>1. Joins(p, a, b)
    BY <1>4, <1>5, Joined
  <2> QED
    BY <1>4, <2>1 DEF Joins
<1>8. q \in Seq(Elements) /\ Len(q) = 3 /\ q[1] = e2 /\ q[2] = e3 /\ q[3] = e4
  <2>1. Joins(q, p, d)
    BY <1>4, <1>5, <1>7, Joined
  <2> QED
    BY <1>4, <1>7, <2>1 DEF Joins
<1>9. u \in Seq(Elements) /\ Len(u) = 5 /\ u[1] = e2 /\ u[2] = e3 /\ u[3] = e4 /\ u[4] = e5 /\ u[5] = e6
  <2>1. Joins(u, q, t)
    BY <1>4, <1>5, <1>8, Joined
  <2> QED
    BY <1>4, <1>8, <2>1 DEF Joins
<1>10. v \in Seq(Elements) /\ Len(v) = 4 /\ v[1] = e7 /\ v[2] = e8 /\ v[3] = e9 /\ v[4] = e10
  <2>1. Joins(v, g, h)
    BY <1>4, <1>5, Joined
  <2> QED
    BY <1>4, <2>1 DEF Joins
<1>11. /\ w \in Seq(Elements) /\ Len(w) = 9 /\ w[1] = e2 /\ w[2] = e3 /\ w[3] = e4 /\ w[4] = e5
       /\ w[5] = e6 /\ w[6] = e7 /\ w[7] = e8 /\ w[8] = e9 /\ w[9] = e10
  <2>1. Joins(w, u, v)
    BY <1>5, <1>9, <1>10, Joined
  <2> QED
    BY <1>9, <1>10, <2>1 DEF Joins
<1>12. /\ y \in Seq(Elements) /\ Len(y) = 10 /\ y[1] = e2 /\ y[2] = e3 /\ y[3] = e4 /\ y[4] = e5
       /\ y[5] = e6 /\ y[6] = e7 /\ y[7] = e8 /\ y[8] = e9 /\ y[9] = e10 /\ y[10] = e11
  <2>1. Joins(y, w, z)
    BY <1>4, <1>5, <1>11, Joined
  <2> QED
    BY <1>4, <1>11, <2>1 DEF Joins
<1>13. /\ s \in Seq(Elements) /\ Len(s) = 11 /\ s[1] = e1 /\ s[2] = e2 /\ s[3] = e3 /\ s[4] = e4 /\ s[5] = e5
       /\ s[6] = e6 /\ s[7] = e7 /\ s[8] = e8 /\ s[9] = e9 /\ s[10] = e10 /\ s[11] = e11
  <2>1. Joins(s, x, y)
    BY <1>4, <1>6, <1>12, Joined
  <2> QED
    BY <1>4, <1>12, <2>1 DEF Joins
<1> QED
  BY <1>1, <1>13 DEF IsInitARA

LEMMA InitIPIPIs ==
  ASSUME NEW o \in Options, Acceptable(o), NEW c, c = ConfigFor(o), c.mode = "ipip",
         NEW s, s = InitStepsFor(o)
  PROVE  /\ s \in Seq(Elements) /\ Len(s) = 6
         /\ s[1] = <<"check", o>> /\ s[2] = <<"capture", c>> /\ s[3] = <<"save", c>>
         /\ s[4] = <<"dropin", c>> /\ s[5] = <<"sysctl", c>> /\ s[6] = <<"offer", o>>
<1>1. PICK e1, e2, e3, e4, e5, e6 :
        /\ e1 = <<"check", o>> /\ e2 = <<"capture", c>> /\ e3 = <<"save", c>>
        /\ e4 = <<"dropin", c>> /\ e5 = <<"sysctl", c>> /\ e6 = <<"offer", o>>
  OBVIOUS
<1>2. /\ e1 \in Elements /\ e2 \in Elements /\ e3 \in Elements /\ e4 \in Elements /\ e5 \in Elements
      /\ e6 \in Elements
  <2>1. {"check", "capture", "save", "dropin", "sysctl", "offer"} \subseteq StepNames
    BY DEF StepNames
  <2> QED
    BY <1>1, <2>1, ConfiguredIs, StepsAre
<1>3. PICK x, a, d, t, z, n :
        x = <<e1>> /\ a = <<e2>> /\ d = <<e3>> /\ t = <<e4, e5>> /\ z = <<e6>> /\ n = << >>
  OBVIOUS
<1>4. /\ x \in Seq(Elements) /\ Len(x) = 1 /\ x[1] = e1
      /\ a \in Seq(Elements) /\ Len(a) = 1 /\ a[1] = e2
      /\ d \in Seq(Elements) /\ Len(d) = 1 /\ d[1] = e3
      /\ t \in Seq(Elements) /\ Len(t) = 2 /\ t[1] = e4 /\ t[2] = e5
      /\ z \in Seq(Elements) /\ Len(z) = 1 /\ z[1] = e6
  BY <1>2, <1>3
<1>5. PICK q, u, y : q = a \o d /\ u = q \o t /\ y = u \o z
  OBVIOUS
<1>6. q \in Seq(Elements) /\ Len(q) = 2 /\ q[1] = e2 /\ q[2] = e3
  <2>1. Joins(q, a, d)
    BY <1>4, <1>5, Joined
  <2> QED
    BY <1>4, <2>1 DEF Joins
<1>7. u \in Seq(Elements) /\ Len(u) = 4 /\ u[1] = e2 /\ u[2] = e3 /\ u[3] = e4 /\ u[4] = e5
  <2>1. Joins(u, q, t)
    BY <1>4, <1>5, <1>6, Joined
  <2> QED
    BY <1>4, <1>6, <2>1 DEF Joins
<1>8. s = x \o y
  <2>1. Screened(o) /\ Prepared(c)
    BY DEF Acceptable
  <2>2. a \o n = a /\ u \o n = u
    BY <1>3, <1>4, <1>7, ConcatEmptySeq
  <2>3. TakeOverSteps(c) = u
    BY <1>1, <1>3, <1>5, <2>2 DEF TakeOverSteps, Routed
  <2>4. ActivateSteps(c) = n
    BY <1>3 DEF ActivateSteps
  <2> QED
    BY <1>1, <1>3, <1>5, <2>1, <2>2, <2>3, <2>4 DEF InitStepsFor
<1>9. /\ y \in Seq(Elements) /\ Len(y) = 5
      /\ y[1] = e2 /\ y[2] = e3 /\ y[3] = e4 /\ y[4] = e5 /\ y[5] = e6
  <2>1. Joins(y, u, z)
    BY <1>4, <1>5, <1>7, Joined
  <2> QED
    BY <1>4, <1>7, <2>1 DEF Joins
<1>10. /\ s \in Seq(Elements) /\ Len(s) = 6
       /\ s[1] = e1 /\ s[2] = e2 /\ s[3] = e3 /\ s[4] = e4 /\ s[5] = e5 /\ s[6] = e6
  <2>1. Joins(s, x, y)
    BY <1>4, <1>8, <1>9, Joined
  <2> QED
    BY <1>4, <1>9, <2>1 DEF Joins
<1> QED
  BY <1>1, <1>10

LEMMA InitSSHIs ==
  ASSUME NEW o \in Options, Acceptable(o), NEW c, c = ConfigFor(o), c.mode = "ssh",
         NEW s, s = InitStepsFor(o)
  PROVE  /\ s \in Seq(Elements) /\ Len(s) = 4
         /\ s[1] = <<"check", o>> /\ s[2] = <<"capture", c>> /\ s[3] = <<"save", c>>
         /\ s[4] = <<"offer", o>>
<1>1. PICK e1, e2, e3, e4 :
        e1 = <<"check", o>> /\ e2 = <<"capture", c>> /\ e3 = <<"save", c>> /\ e4 = <<"offer", o>>
  OBVIOUS
<1>2. e1 \in Elements /\ e2 \in Elements /\ e3 \in Elements /\ e4 \in Elements
  <2>1. {"check", "capture", "save", "offer"} \subseteq StepNames
    BY DEF StepNames
  <2> QED
    BY <1>1, <2>1, ConfiguredIs, StepsAre
<1>3. PICK x, a, d, z, n : x = <<e1>> /\ a = <<e2>> /\ d = <<e3>> /\ z = <<e4>> /\ n = << >>
  OBVIOUS
<1>4. /\ x \in Seq(Elements) /\ Len(x) = 1 /\ x[1] = e1
      /\ a \in Seq(Elements) /\ Len(a) = 1 /\ a[1] = e2
      /\ d \in Seq(Elements) /\ Len(d) = 1 /\ d[1] = e3
      /\ z \in Seq(Elements) /\ Len(z) = 1 /\ z[1] = e4
  BY <1>2, <1>3
<1>5. PICK q, y : q = a \o d /\ y = q \o z
  OBVIOUS
<1>6. q \in Seq(Elements) /\ Len(q) = 2 /\ q[1] = e2 /\ q[2] = e3
  <2>1. Joins(q, a, d)
    BY <1>4, <1>5, Joined
  <2> QED
    BY <1>4, <2>1 DEF Joins
<1>7. s = x \o y
  <2>1. Screened(o) /\ Prepared(c)
    BY DEF Acceptable
  <2>2. a \o n = a /\ q \o n = q
    BY <1>3, <1>4, <1>6, ConcatEmptySeq
  <2>3. TakeOverSteps(c) = q
    BY <1>1, <1>3, <1>5, <2>2 DEF TakeOverSteps, Routed
  <2>4. ActivateSteps(c) = n
    BY <1>3 DEF ActivateSteps
  <2> QED
    BY <1>1, <1>3, <1>5, <2>1, <2>2, <2>3, <2>4 DEF InitStepsFor
<1>8. y \in Seq(Elements) /\ Len(y) = 3 /\ y[1] = e2 /\ y[2] = e3 /\ y[3] = e4
  <2>1. Joins(y, q, z)
    BY <1>4, <1>5, <1>6, Joined
  <2> QED
    BY <1>4, <1>6, <2>1 DEF Joins
<1>9. s \in Seq(Elements) /\ Len(s) = 4 /\ s[1] = e1 /\ s[2] = e2 /\ s[3] = e3 /\ s[4] = e4
  <2>1. Joins(s, x, y)
    BY <1>4, <1>7, <1>8, Joined
  <2> QED
    BY <1>4, <1>8, <2>1 DEF Joins
<1> QED
  BY <1>1, <1>9

\* What init does of the options, once there is no configuration any more.
LEMMA InitForPromises ==
  ASSUME config = NoConfig, NEW o \in Options, NEW s, s = InitStepsFor(o), s # << >>
  PROVE  Promises(s, NoConfig) /\ s \in Seq(Elements)
<1>1. Screened(o)
  BY DEF InitStepsFor
<1>2. PICK c : c = ConfigFor(o)
  OBVIOUS
<1>3. CASE ~Acceptable(o)
  <2>1. PICK e, n, x : e = <<"check", o>> /\ n = << >> /\ x = <<e>>
    OBVIOUS
  <2>2. e \in Elements
    BY <2>1, StepsAre DEF StepNames
  <2>3. x \in Seq(Elements) /\ Len(x) = 1 /\ x[1] = e
    BY <2>1, <2>2
  <2>4. x \o n = x
    BY <2>1, <2>3, ConcatEmptySeq
  <2>5. ~Prepared(ConfigFor(o))
    BY <1>1, <1>3 DEF Acceptable
  <2>6. s = x
    BY <1>1, <2>1, <2>4, <2>5 DEF InitStepsFor
  <2>7. s[1] = <<"check", o>> /\ Len(s) = 1
    BY <2>1, <2>3, <2>6
  <2>8. \A j \in 1 .. Len(s) : s[j][1] = "check"
    BY <2>7
  <2>9. \A j \in 1 .. Len(s) : Sound(s, j) /\ OwedToFiles(s, NoConfig, j)
    BY <2>8 DEF Sound, OwedToFiles
  <2>10. \A j \in 1 .. Len(s) : OwedToSysctls(s, NoConfig, j) /\ OwedToUnits(s, j)
    BY <2>8 DEF OwedToSysctls, OwedToUnits
  <2> QED
    BY <2>3, <2>6, <2>9, <2>10 DEF Promises, Promised
<1>4. CASE Acceptable(o)
  <2>1. /\ Configured(c) /\ c.mode = o.mode /\ o.mode \in ModeNames /\ UnitsOf(c) \subseteq Units
    BY <1>2, <1>4, ConfiguredIs
  <2>2. CASE c.mode \in {"ara", "wireguard"}
    <3>1. /\ s \in Seq(Elements) /\ Len(s) = 11
          /\ s[1] = <<"check", o>> /\ s[2] = <<"capture", c>> /\ s[3] = <<"install", {"wg"}>>
          /\ s[4] = <<"save", c>> /\ s[5] = <<"dropin", c>> /\ s[6] = <<"sysctl", c>>
          /\ s[7] = <<"script", c>> /\ s[8] = <<"install", UnitsOf(c) \ {"wg"}>>
          /\ s[9] = <<"enable", UnitsOf(c)>> /\ s[10] = <<"await", UnitsOf(c)>> /\ s[11] = <<"offer", o>>
      <4>1. IsInitARA(s, o, c)
        BY <1>2, <1>4, <2>2, InitARAIs
      <4> QED
        BY <4>1 DEF IsInitARA
    <3>2. Routed(c.mode) /\ {"wg"} \subseteq Units /\ "firewall" \notin {"wg"}
      BY <2>2 DEF Routed, Units
    <3>3. \A j \in 1 .. Len(s) : Sound(s, j)
      BY <2>1, <3>1, <3>2 DEF Sound, Preceding
    <3>4. /\ Before(s, 4, "capture", c) /\ Before(s, 5, "save", c) /\ Before(s, 6, "save", c)
          /\ Before(s, 7, "save", c) /\ "script" \in Preceding(s, 8)
          /\ "save" \in Preceding(s, 9) /\ "save" \in Preceding(s, 11)
      <4>1. /\ 2 \in 1 .. 4 - 1 /\ 4 \in 1 .. 5 - 1 /\ 4 \in 1 .. 6 - 1 /\ 4 \in 1 .. 7 - 1 /\ 7 \in 1 .. 8 - 1
            /\ 4 \in 1 .. 9 - 1 /\ 4 \in 1 .. 11 - 1
        OBVIOUS
      <4> QED
        BY <3>1, <4>1 DEF Before, Preceding
    <3>5. \A j \in 1 .. Len(s) : OwedToFiles(s, NoConfig, j)
      BY <3>1, <3>2, <3>4 DEF OwedToFiles
    <3>6. \A j \in 1 .. Len(s) : OwedToSysctls(s, NoConfig, j) /\ OwedToUnits(s, j)
      BY <3>1 DEF OwedToSysctls, OwedToUnits
    <3> QED
      BY <3>1, <3>3, <3>5, <3>6 DEF Promises, Promised
  <2>3. CASE c.mode = "ipip"
    <3>1. /\ s \in Seq(Elements) /\ Len(s) = 6
          /\ s[1] = <<"check", o>> /\ s[2] = <<"capture", c>> /\ s[3] = <<"save", c>>
          /\ s[4] = <<"dropin", c>> /\ s[5] = <<"sysctl", c>> /\ s[6] = <<"offer", o>>
      BY <1>2, <1>4, <2>3, InitIPIPIs
    <3>2. Routed(c.mode)
      BY <2>3 DEF Routed
    <3>3. \A j \in 1 .. Len(s) : Sound(s, j)
      BY <2>1, <3>1, <3>2 DEF Sound, Preceding
    <3>4. /\ Before(s, 3, "capture", c) /\ Before(s, 4, "save", c) /\ Before(s, 5, "save", c)
          /\ "save" \in Preceding(s, 6)
      <4>1. 2 \in 1 .. 3 - 1 /\ 3 \in 1 .. 4 - 1 /\ 3 \in 1 .. 5 - 1 /\ 3 \in 1 .. 6 - 1
        OBVIOUS
      <4> QED
        BY <3>1, <4>1 DEF Before, Preceding
    <3>5. \A j \in 1 .. Len(s) : OwedToFiles(s, NoConfig, j)
      BY <3>1, <3>4 DEF OwedToFiles
    <3>6. \A j \in 1 .. Len(s) : OwedToSysctls(s, NoConfig, j) /\ OwedToUnits(s, j)
      BY <3>1 DEF OwedToSysctls, OwedToUnits
    <3> QED
      BY <3>1, <3>3, <3>5, <3>6 DEF Promises, Promised
  <2>4. CASE c.mode = "ssh"
    <3>1. /\ s \in Seq(Elements) /\ Len(s) = 4
          /\ s[1] = <<"check", o>> /\ s[2] = <<"capture", c>> /\ s[3] = <<"save", c>>
          /\ s[4] = <<"offer", o>>
      BY <1>2, <1>4, <2>4, InitSSHIs
    <3>2. \A j \in 1 .. Len(s) : Sound(s, j)
      BY <2>1, <3>1 DEF Sound, Preceding
    <3>3. Before(s, 3, "capture", c) /\ "save" \in Preceding(s, 4)
      <4>1. 2 \in 1 .. 3 - 1 /\ 3 \in 1 .. 4 - 1
        OBVIOUS
      <4> QED
        BY <3>1, <4>1 DEF Before, Preceding
    <3>4. \A j \in 1 .. Len(s) : OwedToFiles(s, NoConfig, j)
      BY <3>1, <3>3 DEF OwedToFiles
    <3>5. \A j \in 1 .. Len(s) : OwedToSysctls(s, NoConfig, j) /\ OwedToUnits(s, j)
      BY <3>1 DEF OwedToSysctls, OwedToUnits
    <3> QED
      BY <3>1, <3>2, <3>4, <3>5 DEF Promises, Promised
  <2> QED
    BY <2>1, <2>2, <2>3, <2>4 DEF ModeNames
<1> QED
  BY <1>3, <1>4

\* Steps that need no more than a configuration.
Simple ==
  {<<w, us>> : w \in {"enable", "await"}, us \in SUBSET Units}
  \cup {<<"stop", u>> : u \in Units \ {"firewall"}}

LEMMA SimplePromises ==
  ASSUME config # NoConfig, NEW s \in Seq(Simple)
  PROVE  Promises(s, config) /\ s \in Seq(Elements)
<1>1. ASSUME NEW j \in 1 .. Len(s)
      PROVE  /\ s[j] \in Elements /\ s[j][1] \in {"enable", "await", "stop"}
             /\ s[j][1] = "stop" => s[j][2] \in Units \ {"firewall"}
             /\ s[j][1] = "enable" => s[j][2] \subseteq Units
  <2>1. s[j] \in Simple
    OBVIOUS
  <2>2. CASE \E w \in {"enable", "await"}, us \in SUBSET Units : s[j] = <<w, us>>
    <3>1. PICK w \in {"enable", "await"}, us \in SUBSET Units : s[j] = <<w, us>>
      BY <2>2
    <3>2. w \in StepNames /\ us \in Arguments
      BY StepsAre DEF StepNames
    <3> QED
      BY <3>1, <3>2, StepsAre
  <2>3. CASE \E u \in Units \ {"firewall"} : s[j] = <<"stop", u>>
    <3>1. PICK u \in Units \ {"firewall"} : s[j] = <<"stop", u>>
      BY <2>3
    <3>2. "stop" \in StepNames /\ u \in Arguments
      BY StepsAre DEF StepNames
    <3> QED
      BY <3>1, <3>2, StepsAre
  <2> QED
    BY <2>1, <2>2, <2>3 DEF Simple
<1>2. \A j \in 1 .. Len(s) : Preceding(s, j) \subseteq {"enable", "await", "stop"}
  <2> TAKE j \in 1 .. Len(s)
  <2>1. \A i \in 1 .. j - 1 : i \in 1 .. Len(s)
    OBVIOUS
  <2> QED
    BY <1>1, <2>1 DEF Preceding
<1>3. \A j \in 1 .. Len(s) : Sound(s, j)
  BY <1>1, <1>2 DEF Sound
<1>4. \A j \in 1 .. Len(s) :
        OwedToFiles(s, config, j) /\ OwedToSysctls(s, config, j) /\ OwedToUnits(s, j)
  BY <1>1 DEF OwedToFiles, OwedToSysctls, OwedToUnits
<1>5. s \in Seq(Elements)
  BY <1>1
<1> QED
  BY <1>3, <1>4, <1>5 DEF Promises, Promised

LEMMA EnableIsSimple ==
  ASSUME NEW us \in SUBSET Units
  PROVE  Enable(us) \in Seq(Simple)
<1>1. <<"enable", us>> \in Simple /\ <<"await", us>> \in Simple
  BY DEF Simple
<1> QED
  BY <1>1 DEF Enable

LEMMA StopIsSimple ==
  ASSUME NEW u \in Units \ {"firewall"}
  PROVE  StopLink(u) \in Seq(Simple)
<1>1. <<"stop", u>> \in Simple
  BY DEF Simple
<1> QED
  BY <1>1 DEF StopLink

LEMMA StartAndStop ==
  ASSUME NEW c
  PROVE  /\ StartSteps(c) \in Seq(Simple) /\ StopSteps(c) \in Seq(Simple)
         /\ StopSteps(c) \o StartSteps(c) \in Seq(Simple)
<1>1. LinkUnit(c) \in Units \ {"firewall"} /\ "server" \in Units \ {"firewall"} /\ "firewall" \in Units
  BY DEF LinkUnit, Units
<1>2. /\ Enable({LinkUnit(c)}) \in Seq(Simple) /\ Enable({"firewall"}) \in Seq(Simple)
      /\ Enable({"server"}) \in Seq(Simple) /\ StopLink("server") \in Seq(Simple)
      /\ StopLink(LinkUnit(c)) \in Seq(Simple) /\ << >> \in Seq(Simple)
  BY <1>1, EnableIsSimple, StopIsSimple
<1>3. PICK a, b, d, e, f :
        /\ a = Enable({LinkUnit(c)}) /\ b = Enable({"firewall"})
        /\ d = (IF c.mode = "ara" THEN Enable({"server"}) ELSE << >>)
        /\ e = (IF c.mode = "ara" THEN StopLink("server") ELSE << >>) /\ f = StopLink(LinkUnit(c))
  OBVIOUS
<1>4. /\ a \in Seq(Simple) /\ b \in Seq(Simple) /\ d \in Seq(Simple) /\ e \in Seq(Simple)
      /\ f \in Seq(Simple)
  BY <1>2, <1>3
<1>5. StartSteps(c) = a \o b \o d /\ StopSteps(c) = e \o f
  BY <1>3 DEF StartSteps, StopSteps
<1>6. a \o b \in Seq(Simple)
  BY <1>4, ConcatProperties
<1>7. StartSteps(c) \in Seq(Simple)
  BY <1>4, <1>5, <1>6, ConcatProperties
<1>8. StopSteps(c) \in Seq(Simple)
  BY <1>4, <1>5, ConcatProperties
<1> QED
  BY <1>7, <1>8, ConcatProperties

LEMMA RepairPromises ==
  ASSUME config # NoConfig, NEW s, s = RepairSteps
  PROVE  Promises(s, config) /\ s \in Seq(Elements)
<1>1. PICK e1, e2, e3, e4 :
        /\ e1 = <<"enable", {"firewall"}>> /\ e2 = <<"await", {"firewall"}>>
        /\ e3 = <<"run", "repair">> /\ e4 = <<"ran", "repair">>
  OBVIOUS
<1>2. e1 \in Elements /\ e2 \in Elements /\ e3 \in Elements /\ e4 \in Elements
  <2>1. {"firewall"} \in SUBSET Units /\ {"enable", "await", "run", "ran"} \subseteq StepNames
    BY DEF Units, StepNames
  <2>2. {"firewall"} \in Arguments /\ "repair" \in Arguments
    BY <2>1, StepsAre
  <2> QED
    BY <1>1, <2>1, <2>2, StepsAre
<1>3. PICK p, r : p = <<e1, e2>> /\ r = <<e3, e4>>
  OBVIOUS
<1>4. /\ p \in Seq(Elements) /\ Len(p) = 2 /\ p[1] = e1 /\ p[2] = e2
      /\ r \in Seq(Elements) /\ Len(r) = 2 /\ r[1] = e3 /\ r[2] = e4
  BY <1>2, <1>3
<1>5. s = p \o r
  BY <1>1, <1>3 DEF RepairSteps, Enable
<1>6. Joins(s, p, r)
  BY <1>4, <1>5, Joined
<1>7. s \in Seq(Elements) /\ Len(s) = 4 /\ s[1] = e1 /\ s[2] = e2 /\ s[3] = e3 /\ s[4] = e4
  BY <1>4, <1>6 DEF Joins
<1>8. /\ s[1] = <<"enable", {"firewall"}>> /\ s[2] = <<"await", {"firewall"}>>
      /\ s[3] = <<"run", "repair">> /\ s[4] = <<"ran", "repair">> /\ Len(s) = 4
  BY <1>1, <1>7
<1>9. \A j \in 1 .. Len(s) : Sound(s, j)
  BY <1>8 DEF Sound, Preceding, Units
<1>10. Before(s, 3, "await", {"firewall"})
  <2>1. 2 \in 1 .. 3 - 1
    OBVIOUS
  <2> QED
    BY <1>8, <2>1 DEF Before
<1>11. \A j \in 1 .. Len(s) :
         OwedToFiles(s, config, j) /\ OwedToSysctls(s, config, j) /\ OwedToUnits(s, j)
  BY <1>8, <1>10 DEF OwedToFiles, OwedToSysctls, OwedToUnits
<1> QED
  BY <1>7, <1>9, <1>11 DEF Promises, Promised

\* What accept does to a link that is in place: it keeps the configuration.
LEMMA AcceptPromises ==
  ASSUME Core, Exists, NEW s, s = AcceptSteps(config.c)
  PROVE  Promises(s, config) /\ s \in Seq(Elements)
<1>1. PICK c : c = config.c
  OBVIOUS
<1>2. Configured(c) /\ c.mode \in ModeNames /\ config # NoConfig
  BY <1>1, ExistsIs, ModeOf DEF Core
<1>3. UnitsOf(c) \in SUBSET Units /\ {"wg"} \in SUBSET Units
  BY DEF UnitsOf, LinkUnit, Units
<1>4. PICK e, z : e = <<"save", c>> /\ z = <<e>>
  OBVIOUS
<1>5. {"save", "install", "restart", "await", "script", "enable"} \subseteq StepNames
  BY DEF StepNames
<1>6. {"wg"} \in Arguments /\ UnitsOf(c) \in Arguments /\ c \in Arguments /\ "wg" \in Arguments
  BY <1>2, <1>3, StepsAre DEF Units
<1>7. z \in Seq(Elements) /\ Len(z) = 1 /\ z[1] = e
  <2>1. e \in Elements
    BY <1>4, <1>5, <1>6, StepsAre
  <2> QED
    BY <1>4, <2>1
<1>8. CASE c.mode \in {"ara", "wireguard"}
  <2>1. PICK e1, e2, e3, p :
          /\ e1 = <<"install", {"wg"}>> /\ e2 = <<"restart", "wg">> /\ e3 = <<"await", {"wg"}>>
          /\ p = <<e1, e2, e3>>
    OBVIOUS
  <2>2. e1 \in Elements /\ e2 \in Elements /\ e3 \in Elements
    BY <1>5, <1>6, <2>1, StepsAre
  <2>3. p \in Seq(Elements) /\ Len(p) = 3 /\ p[1] = e1 /\ p[2] = e2 /\ p[3] = e3
    BY <2>1, <2>2
  <2>4. s = p \o z
    BY <1>1, <1>4, <1>8, <2>1 DEF AcceptSteps
  <2>5. Joins(s, p, z)
    BY <1>7, <2>3, <2>4, Joined
  <2>6. s \in Seq(Elements) /\ Len(s) = 4 /\ s[1] = e1 /\ s[2] = e2 /\ s[3] = e3 /\ s[4] = e
    BY <1>7, <2>3, <2>5 DEF Joins
  <2>7. /\ s[1] = <<"install", {"wg"}>> /\ s[2] = <<"restart", "wg">> /\ s[3] = <<"await", {"wg"}>>
        /\ s[4] = <<"save", c>> /\ Len(s) = 4
    BY <1>4, <2>1, <2>6
  <2>8. \A j \in 1 .. Len(s) : Sound(s, j)
    BY <1>2, <1>3, <2>7 DEF Sound, Preceding
  <2>9. Before(s, 2, "install", {"wg"}) /\ "firewall" \notin {"wg"}
    <3>1. 1 \in 1 .. 2 - 1
      OBVIOUS
    <3> QED
      BY <2>7, <3>1 DEF Before
  <2>10. \A j \in 1 .. Len(s) : OwedToFiles(s, config, j)
    BY <1>1, <1>2, <2>7, <2>9 DEF OwedToFiles
  <2>11. \A j \in 1 .. Len(s) : OwedToSysctls(s, config, j) /\ OwedToUnits(s, j)
    BY <2>7 DEF OwedToSysctls, OwedToUnits
  <2> QED
    BY <2>6, <2>8, <2>10, <2>11 DEF Promises, Promised
<1>9. CASE c.mode = "ipip"
  <2>1. PICK e1, e2, e3, e4, g, h :
          /\ e1 = <<"script", c>> /\ e2 = <<"install", UnitsOf(c)>>
          /\ e3 = <<"enable", UnitsOf(c)>> /\ e4 = <<"await", UnitsOf(c)>>
          /\ g = <<e1, e2>> /\ h = <<e3, e4>>
    OBVIOUS
  <2>2. e1 \in Elements /\ e2 \in Elements /\ e3 \in Elements /\ e4 \in Elements
    BY <1>5, <1>6, <2>1, StepsAre
  <2>3. /\ g \in Seq(Elements) /\ Len(g) = 2 /\ g[1] = e1 /\ g[2] = e2
        /\ h \in Seq(Elements) /\ Len(h) = 2 /\ h[1] = e3 /\ h[2] = e4
    BY <2>1, <2>2
  <2>4. PICK p : p = g \o h
    OBVIOUS
  <2>5. s = p \o z
    BY <1>1, <1>4, <1>9, <2>1, <2>4 DEF AcceptSteps, Enable
  <2>6. p \in Seq(Elements) /\ Len(p) = 4 /\ p[1] = e1 /\ p[2] = e2 /\ p[3] = e3 /\ p[4] = e4
    <3>1. Joins(p, g, h)
      BY <2>3, <2>4, Joined
    <3> QED
      BY <2>3, <3>1 DEF Joins
  <2>7. /\ s \in Seq(Elements) /\ Len(s) = 5
        /\ s[1] = e1 /\ s[2] = e2 /\ s[3] = e3 /\ s[4] = e4 /\ s[5] = e
    <3>1. Joins(s, p, z)
      BY <1>7, <2>5, <2>6, Joined
    <3> QED
      BY <1>7, <2>6, <3>1 DEF Joins
  <2>8. /\ s[1] = <<"script", c>> /\ s[2] = <<"install", UnitsOf(c)>>
        /\ s[3] = <<"enable", UnitsOf(c)>> /\ s[4] = <<"await", UnitsOf(c)>>
        /\ s[5] = <<"save", c>> /\ Len(s) = 5
    BY <1>4, <2>1, <2>7
  <2>9. Routed(c.mode)
    BY <1>9 DEF Routed
  <2>10. \A j \in 1 .. Len(s) : Sound(s, j)
    BY <1>2, <1>3, <2>8, <2>9 DEF Sound, Preceding
  <2>11. "script" \in Preceding(s, 2)
    <3>1. 1 \in 1 .. 2 - 1
      OBVIOUS
    <3> QED
      BY <2>8, <3>1 DEF Preceding
  <2>12. \A j \in 1 .. Len(s) : OwedToFiles(s, config, j)
    BY <1>1, <1>2, <2>8, <2>11 DEF OwedToFiles
  <2>13. \A j \in 1 .. Len(s) : OwedToSysctls(s, config, j) /\ OwedToUnits(s, j)
    BY <2>8 DEF OwedToSysctls, OwedToUnits
  <2> QED
    BY <2>7, <2>10, <2>12, <2>13 DEF Promises, Promised
<1>10. CASE c.mode = "ssh"
  <2>1. PICK n : n = << >>
    OBVIOUS
  <2>2. n \o z = z
    BY <1>7, <2>1, ConcatEmptySeq
  <2>3. s = z
    BY <1>1, <1>4, <1>10, <2>1, <2>2 DEF AcceptSteps
  <2>4. s[1] = <<"save", c>> /\ Len(s) = 1
    BY <1>4, <1>7, <2>3
  <2>5. \A j \in 1 .. Len(s) : Sound(s, j)
    BY <1>2, <2>4 DEF Sound, Preceding
  <2>6. \A j \in 1 .. Len(s) : OwedToFiles(s, config, j)
    BY <1>1, <2>4 DEF OwedToFiles
  <2>7. \A j \in 1 .. Len(s) : OwedToSysctls(s, config, j) /\ OwedToUnits(s, j)
    BY <2>4 DEF OwedToSysctls, OwedToUnits
  <2> QED
    BY <1>7, <2>3, <2>5, <2>6, <2>7 DEF Promises, Promised
<1> QED
  BY <1>2, <1>8, <1>9, <1>10 DEF ModeNames

----------------------------------------------------------------------------
(***************************************************************************)
(* The steps of the specification.                                         *)
(***************************************************************************)

\* A command, or a part of one, begins with its promises.
LEMMA Begins ==
  ASSUME Core, NEW steps, NEW cfg, steps \in Seq(Elements), Promises(steps, cfg), Saved(cfg),
         proc' = [left |-> steps, cfg |-> cfg], UNCHANGED <<hostVars, original, state>>
  PROVE  Core'
<1>1. PICK p : p = [left |-> steps, cfg |-> cfg]
  OBVIOUS
<1>2. DOMAIN p = {"left", "cfg"} /\ p.left = steps /\ p.cfg = cfg /\ proc' = p
  BY <1>1
<1>3. Typed'
  BY <1>2 DEF Typed
<1>4. /\ \A j : Preceding(proc.left, j)' = Preceding(steps, j)
      /\ \A j, a, b : Before(proc.left, j, a, b)' <=> Before(steps, j, a, b)
  BY <1>2 DEF Preceding, Before
<1>5. ASSUME NEW j \in 1 .. Len(steps) PROVE Promised(proc.left, proc.cfg, j)'
  <2>1. Promised(steps, cfg, j)
    BY DEF Promises
  <2>2. Sound(proc.left, j)'
    <3>1. Sound(proc'.left, j)
      BY <1>2, <2>1 DEF Promised
    <3> QED
      BY <3>1 DEF Sound, Preceding
  <2>3. OwedToFiles(proc.left, proc.cfg, j)'
    BY <1>2, <1>4, <2>1 DEF Promised, OwedToFiles, hostVars
  <2>4. OwedToSysctls(proc.left, proc.cfg, j)'
    BY <1>2, <1>4, <2>1 DEF Promised, OwedToSysctls, hostVars
  <2>5. OwedToUnits(proc.left, j)'
    BY <1>2, <1>4, <2>1 DEF Promised, OwedToUnits, hostVars
  <2> QED
    BY <2>2, <2>3, <2>4, <2>5 DEF Promised
<1>6. Owed'
  BY <1>2, <1>5 DEF Owed, Promises
<1>7. Files'
  BY <1>2 DEF Core, Files, Saved, hostVars
<1>8. Sysctls' /\ UnitsUp'
  BY DEF Core, Sysctls, UnitsUp, Exists, hostVars
<1> QED
  BY <1>3, <1>6, <1>7, <1>8 DEF Core

LEMMA CommandBegins ==
  ASSUME Core, Commands
  PROVE  Core'
<1>1. PICK steps : /\ Command(steps) /\ steps \in Seq(Elements) /\ Promises(steps, config)
  <2>1. CASE InitOutside
    BY <2>1, InitPromises DEF InitOutside
  <2>2. CASE Uninstall
    BY <2>2, UninstallPromises DEF Uninstall
  <2>3. CASE Accept
    BY <2>3, AcceptPromises DEF Accept
  <2>4. CASE Manage
    <3>1. config # NoConfig
      BY <2>4, ExistsIs DEF Manage, Core
    <3>2. PICK steps : Command(steps) /\ steps \in Seq(Simple)
      BY <2>4, StartAndStop DEF Manage
    <3> QED
      BY <3>1, <3>2, SimplePromises
  <2>5. CASE Repair
    <3>1. config # NoConfig
      BY <2>5, ExistsIs DEF Repair, Core
    <3> QED
      BY <2>5, <3>1, RepairPromises DEF Repair
  <2> QED
    BY <2>1, <2>2, <2>3, <2>4, <2>5 DEF Commands
<1>2. proc' = [left |-> steps, cfg |-> config] /\ UNCHANGED <<hostVars, original, state>>
  BY <1>1 DEF Command, unitVars
<1>3. Saved(config)
  BY DEF Core, Files
<1> QED
  BY <1>1, <1>2, <1>3, Begins

LEMMA OptionsBegin ==
  ASSUME Core, ReadOptions
  PROVE  Core'
<1>1. Step("options") /\ UNCHANGED <<hostVars, original, state>>
  BY DEF ReadOptions, unitVars
<1>2. config = NoConfig
  BY <1>1, AtHead DEF Core, Promised, OwedToFiles
<1>3. PICK o \in Options :
        proc' = IF InitStepsFor(o) = << >> THEN Free ELSE [left |-> InitStepsFor(o), cfg |-> NoConfig]
  BY DEF ReadOptions
<1>4. CASE InitStepsFor(o) = << >>
  <2>1. proc' = Free
    BY <1>3, <1>4
  <2>2. Files' /\ Sysctls' /\ UnitsUp'
    <3>1. Saved(NoConfig) /\ proc'.cfg = NoConfig
      BY <2>1, FreeFields DEF Saved
    <3> QED
      BY <1>1, <3>1, SavedStays DEF Core, Files, Sysctls, UnitsUp, Exists, hostVars
  <2> QED
    BY <2>1, <2>2, EndedOwesNothing DEF Core
<1>5. CASE InitStepsFor(o) # << >>
  <2>1. Promises(InitStepsFor(o), NoConfig) /\ InitStepsFor(o) \in Seq(Elements)
    BY <1>2, <1>5, InitForPromises
  <2>2. Saved(NoConfig)
    BY DEF Saved
  <2>3. proc' = [left |-> InitStepsFor(o), cfg |-> NoConfig]
    BY <1>3, <1>5
  <2> QED
    BY <1>1, <2>1, <2>2, <2>3, Begins
<1> QED
  BY <1>4, <1>5

\* A command that fails, is killed, or does not outlive the host.
LEMMA CommandEnds ==
  ASSUME Core, StepFails \/ Kill \/ Reboot
  PROVE  Core'
<1>1. proc' = Free /\ UNCHANGED <<config, dropin, script, installed, enabled, original>>
  BY DEF StepFails, Kill, Reboot, hostVars
<1>2. Saved(NoConfig) /\ proc'.cfg = NoConfig
  BY <1>1, FreeFields DEF Saved
<1>3. CASE StepFails \/ Kill
  <2>1. sysctl' = sysctl /\ state' = state
    BY <1>3 DEF StepFails, Kill, hostVars, unitVars
  <2>2. Files' /\ Sysctls' /\ UnitsUp'
    BY <1>1, <1>2, <2>1, SavedStays DEF Core, Files, Sysctls, UnitsUp, Exists
  <2> QED
    BY <1>1, <2>2, EndedOwesNothing DEF Core
<1>4. CASE Reboot
  <2>1. /\ sysctl' = IF dropin THEN Managed ELSE original
        /\ state' = [u \in Units |-> IF u \in enabled THEN "queued" ELSE "off"]
    BY <1>4 DEF Reboot
  <2>2. Managed \in [Keys -> 0 .. 2]
    BY DEF Managed
  <2>3. Files'
    BY <1>1, <1>2, <2>1, <2>2, SavedStays DEF Core, Files
  <2>4. Sysctls'
    BY <1>1, <2>1 DEF Core, Sysctls, Exists
  <2>5. "firewall" \in enabled => "firewall" \in installed
    BY DEF Core, UnitsUp
  <2>6. UnitsUp'
    BY <1>1, <2>1 DEF Core, UnitsUp, Exists
  <2> QED
    BY <1>1, <2>3, <2>4, <2>6, EndedOwesNothing DEF Core
<1> QED
  BY <1>3, <1>4

\* What systemd's own work does to the units.
UnitsMove ==
  /\ state' \in [Units -> {"off", "queued", "starting", "active", "stopping"}]
  /\ \A u \in Units : state[u] = "off" => state'[u] = "off"
  /\ state["firewall"] = "active" => state'["firewall"] = "active"
  /\ \A u \in Units \ {"firewall"} : state'[u] \in {"off", "queued", "active"}

\* systemd, the runs of the script, and other programs.
LEMMA Meanwhile ==
  ASSUME Core, Runs, Systemd \/ Reload
  PROVE  Core'
<1>1. UNCHANGED <<hostVars, original>>
  BY DEF Systemd, Reload, LinkOrServerStarts, LinkOrServerFails, FirewallStarts, ScriptLine, LockEndsLoop, ScriptFails
<1>2. UnitsMove /\ (proc' = proc \/ proc' = Free)
  <2>1. /\ state \in [Units -> {"off", "queued", "starting", "active", "stopping"}]
        /\ \A u \in Units \ {"firewall"} : state[u] \in {"off", "queued", "active"}
    BY DEF Core, UnitsUp
  <2>2. CASE \E u \in Units : LinkOrServerStarts(u) \/ LinkOrServerFails(u)
    BY <2>1, <2>2 DEF LinkOrServerStarts, LinkOrServerFails, Units, UnitsMove
  <2>3. CASE FirewallStarts
    BY <2>1, <2>3 DEF FirewallStarts, Units, UnitsMove
  <2>4. ASSUME NEW r \in {"unit", "repair"}, at[r] # << >>, After(r) PROVE UnitsMove
    <3>1. CASE state' = state
      BY <2>1, <2>4, <3>1 DEF UnitsMove
    <3>2. CASE r = "unit" /\ Ended(r)
      <4>1. state["firewall"] \in {"starting", "stopping"}
        BY <2>4, <3>2 DEF Runs
      <4> QED
        BY <2>1, <2>4, <3>2, <4>1 DEF Ended, Units, UnitsMove
    <3> QED
      BY <2>4, <3>1, <3>2 DEF After, Ended
  <2>5. CASE \E r \in {"unit", "repair"} : ScriptLine(r) \/ LockEndsLoop(r)
    BY <2>4, <2>5 DEF ScriptLine, LockEndsLoop
  <2>6. CASE \E r \in {"unit", "repair"} : ScriptFails(r)
    <3>1. PICK r \in {"unit", "repair"} : ScriptFails(r)
      BY <2>6
    <3>2. r = "unit" => state["firewall"] \in {"starting", "stopping"}
      BY <3>1 DEF ScriptFails, Runs
    <3> QED
      BY <2>1, <3>1, <3>2 DEF ScriptFails, Units, UnitsMove
  <2>7. CASE Reload
    BY <2>1, <2>7 DEF Reload, UnitsMove
  <2> QED
    BY <2>2, <2>3, <2>5, <2>6, <2>7 DEF Systemd
<1>3. Files' /\ Sysctls' /\ UnitsUp'
  <2>1. proc'.cfg \in {proc.cfg, NoConfig} /\ Saved(NoConfig)
    BY <1>2, FreeFields DEF Saved
  <2>2. Files'
    BY <1>1, <2>1, SavedStays DEF Core, Files, hostVars
  <2>3. Sysctls' /\ UnitsUp'
    BY <1>1, <1>2 DEF Core, Sysctls, UnitsUp, Exists, hostVars, UnitsMove
  <2> QED
    BY <2>2, <2>3
<1>4. Typed' /\ Owed'
  <2>1. CASE proc' = proc
    BY <1>1, <1>2, <2>1, OwedMeanwhile DEF Core, Typed, UnitsMove
  <2>2. CASE proc' = Free
    BY <2>2, EndedOwesNothing
  <2> QED
    BY <1>2, <2>1, <2>2
<1> QED
  BY <1>3, <1>4 DEF Core

----------------------------------------------------------------------------
(***************************************************************************)
(* The runs of the script.                                                 *)
(***************************************************************************)

\* A list is a run of the script that does w with each rule of S.
IsRun(u, w, S) ==
  /\ u \in Seq({"add", "remove"} \X S) /\ u # << >>
  /\ \A i \in 1 .. Len(u) : u[i][1] = w
  /\ {u[i][2] : i \in 1 .. Len(u)} = S

LEMMA RunOf ==
  ASSUME NEW S, NEW q \in Seq(S), q # << >>, S \subseteq {q[i] : i \in 1 .. Len(q)},
         NEW w \in {"add", "remove"}, NEW u, u = [i \in 1 .. Len(q) |-> <<w, q[i]>>]
  PROVE  IsRun(u, w, S)
<1>1. \A i \in 1 .. Len(q) : q[i] \in S /\ u[i] = <<w, q[i]>>
  OBVIOUS
<1>2. u \in Seq({"add", "remove"} \X S) /\ Len(u) = Len(q) /\ u # << >>
  <2>1. Len(q) \in Nat /\ Len(q) # 0
    OBVIOUS
  <2>2. \A i \in 1 .. Len(q) : <<w, q[i]>> \in {"add", "remove"} \X S
    BY <1>1
  <2>3. u \in [1 .. Len(q) -> {"add", "remove"} \X S]
    BY <2>2
  <2>4. u \in Seq({"add", "remove"} \X S)
    BY <2>1, <2>3
  <2>5. Len(u) = Len(q)
    BY <2>1, <2>3, <2>4
  <2>. QED BY <2>1, <2>4, <2>5
<1>3. \A i \in 1 .. Len(q) : u[i][1] = w /\ u[i][2] = q[i]
  BY <1>1
<1>4. {u[i][2] : i \in 1 .. Len(q)} = {q[i] : i \in 1 .. Len(q)}
  BY <1>3
<1>5. {q[i] : i \in 1 .. Len(q)} \subseteq S
  BY <1>1
<1>6. {u[i][2] : i \in 1 .. Len(u)} = S
  BY <1>2, <1>4, <1>5
<1> QED
  BY <1>2, <1>3, <1>6 DEF IsRun

\* S has nothing but what the lists s and t have; q is s followed by t.
Covers(s, t, S) == S \subseteq {s[i] : i \in 1 .. Len(s)} \cup {t[i] : i \in 1 .. Len(t)}
Follows(q, s, t) ==
  /\ Len(q) = Len(s) + Len(t)
  /\ \A i \in 1 .. Len(s) + Len(t) : q[i] = IF i <= Len(s) THEN s[i] ELSE t[i - Len(s)]

LEMMA AllJoined ==
  ASSUME NEW S, NEW s \in Seq(S), NEW t \in Seq(S), NEW q \in Seq(S), Follows(q, s, t), Covers(s, t, S)
  PROVE  S \subseteq {q[i] : i \in 1 .. Len(q)}
<1> SUFFICES ASSUME NEW x \in S PROVE \E i \in 1 .. Len(q) : x = q[i]
  OBVIOUS
<1>0. /\ (\E i \in 1 .. Len(s) : x = s[i]) \/ (\E i \in 1 .. Len(t) : x = t[i])
      /\ Len(q) = Len(s) + Len(t)
      /\ \A i \in 1 .. Len(s) + Len(t) : q[i] = IF i <= Len(s) THEN s[i] ELSE t[i - Len(s)]
  BY DEF Covers, Follows
<1>1. CASE \E i \in 1 .. Len(s) : x = s[i]
  <2>1. PICK i \in 1 .. Len(s) : x = s[i]
    BY <1>1
  <2>2. i \in 1 .. Len(s) + Len(t) /\ i <= Len(s)
    OBVIOUS
  <2> QED
    BY <1>0, <2>1, <2>2
<1>2. CASE \E i \in 1 .. Len(t) : x = t[i]
  <2>1. PICK i \in 1 .. Len(t) : x = t[i]
    BY <1>2
  <2>2. PICK k : k = i + Len(s)
    OBVIOUS
  <2>3. k \in 1 .. Len(s) + Len(t) /\ ~(k <= Len(s)) /\ k - Len(s) = i
    BY <2>2
  <2> QED
    BY <1>0, <2>1, <2>3
<1> QED
  BY <1>0, <1>1, <1>2

\* A run over two lists, one after the other.
LEMMA RunOfBoth ==
  ASSUME NEW S, NEW s \in Seq(S), NEW t \in Seq(S), Len(t) = 3,
         Covers(s, t, S), NEW w \in {"add", "remove"}
  PROVE  IsRun([i \in 1 .. Len(s) + 3 |-> <<w, (s \o t)[i]>>], w, S)
<1>1. PICK q : q = s \o t
  OBVIOUS
<1>2. q \in Seq(S) /\ Follows(q, s, t)
  BY <1>1, ConcatProperties DEF Follows
<1>3. S \subseteq {q[i] : i \in 1 .. Len(q)}
  BY <1>2, AllJoined
<1>4. Len(q) = Len(s) + 3 /\ q # << >>
  BY <1>2 DEF Follows
<1>5. IsRun([i \in 1 .. Len(q) |-> <<w, q[i]>>], w, S)
  BY <1>2, <1>3, <1>4, RunOf
<1> QED
  BY <1>1, <1>4, <1>5

LEMMA LinesAre ==
  ASSUME NEW c, Routed(c.mode)
  PROVE  LET s == InputLines(c)  t == ForwardLines(c) IN
         /\ s \in Seq(RulesOf(c)) /\ Len(s) \in 1 .. 2 /\ t \in Seq(RulesOf(c)) /\ Len(t) = 3
         /\ RulesOf(c) = {s[i] : i \in 1 .. Len(s)} \cup {t[i] : i \in 1 .. Len(t)}
<1>1. PICK a, b, d, e, f :
        /\ a = <<"accept tcp", c.port>> /\ b = <<"drop udp from wan", c.wgPort>>
        /\ d = <<"accept udp", c.port>> /\ e = <<"accept proto", 4>> /\ f = ForwardLines(c)
  OBVIOUS
<1>2. PICK s : s = InputLines(c)
  OBVIOUS
<1>3. \/ c.mode = "ara" /\ s = <<a, b>>
      \/ c.mode = "wireguard" /\ s = <<d>>
      \/ c.mode = "ipip" /\ s = <<e>>
  BY <1>1, <1>2 DEF InputLines, Routed
<1>4. Len(s) \in 1 .. 2 /\ DOMAIN s = 1 .. Len(s) /\ s \in Seq({s[i] : i \in 1 .. Len(s)})
  BY <1>3
<1>5. PICK g, h, k : /\ g = <<"forward from link", 0>> /\ h = <<"forward related to link", 0>>
                     /\ k = <<"masquerade", c.net>>
  OBVIOUS
<1>6. f = <<g, h, k>>
  BY <1>1, <1>5 DEF ForwardLines
<1>7. Len(f) = 3 /\ DOMAIN f = 1 .. Len(f) /\ f \in Seq({f[i] : i \in 1 .. Len(f)})
  BY <1>6
<1>8. RulesOf(c) = {s[i] : i \in 1 .. Len(s)} \cup {f[i] : i \in 1 .. Len(f)}
  BY <1>1, <1>2, <1>4, <1>7 DEF RulesOf, ToSet
<1>9. s \in Seq(RulesOf(c)) /\ f \in Seq(RulesOf(c))
  BY <1>4, <1>7, <1>8
<1> QED
  BY <1>1, <1>2, <1>4, <1>7, <1>8, <1>9

LEMMA UpIsRun ==
  ASSUME NEW c, Routed(c.mode)
  PROVE  IsRun(UpRun(c), "add", RulesOf(c))
<1>1. PICK s, t : s = InputLines(c) /\ t = ForwardLines(c)
  OBVIOUS
<1>2. /\ s \in Seq(RulesOf(c)) /\ Len(s) \in 1 .. 2 /\ t \in Seq(RulesOf(c)) /\ Len(t) = 3
      /\ RulesOf(c) \subseteq {s[i] : i \in 1 .. Len(s)} \cup {t[i] : i \in 1 .. Len(t)}
  BY <1>1, LinesAre
<1>3. IsRun([i \in 1 .. Len(s) + 3 |-> <<"add", (s \o t)[i]>>], "add", RulesOf(c))
  BY <1>2, RunOfBoth DEF Covers
<1> QED
  BY <1>1, <1>3 DEF UpRun

LEMMA DownIsRun ==
  ASSUME NEW c, Routed(c.mode)
  PROVE  IsRun(DownRun(c), "remove", RulesOf(c))
<1>1. PICK s, t, r : s = InputLines(c) /\ t = ForwardLines(c) /\ r = Reverse(s)
  OBVIOUS
<1>2. /\ s \in Seq(RulesOf(c)) /\ Len(s) \in 1 .. 2 /\ t \in Seq(RulesOf(c)) /\ Len(t) = 3
      /\ RulesOf(c) \subseteq {s[i] : i \in 1 .. Len(s)} \cup {t[i] : i \in 1 .. Len(t)}
  BY <1>1, LinesAre
<1>3. /\ r \in Seq(RulesOf(c)) /\ Len(r) = Len(s)
      /\ \A i \in 1 .. Len(s) : r[i] = s[(Len(s) - i) + 1]
  <2>1. r = [i \in 1 .. Len(s) |-> s[(Len(s) - i) + 1]]
    BY <1>1 DEF Reverse
  <2>2. \A i \in 1 .. Len(s) : (Len(s) - i) + 1 \in 1 .. Len(s) /\ s[(Len(s) - i) + 1] \in RulesOf(c)
    BY <1>2
  <2> QED
    BY <1>2, <2>1, <2>2
<1>4. \A x \in {s[i] : i \in 1 .. Len(s)} : x \in {r[i] : i \in 1 .. Len(r)}
  <2>1. ASSUME NEW i \in 1 .. Len(s) PROVE \E k \in 1 .. Len(r) : r[k] = s[i]
    <3>1. PICK k : k = (Len(s) - i) + 1
      OBVIOUS
    <3>2. k \in 1 .. Len(s) /\ (Len(s) - k) + 1 = i
      BY <1>2, <3>1
    <3> QED
      BY <1>3, <3>2
  <2> QED
    BY <2>1
<1>5. RulesOf(c) \subseteq {r[i] : i \in 1 .. Len(r)} \cup {t[i] : i \in 1 .. Len(t)}
  BY <1>2, <1>4
<1>6. IsRun([i \in 1 .. Len(s) + 3 |-> <<"remove", (r \o t)[i]>>], "remove", RulesOf(c))
  BY <1>2, <1>3, <1>5, RunOfBoth DEF Covers
<1> QED
  BY <1>1, <1>6 DEF DownRun

\* Only while it waits for it does a command have a run of the script.
LEMMA NoRunOfRepair ==
  ASSUME Runs, ~Step("ran")
  PROVE  at["repair"] = << >>
  BY DEF Runs

\* Steps that leave the runs and the rules alone, and the script too, or change
\* it while the firewall is down.
LEMMA RunsStay ==
  ASSUME Core, Runs, Rules, UNCHANGED <<at, rules, stale, missed>>,
         \/ state'["firewall"] = state["firewall"]
         \/ state["firewall"] = "off" /\ state'["firewall"] = "queued",
         at["repair"] = << >> \/ (proc' = proc /\ state'["firewall"] = state["firewall"]),
         script' = script \/ (state["firewall"] = "off" /\ at["repair"] = << >>)
  PROVE  Runs' /\ Rules'
<1>1. \A r \in {"unit", "repair"} : Pending(r)' = Pending(r)
  BY DEF Pending
<1>2. (Step("ran") /\ state["firewall"] = "active") => at["repair"] = << >> \/ (Step("ran")' /\ state'["firewall"] = "active")
  BY DEF Step
<1>3. CASE script' = script
  BY <1>1, <1>2, <1>3 DEF Runs, Rules
<1>4. CASE script' # script
  <2>1. state["firewall"] = "off" /\ at["repair"] = << >> /\ at["unit"] = << >>
    BY <1>4 DEF Runs
  <2>2. \A r \in {"unit", "repair"} : at[r] = << >>
    BY <2>1
  <2>3. at' \in [{"unit", "repair"} -> Seq({"add", "remove"} \X RulesOf(script'))]
    BY <2>2 DEF Runs
  <2>4. Runs'
    BY <1>4, <2>1, <2>3 DEF Runs
  <2>5. missed \/ rules = {}
    BY <2>1 DEF Rules
  <2> QED
    BY <1>1, <1>4, <2>1, <2>4, <2>5 DEF Rules
<1> QED
  BY <1>3, <1>4

\* The firewall is there only with the script of the configuration.
LEMMA ScriptOfUnit ==
  ASSUME Core, state["firewall"] # "off"
  PROVE  /\ Exists /\ script = config.c /\ Configured(script) /\ Routed(script.mode)
         /\ script # Unset /\ "firewall" \in installed
<1>1. "firewall" \in installed /\ Exists /\ script = config.c
  BY DEF Core, UnitsUp, Units
<1>2. Configured(script)
  BY <1>1, ExistsIs DEF Core
<1> QED
  BY <1>1, <1>2, ModeOf DEF Core, Files

\* A unit that is stopped.
LEMMA RunsStop ==
  ASSUME Core, Runs, Rules, NEW u \in Units, Stop(u), at["repair"] = << >>,
         UNCHANGED <<rules, script>>
  PROVE  Runs' /\ Rules'
<1>1. CASE u # "firewall"
  <2>1. state'["firewall"] = state["firewall"] /\ at' = at /\ stale' = stale /\ missed' = missed
    <3>1. state[u] # "stopping"
      BY <1>1 DEF Core, UnitsUp
    <3>2. /\ state' = [state EXCEPT ![u] = "off"] /\ at' = at /\ stale' = stale
          /\ missed' = (missed \/ (u = "firewall" /\ state[u] = "starting"))
      BY <1>1, <3>1 DEF Stop
    <3>3. missed' = missed
      <4>1. missed \in BOOLEAN
        BY DEF Runs
      <4> QED
        BY <1>1, <3>2, <4>1
    <3> QED
      BY <1>1, <3>2, <3>3 DEF Core, UnitsUp, Units
  <2> QED
    BY <2>1, RunsStay
<1>2. CASE u = "firewall" /\ state[u] = "active"
  <2>1. Configured(script) /\ Routed(script.mode) /\ script # Unset
    BY <1>2, ScriptOfUnit
  <2>2. PICK d : d = DownRun(script)
    OBVIOUS
  <2>3. /\ state' = [state EXCEPT !["firewall"] = "stopping"] /\ at' = [at EXCEPT !.unit = d]
        /\ stale' = stale /\ missed' = missed
    BY <1>2, <2>1, <2>2 DEF Stop
  <2>4. IsRun(d, "remove", RulesOf(script))
    BY <2>1, <2>2, DownIsRun
  <2>5. at'["unit"] = d /\ at'["repair"] = << >> /\ state'["firewall"] = "stopping"
    BY <2>3 DEF Core, UnitsUp, Runs, Units
  <2>6. at' \in [{"unit", "repair"} -> Seq({"add", "remove"} \X RulesOf(script))]
    BY <2>3, <2>4 DEF Runs, IsRun
  <2>7. Runs'
    BY <2>3, <2>4, <2>5, <2>6 DEF Runs, IsRun
  <2>8. Pending("unit")' = RulesOf(script)
    BY <2>4, <2>5 DEF Pending, IsRun
  <2>9. "unit" \notin stale /\ "repair" \notin stale
    BY <1>2 DEF Runs, Rules
  <2> QED
    BY <2>3, <2>5, <2>7, <2>8, <2>9 DEF Rules
<1>3. CASE u = "firewall" /\ state[u] = "stopping"
  <2>1. UNCHANGED <<state, at, stale, missed>>
    BY <1>3 DEF Stop
  <2> QED
    BY <2>1, RunsStay
<1>4. CASE u = "firewall" /\ state[u] \notin {"active", "stopping"}
  <2>1. /\ state' = [state EXCEPT !["firewall"] = "off"] /\ at' = [at EXCEPT !.unit = << >>]
        /\ stale' = stale \ {"unit", "rules"} /\ missed' = (missed \/ state["firewall"] = "starting")
    BY <1>4 DEF Stop
  <2>2. at'["unit"] = << >> /\ at'["repair"] = << >> /\ state'["firewall"] = "off"
    BY <2>1 DEF Core, UnitsUp, Runs, Units
  <2>3. at' \in [{"unit", "repair"} -> Seq({"add", "remove"} \X RulesOf(script))]
    BY <2>1 DEF Runs
  <2>4. missed' \in BOOLEAN /\ (missed => missed') /\ (state["firewall"] = "starting" => missed')
    BY <2>1 DEF Runs
  <2>5. Runs'
    BY <2>1, <2>2, <2>3, <2>4 DEF Runs
  <2>6. missed' \/ rules' = {}
    <3>1. state["firewall"] \in {"off", "queued", "starting"}
      BY <1>4 DEF Core, UnitsUp
    <3> QED
      BY <2>4, <3>1 DEF Rules
  <2>7. "repair" \notin stale
    BY DEF Rules
  <2> QED
    BY <2>1, <2>2, <2>5, <2>6, <2>7 DEF Rules
<1> QED
  BY <1>1, <1>2, <1>3, <1>4 DEF Core, UnitsUp

\* Whatever a command does, but stop a unit or run the script.
LEMMA HeadChangesScript ==
  ASSUME Core, Runs, Rules, UNCHANGED <<at, rules, stale, missed>>, state' = state, ~Step("ran"),
         script' = script \/ state["firewall"] = "off"
  PROVE  Runs' /\ Rules'
  BY NoRunOfRepair, RunsStay

\* The script that a step writes is the one there is, if the firewall is up.
LEMMA ScriptWritten ==
  ASSUME Core, WriteScript
  PROVE  script' = script \/ state["firewall"] = "off"
<1>1. Step("script") /\ script' = Arg /\ proc.left[1][1] = "script" /\ proc.left[1][2] = Arg
  BY DEF WriteScript, OnHost, Step, Arg
<1>2. OwedToFiles(proc.left, proc.cfg, 1) /\ \A a, b : ~Before(proc.left, 1, a, b)
  BY <1>1, AtHead DEF Core, Promised
<1>3. config.c = Arg
  BY <1>1, <1>2 DEF OwedToFiles
<1> QED
  BY <1>1, <1>3, ScriptOfUnit

LEMMA ScriptWiped ==
  ASSUME Core, Wipe
  PROVE  state["firewall"] = "off"
<1>1. Step("wipe") /\ proc.left[1][1] = "wipe"
  BY DEF Wipe, OnHost, Step
<1>2. OwedToUnits(proc.left, 1) /\ \A a, b : ~Before(proc.left, 1, a, b)
  BY <1>1, AtHead DEF Core, Promised
<1>3. installed = {}
  BY <1>1, <1>2 DEF OwedToUnits
<1> QED
  BY <1>3, ScriptOfUnit

\* repair begins its run with the firewall active, and waits for it next.
LEMMA RepairRuns ==
  ASSUME Core, Runs, Rules, RunUp
  PROVE  Runs' /\ Rules'
<1>1. Step("run") /\ proc' = Rest /\ UNCHANGED <<script, state, rules, stale, missed>>
  BY DEF RunUp, hostVars
<1>2. PICK u : u = UpRun(script)
  OBVIOUS
<1>3. at' = [at EXCEPT !.repair = u]
  BY <1>2 DEF RunUp
<1>4. /\ Went /\ proc.left[1][1] = "run" /\ Sound(proc.left, 1) /\ OwedToUnits(proc.left, 1)
      /\ \A a, b : ~Before(proc.left, 1, a, b)
  BY <1>1, HeadDone DEF Step
<1>5. state["firewall"] = "active"
  BY <1>4 DEF OwedToUnits
<1>6. 1 < Len(proc.left) /\ proc.left[1 + 1][1] = "ran"
  BY <1>4 DEF Sound
<1>7. Step("ran")'
  <2>1. Len(proc'.left) >= 1 /\ proc'.left[1] = proc.left[1 + 1]
    BY <1>4, <1>6 DEF Went, Shorter
  <2>2. proc'.left # << >>
    BY <2>1
  <2> QED
    BY <1>6, <2>1, <2>2 DEF Step
<1>8. Configured(script) /\ Routed(script.mode) /\ at["repair"] = << >>
  BY <1>1, <1>5, ScriptOfUnit, NoRunOfRepair DEF Step
<1>9. IsRun(u, "add", RulesOf(script))
  BY <1>2, <1>8, UpIsRun
<1>10. at'["repair"] = u /\ at'["unit"] = at["unit"]
  BY <1>3 DEF Runs
<1>11. at' \in [{"unit", "repair"} -> Seq({"add", "remove"} \X RulesOf(script))]
  BY <1>3, <1>9 DEF Runs, IsRun
<1>12. Runs'
  BY <1>1, <1>5, <1>7, <1>9, <1>10, <1>11 DEF Runs, IsRun
<1>13. Pending("repair")' = RulesOf(script) /\ Pending("unit")' = Pending("unit")
  BY <1>9, <1>10 DEF Pending, IsRun
<1>14. u # << >> /\ "repair" \notin stale
  BY <1>8, <1>9 DEF Rules, IsRun
<1>15. Rules'
  BY <1>1, <1>5, <1>8, <1>10, <1>13, <1>14 DEF Rules
<1> QED
  BY <1>12, <1>15

LEMMA FirewallRuns ==
  ASSUME Core, Runs, Rules, FirewallStarts
  PROVE  Runs' /\ Rules'
<1>1. /\ state["firewall"] = "queued" /\ state' = [state EXCEPT !["firewall"] = "starting"]
      /\ UNCHANGED <<script, rules, stale, missed, proc>>
  BY DEF FirewallStarts, hostVars
<1>2. PICK u : u = UpRun(script)
  OBVIOUS
<1>3. at' = [at EXCEPT !.unit = u]
  BY <1>2 DEF FirewallStarts
<1>4. Configured(script) /\ Routed(script.mode)
  BY <1>1, ScriptOfUnit
<1>5. IsRun(u, "add", RulesOf(script))
  BY <1>2, <1>4, UpIsRun
<1>6. at["unit"] = << >> /\ at["repair"] = << >> /\ state'["firewall"] = "starting"
  BY <1>1 DEF Runs, Core, UnitsUp, Units
<1>7. at'["unit"] = u /\ at'["repair"] = << >>
  BY <1>3, <1>6 DEF Runs
<1>8. at' \in [{"unit", "repair"} -> Seq({"add", "remove"} \X RulesOf(script))]
  BY <1>3, <1>5 DEF Runs, IsRun
<1>9. u # << >> /\ \A i \in 1 .. Len(u) : u[i][1] = "add"
  BY <1>5 DEF IsRun
<1>10. Runs'
  BY <1>1, <1>6, <1>7, <1>8, <1>9 DEF Runs
<1>11. Pending("unit")' = RulesOf(script)
  BY <1>5, <1>7 DEF Pending, IsRun
<1>12. "unit" \notin stale /\ "repair" \notin stale
  BY <1>6 DEF Rules
<1>13. Rules'
  BY <1>1, <1>6, <1>7, <1>11, <1>12 DEF Rules
<1> QED
  BY <1>10, <1>13

\* A list that loses its first element.
LEMMA TailOf ==
  ASSUME NEW S, NEW s \in Seq(S), s # << >>
  PROVE  /\ s[1] \in S /\ Tail(s) \in Seq(S) /\ Len(Tail(s)) = Len(s) - 1
         /\ \A i \in 1 .. Len(s) - 1 : Tail(s)[i] = s[i + 1]
         /\ {s[i][2] : i \in 1 .. Len(s)} = {s[1][2]} \cup {Tail(s)[i][2] : i \in 1 .. Len(Tail(s))}
<1>1. PICK t : t = Tail(s)
  OBVIOUS
<1>2. /\ s[1] \in S /\ t \in Seq(S) /\ Len(t) = Len(s) - 1 /\ Len(s) \in Nat /\ Len(s) >= 1
      /\ \A i \in 1 .. Len(s) - 1 : t[i] = s[i + 1]
  BY <1>1
<1>3. \A i \in 1 .. Len(s) : i = 1 \/ (i - 1 \in 1 .. Len(t) /\ t[i - 1] = s[i])
  BY <1>2
<1>4. \A i \in 1 .. Len(t) : i + 1 \in 1 .. Len(s) /\ t[i] = s[i + 1]
  BY <1>2
<1>5. 1 \in 1 .. Len(s)
  BY <1>2
<1>6. {s[i][2] : i \in 1 .. Len(s)} = {s[1][2]} \cup {t[i][2] : i \in 1 .. Len(t)}
  <2>1. ASSUME NEW i \in 1 .. Len(s) PROVE s[i][2] \in {s[1][2]} \cup {t[k][2] : k \in 1 .. Len(t)}
    <3>1. CASE i = 1
      BY <3>1
    <3>2. CASE i - 1 \in 1 .. Len(t) /\ t[i - 1] = s[i]
      <4>1. PICK k \in 1 .. Len(t) : t[k] = s[i]
        BY <3>2
      <4> QED
        BY <4>1
    <3> QED
      BY <1>3, <3>1, <3>2
  <2>2. ASSUME NEW i \in 1 .. Len(t) PROVE t[i][2] \in {s[k][2] : k \in 1 .. Len(s)}
    <3>1. PICK k \in 1 .. Len(s) : t[i] = s[k]
      BY <1>4
    <3> QED
      BY <3>1
  <2>3. s[1][2] \in {s[k][2] : k \in 1 .. Len(s)}
    BY <1>5
  <2> QED
    BY <2>1, <2>2, <2>3
<1> QED
  BY <1>1, <1>2, <1>6

\* What is left of a run when a line of it is done.
OneLess(r) ==
  /\ at[r][1] \in {"add", "remove"} \X RulesOf(script)
  /\ at' \in [{"unit", "repair"} -> Seq({"add", "remove"} \X RulesOf(script))]
  /\ Pending(r) = {at[r][1][2]} \cup Pending(r)'
  /\ at'[r] = << >> <=> Len(at[r]) = 1
  /\ \A w : (\A i \in 1 .. Len(at[r]) : at[r][i][1] = w) =>
              at[r][1][1] = w /\ \A i \in 1 .. Len(at'[r]) : at'[r][i][1] = w
  /\ \A o \in {"unit", "repair"} : o # r => at'[o] = at[o] /\ Pending(o)' = Pending(o)

LEMMA LineDone ==
  ASSUME Runs, NEW r \in {"unit", "repair"}, at[r] # << >>, After(r)
  PROVE  OneLess(r)
<1>1. PICK S : S = {"add", "remove"} \X RulesOf(script)
  OBVIOUS
<1>2. at \in [{"unit", "repair"} -> Seq(S)] /\ at' = [at EXCEPT ![r] = Tail(@)]
  BY <1>1 DEF Runs, After
<1>3. PICK s : s = at[r]
  OBVIOUS
<1>4. s \in Seq(S) /\ s # << >> /\ at'[r] = Tail(s)
  BY <1>2, <1>3
<1>5. /\ s[1] \in S /\ Tail(s) \in Seq(S) /\ Len(Tail(s)) = Len(s) - 1
      /\ \A i \in 1 .. Len(s) - 1 : Tail(s)[i] = s[i + 1]
      /\ {s[i][2] : i \in 1 .. Len(s)} = {s[1][2]} \cup {Tail(s)[i][2] : i \in 1 .. Len(Tail(s))}
  BY <1>4, TailOf
<1>6. at' \in [{"unit", "repair"} -> Seq(S)]
  BY <1>2, <1>4, <1>5
<1>7. Pending(r) = {at[r][1][2]} \cup Pending(r)'
  <2>1. Pending(r) = {s[i][2] : i \in 1 .. Len(s)}
    BY <1>3 DEF Pending
  <2>2. Pending(r)' = {Tail(s)[i][2] : i \in 1 .. Len(Tail(s))}
    BY <1>4 DEF Pending
  <2> QED
    BY <1>3, <1>5, <2>1, <2>2
<1>8. Tail(s) = << >> <=> Len(s) = 1
  <2>1. \A q \in Seq(S) : q = << >> <=> Len(q) = 0
    OBVIOUS
  <2>2. PICK t : t = Tail(s)
    OBVIOUS
  <2>3. (t = << >> <=> Len(t) = 0) /\ Len(t) = Len(s) - 1 /\ Len(s) \in Nat
    BY <1>4, <1>5, <2>1, <2>2
  <2>4. Len(t) = 0 <=> Len(s) = 1
    BY <2>3
  <2> QED
    BY <2>2, <2>3, <2>4
<1>9. ASSUME NEW w, \A i \in 1 .. Len(s) : s[i][1] = w
      PROVE  s[1][1] = w /\ \A i \in 1 .. Len(Tail(s)) : Tail(s)[i][1] = w
  <2>1. Len(s) \in Nat /\ Len(s) >= 1
    BY <1>4
  <2>2. \A i \in 1 .. Len(s) - 1 : i + 1 \in 1 .. Len(s)
    BY <2>1
  <2> QED
    BY <1>5, <1>9, <2>1, <2>2
<1>10. \A o \in {"unit", "repair"} : o # r => at'[o] = at[o]
  BY <1>2
<1>11. \A o \in {"unit", "repair"} : o # r => Pending(o)' = Pending(o)
  BY <1>10 DEF Pending
<1> QED
  BY <1>1, <1>3, <1>4, <1>5, <1>6, <1>7, <1>8, <1>9, <1>10, <1>11 DEF OneLess

\* What a run does, and where it stands then.
LEMMA RunIs ==
  ASSUME Runs, NEW r \in {"unit", "repair"}, at[r] # << >>
  PROVE  \/ r = "unit" /\ state["firewall"] = "starting" /\ at["repair"] = << >>
            /\ \A i \in 1 .. Len(at[r]) : at[r][i][1] = "add"
         \/ r = "unit" /\ state["firewall"] = "stopping" /\ at["repair"] = << >>
            /\ \A i \in 1 .. Len(at[r]) : at[r][i][1] = "remove"
         \/ r = "repair" /\ state["firewall"] = "active" /\ at["unit"] = << >>
            /\ \A i \in 1 .. Len(at[r]) : at[r][i][1] = "add"
  BY DEF Runs

\* A line of the firewall's start.
LEMMA StartLine ==
  ASSUME Core, Runs, Rules, state["firewall"] = "starting", at["unit"] # << >>, After("unit"),
         rules' = rules \cup {at["unit"][1][2]}, UNCHANGED <<script, proc, missed>>
  PROVE  Runs' /\ Rules'
<1>1. OneLess("unit") /\ at["repair"] = << >>
  BY LineDone, RunIs
<1>2. at["unit"][1][1] = "add" /\ \A i \in 1 .. Len(at'["unit"]) : at'["unit"][i][1] = "add"
  BY <1>1 DEF OneLess, Runs
<1>3. PICK x : x = at["unit"][1][2]
  OBVIOUS
<1>4. x \in RulesOf(script) /\ rules' = rules \cup {x} /\ Pending("unit") = {x} \cup Pending("unit")'
  BY <1>1, <1>3 DEF OneLess
<1>5. at'["repair"] = << >> /\ "repair" \notin stale
  BY <1>1 DEF OneLess, Rules
<1>6. at' \in [{"unit", "repair"} -> Seq({"add", "remove"} \X RulesOf(script))]
  BY <1>1 DEF OneLess
<1>7. CASE Len(at["unit"]) = 1
  <2>1. state' = [state EXCEPT !["firewall"] = "active"]
    BY <1>7 DEF After, Ended
  <2>2. stale' = IF "unit" \in stale THEN stale \ {"unit"} ELSE stale \ {"unit", "rules"}
    BY <1>2, <1>7 DEF After, Ended
  <2>3. state'["firewall"] = "active"
    BY <2>1 DEF Core, UnitsUp, Units
  <2>4. at'["unit"] = << >>
    BY <1>1, <1>7 DEF OneLess
  <2>5. Runs'
    BY <1>5, <1>6, <2>2, <2>3, <2>4 DEF Runs
  <2>6. Pending("unit")' = {}
    BY <2>4 DEF Pending
  <2>7. "rules" \notin stale' => RulesOf(script) \subseteq rules'
    BY <1>4, <2>2, <2>6 DEF Rules
  <2>8. missed \/ rules' \subseteq RulesOf(script)
    BY <1>4 DEF Rules
  <2>9. \A r \in {"unit", "repair"} : r \notin stale'
    BY <1>5, <2>2
  <2> QED
    BY <1>5, <2>3, <2>5, <2>7, <2>8, <2>9 DEF Rules
<1>8. CASE Len(at["unit"]) # 1
  <2>1. state' = state /\ stale' = stale
    BY <1>8 DEF After
  <2>2. at'["unit"] # << >>
    BY <1>1, <1>8 DEF OneLess
  <2>3. Runs'
    BY <1>2, <1>5, <1>6, <2>1, <2>2 DEF Runs
  <2>4. missed \/ rules' \subseteq RulesOf(script)
    BY <1>4 DEF Rules
  <2>5. "unit" \notin stale => RulesOf(script) \subseteq rules' \cup Pending("unit")'
    BY <1>4 DEF Rules
  <2>6. "unit" \in stale => "rules" \in stale
    BY DEF Rules
  <2> QED
    BY <1>5, <2>1, <2>2, <2>3, <2>4, <2>5, <2>6 DEF Rules
<1> QED
  BY <1>7, <1>8

\* A line of its stop, which removes the rule or has missed it.
LEMMA StopLine ==
  ASSUME Core, Runs, Rules, state["firewall"] = "stopping", at["unit"] # << >>, After("unit"),
         \/ rules' = rules \ {at["unit"][1][2]} /\ missed' = missed
         \/ rules' = rules /\ missed' = TRUE,
         UNCHANGED <<script, proc>>
  PROVE  Runs' /\ Rules'
<1>1. OneLess("unit") /\ at["repair"] = << >>
  BY LineDone, RunIs
<1>2. at["unit"][1][1] = "remove" /\ \A i \in 1 .. Len(at'["unit"]) : at'["unit"][i][1] = "remove"
  BY <1>1 DEF OneLess, Runs
<1>3. PICK x : x = at["unit"][1][2]
  OBVIOUS
<1>4. Pending("unit") = {x} \cup Pending("unit")'
  BY <1>1, <1>3 DEF OneLess
<1>5. at'["repair"] = << >> /\ "repair" \notin stale
  BY <1>1 DEF OneLess, Rules
<1>6. at' \in [{"unit", "repair"} -> Seq({"add", "remove"} \X RulesOf(script))]
  BY <1>1 DEF OneLess
<1>7. missed' \in BOOLEAN
  BY DEF Runs
<1>8. missed' \/ (rules' \subseteq RulesOf(script) /\ rules' \subseteq Pending("unit")')
  <2>1. CASE rules' = rules \ {x} /\ missed' = missed
    <3>1. missed \/ (rules \subseteq RulesOf(script) /\ rules \subseteq Pending("unit"))
      BY DEF Rules
    <3> QED
      BY <1>4, <2>1, <3>1
  <2> QED
    BY <1>3, <2>1
<1>9. CASE Len(at["unit"]) = 1
  <2>1. state' = [state EXCEPT !["firewall"] = "off"]
    BY <1>9 DEF After, Ended
  <2>2. stale' = stale \ {"unit", "rules"}
    BY <1>2, <1>9 DEF After, Ended
  <2>3. state'["firewall"] = "off"
    BY <2>1 DEF Core, UnitsUp, Units
  <2>4. at'["unit"] = << >>
    BY <1>1, <1>9 DEF OneLess
  <2>5. Runs'
    BY <1>5, <1>6, <1>7, <2>2, <2>3, <2>4 DEF Runs
  <2>6. Pending("unit")' = {}
    BY <2>4 DEF Pending
  <2>7. missed' \/ rules' = {}
    BY <1>8, <2>6
  <2>8. \A r \in {"unit", "repair"} : r \notin stale'
    BY <1>5, <2>2
  <2> QED
    BY <1>5, <1>8, <2>3, <2>5, <2>7, <2>8 DEF Rules
<1>10. CASE Len(at["unit"]) # 1
  <2>1. state' = state /\ stale' = stale
    BY <1>10 DEF After
  <2>2. at'["unit"] # << >>
    BY <1>1, <1>10 DEF OneLess
  <2>3. Runs'
    BY <1>2, <1>5, <1>6, <1>7, <2>1, <2>2 DEF Runs
  <2> QED
    BY <1>5, <1>8, <2>1, <2>2, <2>3 DEF Rules
<1> QED
  BY <1>9, <1>10

\* A line of repair's run.
LEMMA RepairLine ==
  ASSUME Core, Runs, Rules, state["firewall"] = "active", at["repair"] # << >>, After("repair"),
         rules' = rules \cup {at["repair"][1][2]}, UNCHANGED <<script, proc, missed>>
  PROVE  Runs' /\ Rules'
<1>1. OneLess("repair") /\ at["unit"] = << >> /\ Step("ran")
  BY LineDone, RunIs DEF Runs
<1>2. at["repair"][1][1] = "add" /\ \A i \in 1 .. Len(at'["repair"]) : at'["repair"][i][1] = "add"
  BY <1>1 DEF OneLess, Runs
<1>3. PICK x : x = at["repair"][1][2]
  OBVIOUS
<1>4. x \in RulesOf(script) /\ rules' = rules \cup {x} /\ Pending("repair") = {x} \cup Pending("repair")'
  BY <1>1, <1>3 DEF OneLess
<1>5. at'["unit"] = << >> /\ "unit" \notin stale
  BY <1>1 DEF OneLess, Rules
<1>6. at' \in [{"unit", "repair"} -> Seq({"add", "remove"} \X RulesOf(script))]
  BY <1>1 DEF OneLess
<1>7. state' = state
  BY DEF After, Ended
<1>8. missed \/ rules' \subseteq RulesOf(script)
  BY <1>4 DEF Rules
<1>9. Step("ran")'
  BY <1>1 DEF Step
<1>10. CASE Len(at["repair"]) = 1
  <2>1. stale' = IF "repair" \in stale THEN stale \ {"repair"} ELSE stale \ {"repair", "rules"}
    BY <1>2, <1>10 DEF After, Ended
  <2>2. at'["repair"] = << >>
    BY <1>1, <1>10 DEF OneLess
  <2>3. Runs'
    BY <1>5, <1>6, <1>7, <2>1, <2>2 DEF Runs
  <2>4. Pending("repair")' = {}
    BY <2>2 DEF Pending
  <2>5. "rules" \notin stale' => RulesOf(script) \subseteq rules'
    <3>1. CASE "repair" \in stale
      BY <1>4, <2>1, <3>1 DEF Rules
    <3>2. CASE "repair" \notin stale
      BY <1>4, <2>4, <3>2 DEF Rules
    <3> QED
      BY <3>1, <3>2
  <2>6. \A r \in {"unit", "repair"} : r \notin stale'
    BY <1>5, <2>1
  <2> QED
    BY <1>5, <1>7, <1>8, <2>2, <2>3, <2>5, <2>6 DEF Rules
<1>11. CASE Len(at["repair"]) # 1
  <2>1. stale' = stale
    BY <1>11 DEF After
  <2>2. at'["repair"] # << >>
    BY <1>1, <1>11 DEF OneLess
  <2>3. Runs'
    BY <1>2, <1>5, <1>6, <1>7, <1>9, <2>1, <2>2 DEF Runs
  <2>4. "repair" \notin stale => RulesOf(script) \subseteq rules' \cup Pending("repair")'
    BY <1>1, <1>4 DEF Rules
  <2>5. "rules" \notin stale => RulesOf(script) \subseteq rules'
    BY <1>4 DEF Rules
  <2> QED
    BY <1>5, <1>7, <1>8, <2>1, <2>2, <2>3, <2>4, <2>5 DEF Rules
<1> QED
  BY <1>10, <1>11

LEMMA LineRuns ==
  ASSUME Core, Runs, Rules, NEW r \in {"unit", "repair"}, ScriptLine(r) \/ LockEndsLoop(r)
  PROVE  Runs' /\ Rules'
<1>1. at[r] # << >> /\ After(r) /\ UNCHANGED <<script, proc>>
  BY DEF ScriptLine, LockEndsLoop, hostVars
<1>2. OneLess(r)
  BY <1>1, LineDone
<1>3. \/ at[r][1][1] = "add" /\ rules' = rules \cup {at[r][1][2]} /\ missed' = missed
      \/ at[r][1][1] = "remove" /\ rules' = rules \ {at[r][1][2]} /\ missed' = missed
      \/ at[r][1][1] = "remove" /\ rules' = rules /\ missed' = TRUE
  <2>1. at[r][1][1] \in {"add", "remove"}
    BY <1>2 DEF OneLess
  <2> QED
    BY <2>1 DEF ScriptLine, LockEndsLoop
<1>4. CASE r = "unit" /\ state["firewall"] = "starting"
  <2>1. at[r][1][1] = "add"
    BY <1>2, <1>4 DEF OneLess, Runs
  <2> QED
    BY <1>1, <1>3, <1>4, <2>1, StartLine
<1>5. CASE r = "unit" /\ state["firewall"] = "stopping"
  <2>1. at[r][1][1] = "remove"
    BY <1>2, <1>5 DEF OneLess, Runs
  <2> QED
    BY <1>1, <1>3, <1>5, <2>1, StopLine
<1>6. CASE r = "repair" /\ state["firewall"] = "active"
  <2>1. at[r][1][1] = "add"
    BY <1>2, <1>6 DEF OneLess, Runs
  <2> QED
    BY <1>1, <1>3, <1>6, <2>1, RepairLine
<1> QED
  BY <1>1, <1>4, <1>5, <1>6, RunIs

----------------------------------------------------------------------------
(***************************************************************************)
(* Every step keeps the runs and the rules.                                *)
(***************************************************************************)

LEMMA UnitRuns ==
  ASSUME Core, Runs, Rules, NEW u \in Units, LinkOrServerStarts(u) \/ LinkOrServerFails(u)
  PROVE  Runs' /\ Rules'
<1>1. state'["firewall"] = state["firewall"] /\ UNCHANGED <<at, rules, stale, missed, proc, script>>
  BY DEF LinkOrServerStarts, LinkOrServerFails, hostVars, Core, UnitsUp, Units
<1> QED
  BY <1>1, RunsStay

\* A run that fails, which ends the unit's start or stop, or repair.
LEMMA FailedRun ==
  ASSUME Core, Runs, Rules, NEW r \in {"unit", "repair"}, ScriptFails(r)
  PROVE  Runs' /\ Rules'
<1>1. at[r] # << >> /\ at' = [at EXCEPT ![r] = << >>] /\ rules' = rules /\ script' = script
  BY DEF ScriptFails, hostVars
<1>2. at' \in [{"unit", "repair"} -> Seq({"add", "remove"} \X RulesOf(script))] /\ at'[r] = << >>
  BY <1>1 DEF Runs
<1>3. CASE r = "unit"
  <2>1. /\ state' = [state EXCEPT !["firewall"] = "off"] /\ stale' = stale \ {"unit", "rules"}
        /\ missed' = TRUE /\ proc' = proc
    BY <1>3 DEF ScriptFails
  <2>2. state'["firewall"] = "off" /\ at'["unit"] = << >> /\ at'["repair"] = << >>
    BY <1>1, <1>2, <1>3, <2>1, RunIs DEF Core, UnitsUp, Units
  <2>3. "repair" \notin stale
    BY <1>1, <1>3, RunIs DEF Rules
  <2>4. Runs'
    BY <1>1, <1>2, <2>1, <2>2 DEF Runs
  <2> QED
    BY <2>1, <2>2, <2>3, <2>4 DEF Rules
<1>4. CASE r = "repair"
  <2>1. state' = state /\ stale' = stale \ {"repair"} /\ missed' = missed
    BY <1>4 DEF ScriptFails
  <2>2. state["firewall"] = "active" /\ at'["unit"] = << >> /\ at'["repair"] = << >>
    BY <1>1, <1>2, <1>4, RunIs
  <2>3. "unit" \notin stale
    BY <1>1, <1>4, RunIs DEF Rules
  <2>4. Runs'
    BY <1>1, <1>2, <2>1, <2>2 DEF Runs
  <2> QED
    BY <1>1, <2>1, <2>2, <2>3, <2>4 DEF Rules
<1> QED
  BY <1>3, <1>4

\* A command that ends takes repair's run with it.
LEMMA EndedRuns ==
  ASSUME Core, Runs, Rules, StepFails \/ Kill
  PROVE  Runs' /\ Rules'
<1>1. CASE StepFails
  <2>1. ~Step("ran")
    BY <1>1 DEF StepFails, Step, Ignored
  <2> QED
    BY <1>1, <2>1, HeadChangesScript DEF StepFails, hostVars, unitVars
<1>2. CASE Kill
  <2>1. /\ at' = [at EXCEPT !.repair = << >>] /\ stale' = stale \ {"repair"}
        /\ UNCHANGED <<script, state, rules, missed>>
    BY <1>2 DEF Kill, hostVars
  <2>2. at'["unit"] = at["unit"] /\ at'["repair"] = << >>
        /\ at' \in [{"unit", "repair"} -> Seq({"add", "remove"} \X RulesOf(script))]
    BY <2>1 DEF Runs
  <2>3. Runs'
    BY <2>1, <2>2 DEF Runs
  <2>4. Pending("unit")' = Pending("unit")
    BY <2>2 DEF Pending
  <2> QED
    BY <2>1, <2>2, <2>3, <2>4 DEF Rules
<1> QED
  BY <1>1, <1>2

LEMMA RebootRuns ==
  ASSUME Core, Runs, Rules, Reboot
  PROVE  Runs' /\ Rules'
<1>1. /\ at' = [r \in {"unit", "repair"} |-> << >>] /\ rules' = {} /\ stale' = {} /\ missed' = FALSE
      /\ script' = script /\ state'["firewall"] \in {"off", "queued"}
  BY DEF Reboot, Units
<1>2. at' \in [{"unit", "repair"} -> Seq({"add", "remove"} \X RulesOf(script))]
      /\ at'["unit"] = << >> /\ at'["repair"] = << >>
  BY <1>1
<1>3. Runs'
  <2>1. missed' \in BOOLEAN /\ stale' \subseteq {"rules", "unit", "repair"}
    BY <1>1
  <2>2. state'["firewall"] \notin {"starting", "stopping", "active"}
    BY <1>1
  <2>3. \A i \in 1 .. Len(at'["repair"]) : at'["repair"][i][1] = "add"
    BY <1>2
  <2> QED
    BY <1>1, <1>2, <2>1, <2>2, <2>3 DEF Runs
<1> QED
  BY <1>1, <1>2, <1>3 DEF Rules

LEMMA ReloadRuns ==
  ASSUME Core, Runs, Rules, Reload
  PROVE  Runs' /\ Rules'
<1>1. /\ rules' = {} /\ UNCHANGED <<script, state, at, proc, missed>>
      /\ stale' = {r \in {"unit", "repair"} : at[r] # << >>}
                  \cup (IF state["firewall"] \in {"starting", "active"} THEN {"rules"} ELSE {})
  BY DEF Reload, hostVars
<1>2. Runs'
  <2>1. stale' \subseteq {"rules", "unit", "repair"}
    BY <1>1
  <2>2. Step("ran")' <=> Step("ran")
    BY <1>1 DEF Step
  <2>3. missed' = missed
    BY <1>1
  <2> QED
    BY <1>1, <2>1, <2>2, <2>3 DEF Runs
<1>3. /\ \A r \in {"unit", "repair"} : r \in stale' <=> at[r] # << >>
      /\ state["firewall"] \in {"starting", "active"} => "rules" \in stale'
  BY <1>1
<1>4. state["firewall"] = "starting" => at["unit"] # << >>
  BY DEF Runs
<1> QED
  BY <1>1, <1>2, <1>3, <1>4 DEF Rules

\* systemctl stop, and disable.
LEMMA StoppedRuns ==
  ASSUME Core, Runs, Rules, StopNow \/ DisableNow
  PROVE  Runs' /\ Rules'
<1>1. Stop(Arg) /\ UNCHANGED <<rules, script>> /\ (Step("stop") \/ Step("disable")) /\ proc' = Rest
  BY DEF StopNow, DisableNow, hostVars
<1>2. Arg \in Units
  BY <1>1, HeadDone DEF Sound, Step, Arg
<1>3. at["repair"] = << >>
  BY <1>1, NoRunOfRepair DEF Step
<1> QED
  BY <1>1, <1>2, <1>3, RunsStop

\* systemctl enable --now, and restart.
LEMMA StartedRuns ==
  ASSUME Core, Runs, Rules, EnableNow \/ Restart
  PROVE  Runs' /\ Rules'
<1>1. UNCHANGED <<at, rules, stale, missed, script>> /\ (Step("enable") \/ Step("restart"))
      /\ proc' = Rest
  BY DEF EnableNow, Restart, hostVars
<1>2. at["repair"] = << >>
  BY <1>1, NoRunOfRepair DEF Step
<1>3. \/ state'["firewall"] = state["firewall"]
      \/ state["firewall"] = "off" /\ state'["firewall"] = "queued"
  <2>1. CASE EnableNow
    BY <2>1 DEF EnableNow, Units
  <2>2. CASE Restart
    <3>1. Arg = "wg"
      BY <1>1, <2>2, HeadDone DEF Restart, Sound, Step, Arg
    <3> QED
      BY <2>2, <3>1 DEF Restart, Core, UnitsUp, Units
  <2> QED
    BY <1>1, <2>1, <2>2 DEF EnableNow, Restart
<1> QED
  BY <1>1, <1>2, <1>3, RunsStay

\* The steps that leave the units alone.
LEMMA FilesRuns ==
  ASSUME Core, Runs, Rules,
         \/ ReadOptions \/ Look \/ Capture \/ Save \/ WriteDropin \/ ApplySysctl
         \/ WriteScript \/ Install \/ Restore \/ Unlink \/ Wipe \/ Await \/ Gone \/ Ran \/ Commands
  PROVE  Runs' /\ Rules'
<1>1. UNCHANGED <<at, rules, stale, missed, state>>
  BY DEF ReadOptions, Look, Capture, Save, WriteDropin, ApplySysctl, WriteScript, Install, Restore,
         Unlink, Wipe, Await, Gone, Ran, Commands, InitOutside, Uninstall, Accept, Manage, Repair,
         Command, OnHost, unitVars
<1>2. script' = script \/ state["firewall"] = "off"
  <2>1. CASE WriteScript \/ Wipe
    BY <2>1, ScriptWritten, ScriptWiped
  <2>2. CASE ~(WriteScript \/ Wipe)
    BY <2>2 DEF ReadOptions, Look, Capture, Save, WriteDropin, ApplySysctl, Install, Restore,
         Unlink, Await, Gone, Ran, Commands, InitOutside, Uninstall, Accept, Manage, Repair,
         Command, OnHost, hostVars
  <2> QED
    BY <2>1, <2>2
<1>3. CASE Ran
  <2>1. at["repair"] = << >>
    BY <1>3 DEF Ran
  <2> QED
    BY <1>1, <1>2, <2>1, RunsStay
<1>4. CASE ~Ran
  <2>1. ~Step("ran")
    <3>1. CASE Commands
      <4>1. proc.left = << >>
        BY <3>1 DEF Commands, InitOutside, Uninstall, Accept, Manage, Repair, Command, Free
      <4> QED
        BY <4>1 DEF Step
    <3>2. CASE ~Commands
      BY <1>4, <3>2 DEF ReadOptions, Look, Capture, Save, WriteDropin, ApplySysctl, WriteScript,
           Install, Restore, Unlink, Wipe, Await, Gone, OnHost, Step
    <3> QED
      BY <3>1, <3>2
  <2> QED
    BY <1>1, <1>2, <2>1, HeadChangesScript
<1> QED
  BY <1>3, <1>4

LEMMA SystemdRuns ==
  ASSUME Core, Runs, Rules, Systemd
  PROVE  Runs' /\ Rules'
<1>1. CASE \E u \in Units : LinkOrServerStarts(u) \/ LinkOrServerFails(u)
  BY <1>1, UnitRuns
<1>2. CASE FirewallStarts
  BY <1>2, FirewallRuns
<1>3. CASE \E r \in {"unit", "repair"} : ScriptLine(r) \/ LockEndsLoop(r) \/ ScriptFails(r)
  <2>1. PICK r \in {"unit", "repair"} : ScriptLine(r) \/ LockEndsLoop(r) \/ ScriptFails(r)
    BY <1>3
  <2>2. CASE ScriptFails(r)
    BY <2>2, FailedRun
  <2>3. CASE ScriptLine(r) \/ LockEndsLoop(r)
    BY <2>3, LineRuns
  <2> QED
    BY <2>1, <2>2, <2>3
<1> QED
  BY <1>1, <1>2, <1>3 DEF Systemd

LEMMA RunsGoOn ==
  ASSUME Core, Runs, Rules, Next
  PROVE  Runs' /\ Rules'
<1>1. CASE Commands
  BY <1>1, FilesRuns
<1>2. CASE Steps
  <2>1. CASE EnableNow \/ Restart
    BY <2>1, StartedRuns
  <2>2. CASE StopNow \/ DisableNow
    BY <2>2, StoppedRuns
  <2>3. CASE RunUp
    BY <2>3, RepairRuns
  <2> QED
    BY <1>2, <2>1, <2>2, <2>3, FilesRuns DEF Steps
<1> QED
  BY <1>1, <1>2, SystemdRuns, EndedRuns, RebootRuns, ReloadRuns DEF Next

LEMMA CoreGoesOn ==
  ASSUME Core, Runs, Next
  PROVE  Core'
<1>1. CASE Steps
  BY <1>1, StepSave, StepScript, StepInstall, StepWipe, StepCapture, StepDropin, StepApplySysctl,
     StepRestore, StepUnlink, StepEnable, StepRestart, StepDisable, StepStop, StepQuiet,
     OptionsBegin DEF Steps
<1> QED
  BY <1>1, CommandBegins, Meanwhile, CommandEnds DEF Next

LEMMA StutterGoesOn ==
  ASSUME Inv, UNCHANGED vars
  PROVE  Inv'
<1>1. UNCHANGED <<config, dropin, sysctl, script, installed, enabled, state, at, rules, stale, missed,
                  original, proc>>
  BY DEF vars, hostVars, unitVars
<1>2. Typed' /\ Files' /\ Sysctls' /\ UnitsUp'
  <2>1. Saved(config)' /\ Saved(proc.cfg)'
    BY <1>1 DEF Inv, Files, Saved
  <2>2. dropin' = dropin
    BY <1>1
  <2>3. Typed' /\ UnitsUp'
    BY <1>1 DEF Inv, Typed, Exists, UnitsUp
  <2>4. Files' /\ Sysctls'
    BY <1>1, <2>1, <2>2 DEF Inv, Files, Sysctls, Exists
  <2> QED
    BY <2>3, <2>4
<1>3. Owed'
  <2>1. ASSUME NEW j \in 1 .. Len(proc.left) PROVE Promised(proc.left, proc.cfg, j)'
    <3>1. Promised(proc.left, proc.cfg, j)
      BY DEF Inv, Owed, Promises
    <3>2. Sound(proc.left, j)'
      BY <1>1, <3>1 DEF Promised
    <3>3. OwedToFiles(proc.left, proc.cfg, j)'
      BY <1>1, <3>1 DEF Promised, OwedToFiles, Preceding, Before
    <3>4. OwedToSysctls(proc.left, proc.cfg, j)'
      <4>1. dropin' = dropin
        BY <1>1
      <4> QED
        BY <1>1, <3>1, <4>1 DEF Promised, OwedToSysctls, Before
    <3>5. OwedToUnits(proc.left, j)'
      BY <1>1, <3>1 DEF Promised, OwedToUnits, Before
    <3> QED
      BY <3>2, <3>3, <3>4, <3>5 DEF Promised
  <2> QED
    BY <1>1, <2>1 DEF Owed, Promises
<1>4. Runs' /\ Rules'
  <2>1. \A r \in {"unit", "repair"} : Pending(r)' = Pending(r)
    BY <1>1 DEF Pending
  <2>2. Step("ran")' <=> Step("ran")
    BY <1>1 DEF Step
  <2>3. Runs'
    BY <1>1, <2>2 DEF Inv, Runs
  <2>4. Rules'
    BY <1>1, <2>1 DEF Inv, Rules
  <2> QED
    BY <2>3, <2>4
<1> QED
  BY <1>2, <1>3, <1>4 DEF Inv

LEMMA InvInit ==
  ASSUME Init
  PROVE  Inv
<1>1. /\ original \in [Keys -> 0 .. 2] /\ sysctl = original /\ config = NoConfig /\ script = Unset
      /\ dropin = FALSE /\ installed = {} /\ enabled = {} /\ state = [u \in Units |-> "off"]
      /\ at = [r \in {"unit", "repair"} |-> << >>] /\ rules = {} /\ stale = {} /\ missed = FALSE
      /\ proc = Free /\ proc.left = << >> /\ proc.cfg = NoConfig /\ Len(proc.left) = 0
  BY OriginalsAssumption DEF Init, Free
<1>2. Typed
  BY <1>1 DEF Typed, Free
<1>3. Owed
  BY <1>1 DEF Owed, Promises
<1>4. Files
  BY <1>1 DEF Files, Saved
<1>5. Sysctls /\ UnitsUp
  <2>1. ~Exists
    BY <1>1 DEF Exists, NoConfig, Unset
  <2> QED
    BY <1>1, <2>1 DEF Sysctls, UnitsUp, Units
<1>6. Runs /\ Rules
  <2>1. at["unit"] = << >> /\ at["repair"] = << >> /\ state["firewall"] = "off"
    BY <1>1 DEF Units
  <2>2. at \in [{"unit", "repair"} -> Seq({"add", "remove"} \X RulesOf(script))]
    BY <1>1
  <2>3. missed \in BOOLEAN
    BY <1>1
  <2>4. \A i \in 1 .. Len(at["repair"]) : at["repair"][i][1] = "add"
    BY <2>1
  <2>5. stale \subseteq {"rules", "unit", "repair"}
    BY <1>1
  <2>6. Runs
    BY <2>1, <2>2, <2>3, <2>4, <2>5 DEF Runs
  <2>7. Rules
    BY <1>1, <2>1 DEF Rules
  <2> QED
    BY <2>6, <2>7
<1> QED
  BY <1>2, <1>3, <1>4, <1>5, <1>6 DEF Inv

\* Inv is inductive.
LEMMA Always == Spec => []Inv
<1>1. Init => Inv
  BY InvInit
<1>2. Inv /\ [Next]_vars => Inv'
  <2>1. ASSUME Inv, Next PROVE Inv'
    <3>1. Core /\ Runs /\ Rules
      BY <2>1 DEF Inv, Core
    <3>2. Core' /\ Runs' /\ Rules'
      BY <2>1, <3>1, CoreGoesOn, RunsGoOn
    <3> QED
      BY <3>2 DEF Inv, Core
  <2> QED
    BY <2>1, StutterGoesOn
<1> QED
  BY <1>1, <1>2, PTL DEF Spec

----------------------------------------------------------------------------
(***************************************************************************)
(* The theorems.                                                           *)
(***************************************************************************)

\* Every variable keeps its shape; the firewall's unit is starting or stopping
\* exactly while it runs the script (Gateway.TypeOK).
THEOREM TypeCorrect == Spec => []TypeOK
<1>1. Inv => TypeOK
  <2> SUFFICES ASSUME Inv PROVE TypeOK
    OBVIOUS
  <2> USE DEF Inv
  <2>1. config.prev \in [Keys -> 0 .. 3]
    <3>1. NoConfig.prev \in [Keys -> 0 .. 3] /\ original \in [Keys -> 0 .. 3]
      BY DEF Files, NoConfig
    <3> QED
      BY <3>1 DEF Files, Saved
  <2>2. DOMAIN config.c = DOMAIN Unset /\ DOMAIN script = DOMAIN Unset
    <3>1. DOMAIN Unset = Fields /\ NoConfig.c = Unset
      BY UnsetFields DEF NoConfig
    <3>2. DOMAIN config.c = Fields
      BY <3>1, ModeOf DEF Files, Saved
    <3>3. DOMAIN script = Fields
      BY <3>1, ModeOf DEF Files
    <3> QED
      BY <3>1, <3>2, <3>3
  <2> QED
    BY <2>1, <2>2 DEF TypeOK, Files, UnitsUp, Runs
<1> QED
  BY <1>1, Always, PTL

\* While the host runs on, or will boot with, a sysctl that Hamara took over,
\* config.json holds the host's own values: wherever init, init --force and
\* uninstall are killed, fail or are cut short by a reboot (capturePreviousSysctls
\* before Save before the drop-in, and Uninstall's restore and unlink before
\* it removes the configuration).
THEOREM SysctlsComeBack == Spec => []SysctlsRecoverable
<1>1. Inv => SysctlsRecoverable
  <2> SUFFICES ASSUME Inv, sysctl # original \/ dropin PROVE Exists /\ config.prev = original
    BY DEF SysctlsRecoverable
  <2>1. Exists /\ Routed(config.c.mode)
    BY DEF Inv, Sysctls
  <2>2. config # NoConfig
    BY <2>1, ExistsIs DEF Inv
  <2> QED
    BY <2>1, <2>2 DEF Inv, Files, Saved
<1> QED
  BY <1>1, Always, PTL

\* A gateway without config.json has no unit enabled or running, its own sysctls,
\* no drop-in, and no rule but what a run of the script that did not end has left:
\* whatever Uninstall ignores the failure of, and wherever it is cut short.
THEOREM NothingLeft == Spec => []NothingWithoutConfig
<1>1. Inv => NothingWithoutConfig
  <2> SUFFICES ASSUME Inv, ~Exists
               PROVE  /\ enabled = {} /\ \A u \in Units : state[u] = "off"
                      /\ ~dropin /\ sysctl = original
                      /\ rules = {} \/ missed
    BY DEF NothingWithoutConfig
  <2>1. enabled = {} /\ \A u \in Units : state[u] = "off"
    BY DEF Inv, UnitsUp
  <2>2. ~dropin /\ sysctl = original
    BY DEF Inv, Sysctls
  <2>3. rules = {} \/ missed
    BY <2>1 DEF Inv, Rules, Units
  <2> QED
    BY <2>1, <2>2, <2>3
<1> QED
  BY <1>1, Always, PTL

\* The rules in the packet filter are rules of the configuration there is, unless a
\* run of the script has missed one: init --force never leaves the port, the
\* network or the mode of the gateway before it open or masqueraded.
THEOREM NoOtherRules == Spec => []OnlyConfigured
<1>1. Inv => OnlyConfigured
  <2> SUFFICES ASSUME Inv, ~missed PROVE rules \subseteq RulesOf(config.c)
    BY DEF OnlyConfigured
  <2>1. CASE state["firewall"] = "off"
    BY <2>1 DEF Inv, Rules
  <2>2. CASE state["firewall"] # "off"
    <3>1. script = config.c
      BY <2>2, ScriptOfUnit DEF Inv, Core
    <3> QED
      BY <3>1 DEF Inv, Rules
  <2> QED
    BY <2>1, <2>2
<1> QED
  BY <1>1, Always, PTL

\* While hamara-firewall.service is active, every rule of the configuration is in
\* the packet filter, unless another program has flushed it since the last run
\* that ended; a repair beside it, or one that is killed, breaks nothing.
THEOREM FirewallStaysInPlace == Spec => []FirewallInPlace
<1>1. Inv => FirewallInPlace
  <2> SUFFICES ASSUME Inv, state["firewall"] = "active", "rules" \notin stale
               PROVE  RulesOf(config.c) \subseteq rules
    BY DEF FirewallInPlace
  <2>1. script = config.c
    BY ScriptOfUnit DEF Inv, Core
  <2> QED
    BY <2>1 DEF Inv, Rules
<1> QED
  BY <1>1, Always, PTL

\* Options that a configuration was made of.
LEMMA OptionsOf ==
  ASSUME NEW c, Configured(c)
  PROVE  \E o \in OptionSet : Acceptable(o) /\ c = ConfigFor(o)
<1>1. PICK o \in Options : Acceptable(o) /\ c = ConfigFor(o)
  BY DEF Configured
<1> QED
  BY <1>1, OptionsAssumption

\* When init builds the offer, a configuration is on disk and its offer passes
\* ValidateOffer: it does not fail with the gateway already running.
THEOREM OfferIsSound == Spec => []OfferSound
<1>1. Inv => OfferSound
  <2> SUFFICES ASSUME Inv, Step("offer") PROVE ValidateOffer(MakeOffer(config.c))
    BY DEF OfferSound
  <2>1. proc.left[1][1] = "offer"
    BY DEF Step
  <2>2. OwedToFiles(proc.left, proc.cfg, 1)
    BY <2>1, AtHead DEF Inv, Core, Promised, Step
  <2>3. Preceding(proc.left, 1) = {}
    BY DEF Preceding
  <2>4. config # NoConfig
    BY <2>1, <2>2, <2>3 DEF OwedToFiles
  <2>5. Configured(config.c)
    BY <2>4, ExistsIs DEF Inv
  <2> QED
    BY <2>5, OptionsOf, OfferIsValid
<1> QED
  BY <1>1, Always, PTL

\* Whatever configuration init has saved, the edge that joins with its offer is the
\* other end of the link: addresses, ports, MTU, certificate check and Xray's
\* source and mark.
THEOREM LinkAgrees == Spec => []LinkEndsAgree
<1>1. Inv => LinkEndsAgree
  <2> SUFFICES ASSUME Inv, Exists PROVE EndsAgree(config.c, JoinConfig(MakeOffer(config.c)))
    BY DEF LinkEndsAgree
  <2>1. Configured(config.c)
    BY ExistsIs DEF Inv
  <2> QED
    BY <2>1, OptionsOf, EndsAlwaysAgree
<1> QED
  BY <1>1, Always, PTL

=============================================================================
