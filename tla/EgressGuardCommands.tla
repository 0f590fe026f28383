------------------------- MODULE EgressGuardCommands -------------------------
(***************************************************************************)
(* What TLAPS proves of the commands of EgressGuard: that a repair puts    *)
(* back, a leak test tells the truth and restarts the link, and an         *)
(* uninstall cleans up.  Any number of sessions may be at work, and        *)
(* commands may have been killed anywhere; each theorem excludes, beside   *)
(* the command it is about, only the commands that undo what it does.      *)
(***************************************************************************)
EXTENDS EgressGuardProofs

----------------------------------------------------------------------------
(***************************************************************************)
(* The invariants.                                                         *)
(***************************************************************************)

\* Beside a session that runs c, none runs a command of D.
NoneBeside(c, D) ==
  \A s, t \in Sessions : s # t /\ sess[s].cmd = c => sess[t].cmd \notin D

\* The commands that ask for a start, and those that ask for a stop.
Starters == {"join", "start", "restart", "repair", "leaktest"}
Stoppers == {"stop", "restart", "leaktest", "uninstall"}

At(s, c, i) == sess[s].cmd = c /\ sess[s].pc = i

\* `hamara repair` runs the script only on an active guard, and nobody has then
\* asked for the guard's stop.
RepairInv ==
  \A s \in Sessions :
    At(s, "repair", 2) => state["guard"] = "active" /\ job["guard"] # "stop"

\* What the script has put back when it has come to a line.
PutBackInv ==
  \A s \in Sessions :
    /\ at[s] > 1 => "unreachable" \in kernel
    /\ at[s] > 4 => "markRule" \in kernel
    /\ at[s] > 5 => "srcRule" \in kernel

\* The device of a link made by wg-quick is there only while its unit has it,
\* and the route through it only while it is.
DeviceInv ==
  Mode # "ipip" =>
    /\ "linkRoute" \in kernel => "iface" \in kernel
    /\ "iface" \in kernel => state["link"] \in {"activating", "active", "deactivating"}
    /\ state["link"] = "activating" /\ at["link"] = 1 => "iface" \notin kernel
    /\ state["link"] = "deactivating" /\ at["link"] > 1 => "iface" \notin kernel

\* While the probes are sent the link is down, and nobody has asked for its start.
ProbesInv ==
  \A s \in Sessions :
    sess[s].cmd = "leaktest" /\ sess[s].pc \in {4, 5} => Down("link") /\ job["link"] # "start"

\* Once the leak test has asked for the link's stop, the units that the deferred
\* start needs are installed.
Stopped(s) == sess[s].cmd = "leaktest" /\ (sess[s].pc > 3 \/ (sess[s].pc = 3 /\ sess[s].waits))

RestartInv == \A s \in Sessions : Stopped(s) => "units" \in files

\* The guard's stop has removed what it has come to, and a stopped guard, as
\* one never started, has left nothing.
GuardGone ==
  /\ state["guard"] = "inactive" => kernel \cap (Policy \cup {"linkRoute"}) = {}
  /\ state["guard"] = "deactivating" =>
       /\ at["guard"] > 4 => "markRule" \notin kernel
       /\ at["guard"] > 5 => "srcRule" \notin kernel
       /\ at["guard"] > 6 => kernel \cap {"unreachable", "linkRoute"} = {}

LinkGone ==
  /\ state["link"] = "inactive" => "iface" \notin kernel
  /\ state["link"] = "deactivating" /\ at["link"] > Len(LinkDown) => "iface" \notin kernel

\* A unit that is down for good: nothing of systemd's will start it.
Over(u) == Down(u) /\ job[u] # "start" /\ u \notin enabled

\* The calls of uninstall before `disable --now` of the link.
Before == IF Mode = "ara" THEN 1 ELSE 0

\* What uninstall has done when it has come to call p.
UninstallDone(p) ==
  /\ p > 1 /\ Mode = "ara" => Over("ara")
  /\ p > Before + 1 => Over("link")
  /\ p > Before + 2 => Over("guard")
  /\ p > Before + 3 => "units" \notin files

\* Without unit files there is nothing for it to do; while it waits for a unit
\* to stop, that unit is already disabled.
UninstallInv ==
  /\ "units" \notin files => \A u \in Units : Over(u)
  /\ \A s \in Sessions : sess[s].cmd = "uninstall" =>
       /\ UninstallDone(sess[s].pc)
       /\ sess[s].waits => CallOf(s).unit \notin enabled

----------------------------------------------------------------------------
(***************************************************************************)
(* The programs, call by call.                                             *)
(***************************************************************************)

LEMMA RepairText ==
  /\ Len(Program["repair"]) = 2
  /\ Program["repair"][1] = Call("enable", "guard", 2, 0)
  /\ Program["repair"][2] = Call("script", "guard", 0, 0)
<1>. DEFINE w == << <<"enable", "guard">>, <<"script", "guard">> >>
<1>1. Program["repair"] = UntilError(w)
  BY DEF Program
<1>2. Len(w) = 2 /\ DOMAIN w = 1 .. 2 /\ w[1] = <<"enable", "guard">> /\ w[2] = <<"script", "guard">>
  OBVIOUS
<1>. HIDE DEF w
<1>3. Len(UntilError(w)) = 2 /\ DOMAIN UntilError(w) = 1 .. 2
  BY <1>2 DEF UntilError
<1>4. \A i \in 1 .. 2 : UntilError(w)[i] = Call(w[i][1], w[i][2], IF i = 2 THEN 0 ELSE i + 1, 0)
  BY <1>2 DEF UntilError
<1>. QED BY <1>1, <1>2, <1>3, <1>4

LEMMA LeakTestText ==
  /\ Len(Program["leaktest"]) = 7
  /\ Program["leaktest"][1] = Call("isActive", "guard", 2, 0)
  /\ Program["leaktest"][2] = Call("baseline", "link", 3, 0)
  /\ Program["leaktest"][3] = Call("stop", "link", 4, 0)
  /\ Program["leaktest"][4] = Call("route", "link", 5, 7)
  /\ Program["leaktest"][5] = Call("escape", "link", 6, 7)
  /\ Program["leaktest"][6] = Call("start", "link", 0, 7)
  /\ Program["leaktest"][7] = Call("start", "link", 0, 0)
BY DEF Program, LeakTestCalls

\* Errors of uninstall are ignored: each call leads to the next.
LEMMA UninstallText ==
  LET p == Program["uninstall"]  n == Before IN
  /\ n \in 0 .. 1 /\ Len(p) = n + 4
  /\ Mode = "ara" => n = 1 /\ p[1] = Call("disable", "ara", 2, 2)
  /\ Mode # "ara" => n = 0
  /\ p[n + 1] = Call("disable", "link", n + 2, n + 2)
  /\ p[n + 2] = Call("disable", "guard", n + 3, n + 3)
  /\ p[n + 3] = Call("remove", "units", n + 4, n + 4)
  /\ p[n + 4] = Call("remove", "config", 0, 0)
<1>. DEFINE w == OnAra("disable") \o << <<"disable", "link">>, <<"disable", "guard">>,
                                         <<"remove", "units">>, <<"remove", "config">> >>
<1>1. Program["uninstall"] = Regardless(w)
  BY DEF Program
<1>2. CASE Mode = "ara"
  <2>. DEFINE a == << <<"disable", "ara">> >>
              z == << <<"disable", "link">>, <<"disable", "guard">>,
                      <<"remove", "units">>, <<"remove", "config">> >>
              any == {"disable", "remove"} \X {"ara", "link", "guard", "units", "config"}
  <2>1. w = a \o z
    BY <1>2 DEF OnAra
  <2>a. /\ a \in Seq(any) /\ Len(a) = 1 /\ a[1] = <<"disable", "ara">>
        /\ z \in Seq(any) /\ Len(z) = 4
        /\ z[1] = <<"disable", "link">> /\ z[2] = <<"disable", "guard">>
        /\ z[3] = <<"remove", "units">> /\ z[4] = <<"remove", "config">>
    OBVIOUS
  <2>. HIDE DEF w, a, z, any
  <2>b. /\ Len(w) = Len(a) + Len(z) /\ w \in Seq(any)
        /\ \A i \in 1 .. Len(a) + Len(z) : w[i] = IF i <= Len(a) THEN a[i] ELSE z[i - Len(a)]
    BY <2>1, <2>a, ConcatProperties
  <2>2. /\ Len(w) = 5 /\ DOMAIN w = 1 .. 5
        /\ w[1] = <<"disable", "ara">> /\ w[2] = <<"disable", "link">>
        /\ w[3] = <<"disable", "guard">> /\ w[4] = <<"remove", "units">>
        /\ w[5] = <<"remove", "config">>
    BY <2>a, <2>b
  <2>3. Len(Regardless(w)) = 5
    BY <2>2 DEF Regardless
  <2>4. \A i \in 1 .. 5 : LET n == IF i = 5 THEN 0 ELSE i + 1
                          IN  Regardless(w)[i] = Call(w[i][1], w[i][2], n, n)
    BY <2>2 DEF Regardless
  <2>. QED BY <1>1, <1>2, <2>2, <2>3, <2>4 DEF Before
<1>3. CASE Mode # "ara"
  <2>1. w = << <<"disable", "link">>, <<"disable", "guard">>,
               <<"remove", "units">>, <<"remove", "config">> >>
    BY <1>3 DEF OnAra
  <2>. HIDE DEF w
  <2>2. /\ Len(w) = 4 /\ DOMAIN w = 1 .. 4
        /\ w[1] = <<"disable", "link">> /\ w[2] = <<"disable", "guard">>
        /\ w[3] = <<"remove", "units">> /\ w[4] = <<"remove", "config">>
    BY <2>1
  <2>3. Len(Regardless(w)) = 4
    BY <2>2 DEF Regardless
  <2>4. \A i \in 1 .. 4 : LET n == IF i = 4 THEN 0 ELSE i + 1
                          IN  Regardless(w)[i] = Call(w[i][1], w[i][2], n, n)
    BY <2>2 DEF Regardless
  <2>. QED BY <1>1, <1>3, <2>2, <2>3, <2>4 DEF Before
<1>. QED BY <1>2, <1>3

\* The calls of a program are among those of S, each a pair of what it does and
\* to what.
OfCalls(p, S) == \A i \in 1 .. Len(p) : <<p[i].do, p[i].unit>> \in S

StartPairs == {"enable", "write"} \X {"guard", "link", "ara", "units", "config"}
StopPairs  == {"stop"} \X {"link", "ara"}

LEMMA UntilErrorOf ==
  ASSUME NEW S \in SUBSET (StartPairs \cup StopPairs), NEW calls \in Seq(S)
  PROVE  OfCalls(UntilError(calls), S)
<1>1. Len(UntilError(calls)) = Len(calls)
  BY DEF UntilError
<1>2. ASSUME NEW i \in 1 .. Len(calls)
      PROVE  <<UntilError(calls)[i].do, UntilError(calls)[i].unit>> \in S
  <2>1. calls[i] \in S
    BY ElementOfSeq
  <2>2. calls[i] = <<calls[i][1], calls[i][2]>>
    BY <2>1 DEF StartPairs, StopPairs
  <2>3. UntilError(calls)[i] =
          Call(calls[i][1], calls[i][2], IF i = Len(calls) THEN 0 ELSE i + 1, 0)
    BY DEF UntilError
  <2>. QED BY <2>1, <2>2, <2>3 DEF Call
<1>. QED BY <1>1, <1>2 DEF OfCalls

LEMMA PlainPrograms ==
  /\ OfCalls(Program["start"], StartPairs) /\ OfCalls(Program["join"], StartPairs)
  /\ OfCalls(Program["stop"], StopPairs)
  /\ OfCalls(Program["restart"], StartPairs \cup StopPairs)
<1>. DEFINE Both == StartPairs \cup StopPairs
<1>1. \A S : \A a, b \in Seq(S) : a \o b \in Seq(S)
  BY ConcatProperties
<1>2. StartCalls \in Seq(StartPairs) /\ StartCalls \in Seq(Both)
  <2>. DEFINE a == << <<"enable", "guard">> >>   o == OnAra("enable")
              z == << <<"enable", "link">> >>
  <2>1. ASSUME NEW S, StartPairs \subseteq S
        PROVE  a \in Seq(S) /\ o \in Seq(S) /\ z \in Seq(S)
    BY <2>1 DEF OnAra, StartPairs
  <2>2. StartCalls = (a \o o) \o z
    BY DEF StartCalls
  <2>3. StartPairs \subseteq Both
    OBVIOUS
  <2>. HIDE DEF a, o, z, Both
  <2>4. ASSUME NEW S, StartPairs \subseteq S PROVE StartCalls \in Seq(S)
    BY <2>1, <2>2, <2>4, <1>1, Zenon
  <2>. QED BY <2>3, <2>4, Zenon
<1>3. StopCalls \in Seq(StopPairs) /\ StopCalls \in Seq(Both)
  <2>. DEFINE l == << <<"stop", "link">> >>   o == OnAra("stop")
  <2>1. ASSUME NEW S, StopPairs \subseteq S PROVE l \in Seq(S) /\ o \in Seq(S)
    BY <2>1 DEF OnAra, StopPairs
  <2>2. StopCalls = l \o o
    BY DEF StopCalls
  <2>3. StopPairs \subseteq Both
    OBVIOUS
  <2>. HIDE DEF l, o, Both
  <2>4. ASSUME NEW S, StopPairs \subseteq S PROVE StopCalls \in Seq(S)
    BY <2>1, <2>2, <2>4, <1>1, Zenon
  <2>. QED BY <2>3, <2>4, Zenon
<1>4. << <<"write", "units">>, <<"write", "config">> >> \in Seq(StartPairs)
  BY DEF StartPairs
<1>5. StopCalls \o StartCalls \in Seq(Both)
  BY <1>1, <1>2, <1>3, Zenon
<1>6. << <<"write", "units">>, <<"write", "config">> >> \o StartCalls \in Seq(StartPairs)
  BY <1>1, <1>2, <1>4, Zenon
<1>7. /\ Program["start"] = UntilError(StartCalls)
      /\ Program["stop"] = UntilError(StopCalls)
      /\ Program["restart"] = UntilError(StopCalls \o StartCalls)
      /\ Program["join"] = UntilError(<< <<"write", "units">>, <<"write", "config">> >> \o StartCalls)
  BY DEF Program
<1>8. {StartPairs, StopPairs, Both} \subseteq SUBSET (StartPairs \cup StopPairs)
  OBVIOUS
<1>. HIDE DEF Both
<1>9. /\ OfCalls(UntilError(StartCalls), StartPairs)
      /\ OfCalls(UntilError(<< <<"write", "units">>, <<"write", "config">> >> \o StartCalls), StartPairs)
      /\ OfCalls(UntilError(StopCalls), StopPairs)
      /\ OfCalls(UntilError(StopCalls \o StartCalls), Both)
  BY <1>2, <1>3, <1>5, <1>6, <1>8, UntilErrorOf
<1>. QED BY <1>7, <1>9 DEF Both

\* The calls that only some commands make.
LEMMA OwnCalls ==
  ASSUME NEW c \in CommandNames, NEW i \in 1 .. Len(Program[c])
  PROVE  LET do == Program[c][i].do IN
         /\ do = "script" => c = "repair" /\ i = 2
         /\ do \in {"route", "escape"} => c = "leaktest"
         /\ do = "remove" => c = "uninstall"
         /\ do = "disable" => c = "uninstall"
         /\ do \in {"enable", "start", "write"} => c \in Starters
         /\ do = "stop" => c \in Stoppers /\ Program[c][i].unit # "guard"
<1>1. CASE c \in {"start", "join"}
  <2>1. <<Program[c][i].do, Program[c][i].unit>> \in StartPairs
    BY <1>1, PlainPrograms DEF OfCalls
  <2>. QED BY <1>1, <2>1 DEF StartPairs, Starters
<1>2. CASE c = "stop"
  <2>1. <<Program[c][i].do, Program[c][i].unit>> \in StopPairs
    BY <1>2, PlainPrograms DEF OfCalls
  <2>. QED BY <1>2, <2>1 DEF StopPairs, Stoppers
<1>3. CASE c = "restart"
  <2>1. <<Program[c][i].do, Program[c][i].unit>> \in StartPairs \cup StopPairs
    BY <1>3, PlainPrograms DEF OfCalls
  <2>. QED BY <1>3, <2>1 DEF StartPairs, StopPairs, Starters, Stoppers
<1>4. CASE c = "repair"
  BY <1>4, RepairText DEF Call, Starters
<1>5. CASE c = "leaktest"
  <2>1. i \in 1 .. 7
    BY <1>5, LeakTestText
  <2>2. i = 1 \/ i = 2 \/ i = 3 \/ i = 4 \/ i = 5 \/ i = 6 \/ i = 7
    BY <2>1
  <2>. QED BY <1>5, <2>2, LeakTestText DEF Call, Starters, Stoppers
<1>6. CASE c = "uninstall"
  <2>1. i \in {1, Before + 1, Before + 2, Before + 3, Before + 4}
    BY <1>6, UninstallText
  <2>. QED BY <1>6, <2>1, UninstallText DEF Call
<1>. QED BY <1>1, <1>2, <1>3, <1>4, <1>5, <1>6 DEF CommandNames

----------------------------------------------------------------------------
(***************************************************************************)
(* How a command goes on.                                                  *)
(***************************************************************************)

\* Where the answer `ok` to its current call takes a session.
Goes(r, ok) == IF ok THEN Program[r.cmd][r.pc].ok ELSE Program[r.cmd][r.pc].fail

LEMMA AdvanceTo ==
  ASSUME NEW r \in SessionType, NEW ok \in BOOLEAN
  PROVE  /\ Goes(r, ok) = 0 => Advance(r, ok) = Idle
         /\ Goes(r, ok) # 0 =>
              /\ Advance(r, ok).cmd = r.cmd /\ Advance(r, ok).pc = Goes(r, ok)
              /\ Advance(r, ok).waits = FALSE
         /\ Advance(r, ok).out = "critical" =>
              \/ r.out = "critical"
              \/ ~ok /\ Program[r.cmd][r.pc].do \in {"route", "escape"}
<1>1. Advance(r, ok) = IF Goes(r, ok) = 0 THEN Idle
        ELSE [r EXCEPT !.pc = Goes(r, ok), !.waits = FALSE,
                       !.out = IF ~ok /\ Program[r.cmd][r.pc].do \in {"route", "escape"}
                               THEN "critical" ELSE @]
  BY DEF Advance, Goes
<1>. QED BY <1>1 DEF SessionType, Idle

LEMMA IdleFields == Idle.cmd = "none" /\ Idle.pc = 0 /\ Idle.waits = FALSE /\ Idle.out = "none"
BY DEF Idle

\* Where a session is, and what its call is.
LEMMA AtACall ==
  ASSUME TypeInv, NEW s \in Sessions
  PROVE  /\ sess[s] \in SessionType
         /\ sess[s].pc # 0 => /\ sess[s].cmd \in CommandNames
                              /\ sess[s].pc \in 1 .. Len(Program[sess[s].cmd])
         /\ sess[s].waits => sess[s].pc # 0
         /\ CallOf(s) = Program[sess[s].cmd][sess[s].pc]
BY DEF TypeInv, SessionsInv, GoodSession, CallOf

\* A session whose command goes on after an answer: it is the same command, at
\* the call the answer leads to.
LEMMA GoesOn ==
  ASSUME TypeInv, NEW s \in Sessions, NEW ok \in BOOLEAN,
         sess'[s] = Advance(sess[s], ok), sess'[s].cmd # "none"
  PROVE  /\ sess'[s].cmd = sess[s].cmd /\ ~sess'[s].waits
         /\ sess'[s].pc = Goes(sess[s], ok) /\ Goes(sess[s], ok) # 0
<1>1. sess[s] \in SessionType
  BY AtACall
<1>2. Goes(sess[s], ok) # 0
  <2>1. Goes(sess[s], ok) = 0 => sess'[s] = Idle
    BY <1>1, AdvanceTo
  <2>. QED BY <2>1, IdleFields
<1>3. /\ Advance(sess[s], ok).cmd = sess[s].cmd
      /\ Advance(sess[s], ok).pc = Goes(sess[s], ok)
      /\ Advance(sess[s], ok).waits = FALSE
  BY <1>1, <1>2, AdvanceTo
<1>. QED BY <1>2, <1>3

\* One whose command ends there.
LEMMA GoesHome ==
  ASSUME TypeInv, NEW s \in Sessions, NEW ok \in BOOLEAN,
         sess'[s] = Advance(sess[s], ok), sess'[s].pc = 0
  PROVE  Goes(sess[s], ok) = 0
<1>1. sess[s] \in SessionType
  BY AtACall
<1>2. Goes(sess[s], ok) # 0 => sess'[s].pc = Goes(sess[s], ok)
  BY <1>1, AdvanceTo
<1>. QED BY <1>2

\* Only a probe of the leak test that found a route ends in "critical".
LEMMA GoesCritical ==
  ASSUME TypeInv, NEW s \in Sessions, NEW ok \in BOOLEAN,
         sess'[s] = Advance(sess[s], ok), sess'[s].out = "critical",
         sess[s].out # "critical"
  PROVE  ~ok /\ CallOf(s).do \in {"route", "escape"}
<1>1. sess[s] \in SessionType /\ CallOf(s) = Program[sess[s].cmd][sess[s].pc]
  BY AtACall
<1>2. Advance(sess[s], ok).out = "critical"
  OBVIOUS
<1>3. ~ok /\ Program[sess[s].cmd][sess[s].pc].do \in {"route", "escape"}
  BY <1>1, <1>2, AdvanceTo
<1>. QED BY <1>1, <1>3

\* Only a repair that is at its second call runs a script.
LEMMA OnlyRepairs ==
  ASSUME TypeInv, NEW s \in Sessions, at[s] # 0
  PROVE  At(s, "repair", 2)
<1>1. RunsScript(s)
  BY DEF TypeInv, ScriptsInv
<1>. QED BY <1>1, AtACall, OwnCalls DEF RunsScript, At

----------------------------------------------------------------------------
(***************************************************************************)
(* What a step of one session does to the others.                          *)
(***************************************************************************)

LEMMA SessionEffect ==
  ASSUME TypeInv, NEW t \in Sessions, Invoke(t) \/ SessionStep(t) \/ Kill(t)
  PROVE  /\ state' = state
         /\ AskSystemd(t) \/ UNCHANGED <<job, enabled>>
         /\ EditFiles(t) \/ files' = files
         /\ RunLine(t) \/ kernel' = kernel
         /\ \A c \in (Units \cup Sessions) \ {t} : at'[c] = at[c]
<1>0. at \in [Units \cup Sessions -> 0 .. 9] /\ t \notin Units
  BY UnitsAndSessions DEF TypeInv, TypeOK
<1>. QED BY <1>0 DEF Invoke, SessionStep, Kill, AskSystemd, Request, RunScript, Missing, EditFiles,
                     Check, RunLine, SkipLine, FailLine, RepairScriptEnds

\* Another session notices it only when its own request is replaced.
LEMMA OthersEffect ==
  ASSUME TypeInv, NEW t \in Sessions, Invoke(t) \/ SessionStep(t) \/ Kill(t),
         NEW s \in Sessions, s # t, sess'[s] # sess[s]
  PROVE  /\ AskSystemd(t) /\ sess[s].waits /\ sess'[s] = Advance(sess[s], FALSE)
         /\ CallOf(s).do \in DOMAIN JobOf /\ JobOf[CallOf(s).do] # JobOf[CallOf(t).do]
<1>0. sess \in [Sessions -> SessionType] /\ t \notin Units
  BY UnitsAndSessions DEF TypeInv, TypeOK, SessionType
<1>1. AskSystemd(t)
  <2>1. CASE Invoke(t) \/ Kill(t)
    BY <1>0, <2>1 DEF Invoke, Kill
  <2>2. CASE RunScript(t) \/ Missing(t) \/ EditFiles(t) \/ Check(t)
    BY <1>0, <2>2 DEF RunScript, Missing, EditFiles, Check
  <2>3. CASE RunLine(t) \/ SkipLine(t) \/ FailLine(t) \/ RepairScriptEnds(t)
    BY <1>0, <2>3 DEF RunLine, SkipLine, FailLine, RepairScriptEnds
  <2>. QED BY <2>1, <2>2, <2>3 DEF SessionStep
<1>. DEFINE u == CallOf(t).unit   j == JobOf[CallOf(t).do]
<1>2. /\ sess'[s] = Advance(sess[s], FALSE)
      /\ \E k \in Cancelled(u, j) : WaitsFor(s, k[1], k[2])
  BY <1>1 DEF AskSystemd, Request
<1>3. PICK v \in Pulled(u, j) : job[v] # j /\ WaitsFor(s, v, job[v])
  BY <1>2 DEF Cancelled
<1>. QED BY <1>1, <1>2, <1>3 DEF WaitsFor

\* What the commands ask systemd for.
LEMMA Asks ==
  ASSUME TypeInv, NEW s \in Sessions, sess[s].pc # 0, CallOf(s).do \in DOMAIN JobOf
  PROVE  LET c == CallOf(s) IN
         /\ JobOf[c.do] = "start" => sess[s].cmd \in Starters
         /\ JobOf[c.do] = "stop" => sess[s].cmd \in Stoppers
         /\ JobOf[c.do] = "stop" /\ c.unit = "guard" => sess[s].cmd = "uninstall"
         /\ c.do = "enable" => sess[s].cmd \in Starters
<1>1. /\ sess[s].cmd \in CommandNames /\ sess[s].pc \in 1 .. Len(Program[sess[s].cmd])
      /\ CallOf(s) = Program[sess[s].cmd][sess[s].pc]
  BY AtACall
<1>2. /\ CallOf(s).do = "disable" => sess[s].cmd = "uninstall"
      /\ CallOf(s).do \in {"enable", "start"} => sess[s].cmd \in Starters
      /\ CallOf(s).do = "stop" => sess[s].cmd \in Stoppers /\ CallOf(s).unit # "guard"
  BY <1>1, OwnCalls
<1>. QED BY <1>2 DEF JobOf, Stoppers

LEMMA Asked ==
  ASSUME TypeInv, NEW t \in Sessions, AskSystemd(t), NEW v \in Units
  PROVE  /\ job'[v] = "start" => job[v] = "start" \/ sess[t].cmd \in Starters
         /\ job'[v] = "stop" => job[v] = "stop" \/ sess[t].cmd \in Stoppers
         /\ job'["guard"] = "stop" => job["guard"] = "stop" \/ sess[t].cmd = "uninstall"
         /\ v \in enabled' => v \in enabled \/ sess[t].cmd \in Starters
<1>. DEFINE u == CallOf(t).unit   j == JobOf[CallOf(t).do]
<1>0. sess[t].pc # 0 /\ CallOf(t).do \in DOMAIN JobOf
  BY DEF AskSystemd, AtCall
<1>1. \A w \in Units : job'[w] = IF w \in Pulled(u, j) THEN j ELSE job[w]
  BY DEF AskSystemd, Request
<1>2. "guard" \in Pulled(u, "stop") => u = "guard"
  BY DEF Pulled
<1>3. v \in enabled' => v \in enabled \/ CallOf(t).do = "enable"
  BY DEF AskSystemd
<1>. HIDE DEF u
<1>4. /\ j = "start" => sess[t].cmd \in Starters
      /\ j = "stop" => sess[t].cmd \in Stoppers
      /\ j = "stop" /\ u = "guard" => sess[t].cmd = "uninstall"
      /\ CallOf(t).do = "enable" => sess[t].cmd \in Starters
  BY <1>0, Asks DEF u
<1>. HIDE DEF j
<1>. QED BY <1>1, <1>2, <1>3, <1>4, GuardAndLink

\* What systemd's answer to a session says of the unit it asked for.
LEMMA Answered ==
  ASSUME TypeInv, NEW u \in Units, UnitStep(u), NEW s \in Sessions, sess'[s] # sess[s]
  PROVE  LET c == CallOf(s) IN
         /\ sess[s].waits /\ c.do \in DOMAIN JobOf
         /\ \E ok \in BOOLEAN :
              /\ sess'[s] = Advance(sess[s], ok)
              /\ ok => /\ c.unit = u /\ job'[u] = "none"
                       /\ state'[u] \in IF JobOf[c.do] = "start" THEN {"active"}
                                        ELSE {"inactive", "failed"}
              /\ ~ok => /\ JobOf[c.do] = "start" /\ state'[u] = "failed"
                        /\ c.unit = u \/ u = "guard"
<1>. DEFINE c == CallOf(s)
            Right == \E ok \in BOOLEAN :
              /\ sess'[s] = Advance(sess[s], ok)
              /\ ok => /\ c.unit = u /\ job'[u] = "none"
                       /\ state'[u] \in IF JobOf[c.do] = "start" THEN {"active"}
                                        ELSE {"inactive", "failed"}
              /\ ~ok => /\ JobOf[c.do] = "start" /\ state'[u] = "failed"
                        /\ c.unit = u \/ u = "guard"
<1>0. /\ UnitsInv /\ job \in [Units -> {"none", "start", "stop"}]
      /\ state \in [Units -> States]
      /\ at \in [Units \cup Sessions -> 0 .. 9] /\ u \notin Sessions
  BY UnitsAndSessions DEF TypeInv, TypeOK, States
<1>t. ASSUME NEW done, NEW refused, Tell(done, refused)
      PROVE  \/ /\ \E j \in done : WaitsFor(s, j[1], j[2])
                /\ sess'[s] = Advance(sess[s], TRUE)
             \/ /\ \E j \in refused : WaitsFor(s, j[1], j[2])
                /\ sess'[s] = Advance(sess[s], FALSE)
  BY <1>t DEF Tell
<1>d. ASSUME NEW done, Tell(done, {})
      PROVE  \E j \in done : WaitsFor(s, j[1], j[2]) /\ sess'[s] = Advance(sess[s], TRUE)
  <2>1. ~\E j \in {} : WaitsFor(s, j[1], j[2])
    OBVIOUS
  <2>2. \/ (\E j \in done : WaitsFor(s, j[1], j[2])) /\ sess'[s] = Advance(sess[s], TRUE)
        \/ (\E j \in {} : WaitsFor(s, j[1], j[2])) /\ sess'[s] = Advance(sess[s], FALSE)
    BY <1>d, <1>t, Zenon
  <2>. QED BY <2>1, <2>2
<1>w. ASSUME NEW v, NEW j, WaitsFor(s, v, j)
      PROVE  sess[s].waits /\ c.do \in DOMAIN JobOf /\ c.unit = v /\ JobOf[c.do] = j
  BY <1>w DEF WaitsFor
<1>f. ASSUME UnitFails(u), Busy(u)
      PROVE  sess[s].waits /\ c.do \in DOMAIN JobOf /\ Right
  <2>. DEFINE failing == {v \in Units : /\ job[v] = "start" /\ state[u] = "activating"
                                        /\ v = u \/ (u = "guard" /\ v = "link")}
              done == {v \in {u} : job[v] = "stop"}
  <2>1. /\ Tell({<<v, "stop">> : v \in done}, {<<v, "start">> : v \in failing})
        /\ job' = [v \in Units |-> IF v \in failing \cup done THEN "none" ELSE job[v]]
        /\ state' = [state EXCEPT ![u] = "failed"]
    BY <1>f DEF UnitFails
  <2>2. state'[u] = "failed"
    BY <1>0, <2>1
  <2>3. CASE (\E j \in {<<v, "stop">> : v \in done} : WaitsFor(s, j[1], j[2]))
                /\ sess'[s] = Advance(sess[s], TRUE)
    <3>1. WaitsFor(s, u, "stop") /\ job[u] = "stop" /\ sess'[s] = Advance(sess[s], TRUE)
      BY <2>3
    <3>2. job'[u] = "none"
      BY <2>1, <3>1
    <3>. QED BY <1>w, <2>2, <3>1, <3>2
  <2>4. CASE (\E j \in {<<v, "start">> : v \in failing} : WaitsFor(s, j[1], j[2]))
                /\ sess'[s] = Advance(sess[s], FALSE)
    <3>1. PICK v \in failing : WaitsFor(s, v, "start") /\ sess'[s] = Advance(sess[s], FALSE)
      BY <2>4
    <3>. QED BY <1>w, <2>2, <3>1
  <2>5. \/ (\E j \in {<<v, "stop">> : v \in done} : WaitsFor(s, j[1], j[2]))
                /\ sess'[s] = Advance(sess[s], TRUE)
        \/ (\E j \in {<<v, "start">> : v \in failing} : WaitsFor(s, j[1], j[2]))
                /\ sess'[s] = Advance(sess[s], FALSE)
    BY <2>1, <1>t, Zenon
  <2>. QED BY <2>3, <2>4, <2>5
<1>1. CASE NothingToDo(u)
  <2>1. /\ Tell({<<u, job[u]>>}, {}) /\ job' = [job EXCEPT ![u] = "none"] /\ state' = state
        /\ \/ job[u] = "start" /\ state[u] = "active"
           \/ job[u] = "stop" /\ Down(u)
    BY <1>1 DEF NothingToDo
  <2>a. PICK j \in {<<u, job[u]>>} : WaitsFor(s, j[1], j[2]) /\ sess'[s] = Advance(sess[s], TRUE)
    BY <2>1, <1>d, Zenon
  <2>2. WaitsFor(s, u, job[u]) /\ sess'[s] = Advance(sess[s], TRUE)
    BY <2>a
  <2>. QED BY <1>0, <1>w, <2>1, <2>2 DEF Down
<1>2. CASE BeginStart(u) \/ BeginStop(u) \/ RunLine(u) \/ SkipLine(u)
  BY <1>2 DEF BeginStart, BeginStop, RunLine, SkipLine
<1>3. CASE AbortStart(u)
  BY <1>3, <1>f DEF AbortStart, Busy
<1>4. CASE FailLine(u)
  <2>1. at[u] # 0 /\ UnitFails(u)
    BY <1>0, <1>4, ScriptLength DEF FailLine, Running
  <2>. QED BY <1>0, <2>1, <1>f DEF UnitsInv
<1>5. CASE UnitSettles(u)
  <2>. DEFINE reached == IF state[u] = "activating" THEN "start" ELSE "stop"
  <2>1. at[u] # 0
    BY <1>5, ScriptLength DEF UnitSettles
  <2>2. Busy(u)
    BY <1>0, <2>1 DEF UnitsInv
  <2>3. /\ Tell({<<u, reached>>} \cap {<<u, job[u]>>}, {})
        /\ state' = [state EXCEPT ![u] = IF @ = "activating" THEN "active" ELSE "inactive"]
        /\ job' = [job EXCEPT ![u] = IF @ = reached THEN "none" ELSE @]
    BY <1>5 DEF UnitSettles
  <2>a. PICK j \in {<<u, reached>>} \cap {<<u, job[u]>>} :
          WaitsFor(s, j[1], j[2]) /\ sess'[s] = Advance(sess[s], TRUE)
    BY <2>3, <1>d, Zenon
  <2>b. j = <<u, reached>> /\ job[u] = reached
    BY <2>a
  <2>4. WaitsFor(s, u, reached) /\ job[u] = reached /\ sess'[s] = Advance(sess[s], TRUE)
    BY <2>a, <2>b
  <2>5. job'[u] = "none"
    BY <1>0, <2>3, <2>4
  <2>6. state'[u] = IF state[u] = "activating" THEN "active" ELSE "inactive"
    BY <1>0, <2>3
  <2>. QED BY <1>w, <2>4, <2>5, <2>6 DEF Busy
<1>. QED BY <1>1, <1>2, <1>3, <1>4, <1>5 DEF UnitStep

----------------------------------------------------------------------------
(***************************************************************************)
(* A repair puts back.                                                     *)
(***************************************************************************)

LEMMA RepairUnit ==
  ASSUME TypeInv, RepairInv, NEW u \in Units, UnitStep(u)
  PROVE  RepairInv'
<1>. USE GuardAndLink
<1>. SUFFICES ASSUME NEW s \in Sessions, At(s, "repair", 2)'
              PROVE  state'["guard"] = "active" /\ job'["guard"] # "stop"
  BY DEF RepairInv
<1>0. state \in [Units -> States]
  BY DEF TypeInv, TypeOK, States
<1>1. CASE sess'[s] = sess[s]
  <2>1. state["guard"] = "active" /\ job["guard"] # "stop"
    BY <1>1 DEF RepairInv, At
  <2>. QED BY <1>0, <2>1, UnitEffect DEF Down, Busy
<1>2. CASE sess'[s] # sess[s]
  <2>1. PICK ok \in BOOLEAN :
          /\ sess'[s] = Advance(sess[s], ok)
          /\ ok => /\ CallOf(s).unit = u /\ job'[u] = "none"
                   /\ state'[u] \in IF JobOf[CallOf(s).do] = "start" THEN {"active"}
                                    ELSE {"inactive", "failed"}
    BY <1>2, Answered
  <2>2. sess[s].waits /\ sess[s].pc # 0
    BY <1>2, Answered, AtACall
  <2>3. sess[s].cmd = "repair" /\ Goes(sess[s], ok) = 2
    BY <2>1, GoesOn DEF At
  <2>4. sess[s].pc = 1 /\ ok
    BY <2>2, <2>3, AtACall, RepairText DEF Goes, Call
  <2>5. CallOf(s).do = "enable" /\ CallOf(s).unit = "guard"
    BY <2>3, <2>4, AtACall, RepairText DEF Call
  <2>. QED BY <2>1, <2>4, <2>5 DEF JobOf
<1>. QED BY <1>1, <1>2

\* Neither the repair itself nor a session that does not uninstall moves the guard.
LEMMA RepairSession ==
  ASSUME NoneBeside("repair", {"uninstall"}), TypeInv, RepairInv,
         NEW t \in Sessions, Invoke(t) \/ SessionStep(t) \/ Kill(t)
  PROVE  RepairInv'
<1>. SUFFICES ASSUME NEW s \in Sessions, At(s, "repair", 2)'
              PROVE  state'["guard"] = "active" /\ job'["guard"] # "stop"
  BY DEF RepairInv
<1>. USE GuardAndLink
<1>0. /\ sess \in [Sessions -> SessionType] /\ s \notin Units
  BY UnitsAndSessions DEF TypeInv, TypeOK, SessionType
<1>a. ASSUME NEW ok \in BOOLEAN, sess'[s] = Advance(sess[s], ok), sess[s].pc # 0
      PROVE  At(s, "repair", 1) /\ ok
  <2>1. sess[s].cmd = "repair" /\ Goes(sess[s], ok) = 2
    BY <1>a, GoesOn DEF At
  <2>. QED BY <1>a, <2>1, AtACall, RepairText DEF Goes, Call, At
<1>q. ASSUME At(s, "repair", 2), state' = state,
             job'["guard"] = "stop" => job["guard"] = "stop"
      PROVE  state'["guard"] = "active" /\ job'["guard"] # "stop"
  BY <1>q DEF RepairInv
<1>1. CASE t # s
  <2>1. sess'[s] = sess[s]
    <3>1. SUFFICES ASSUME sess'[s] # sess[s] PROVE FALSE
      OBVIOUS
    <3>2. sess[s].waits /\ sess'[s] = Advance(sess[s], FALSE)
      BY <1>1, <3>1, OthersEffect
    <3>. QED BY <3>2, <1>a, AtACall
  <2>2. At(s, "repair", 2) /\ state' = state
    BY <2>1, SessionEffect DEF At
  <2>3. job'["guard"] = "stop" => job["guard"] = "stop"
    <3>1. sess[t].cmd # "uninstall"
      BY <1>1, <2>2 DEF NoneBeside, At
    <3>. QED BY <3>1, SessionEffect, Asked
  <2>. QED BY <2>2, <2>3, <1>q
<1>2. CASE t = s
  <2>1. CASE Invoke(s)
    BY <1>0, <2>1 DEF Invoke, Begun, At
  <2>2. CASE AskSystemd(s)
    <3>1. sess'[s] = [sess[s] EXCEPT !.waits = TRUE]
      BY <2>2 DEF AskSystemd, Request
    <3>2. At(s, "repair", 2)
      BY <1>0, <3>1 DEF At, SessionType
    <3>. QED BY <2>2, <3>2, AtACall, RepairText DEF AskSystemd, AtCall, At, Call, JobOf
  <2>3. CASE RunScript(s)
    <3>1. At(s, "repair", 2)
      BY <1>0, <2>3 DEF RunScript, SessionType, At
    <3>. QED BY <2>3, <3>1, <1>q DEF RunScript
  <2>4. CASE Missing(s)
    <3>1. sess'[s] = Advance(sess[s], FALSE) /\ sess[s].pc # 0
      BY <1>0, <2>4 DEF Missing, AtCall
    <3>. QED BY <3>1, <1>a
  <2>5. CASE EditFiles(s)
    <3>1. sess'[s] = Advance(sess[s], TRUE) /\ sess[s].pc # 0
      BY <1>0, <2>5 DEF EditFiles, AtCall
    <3>2. At(s, "repair", 1)
      BY <3>1, <1>a
    <3>. QED BY <2>5, <3>2, AtACall, RepairText DEF EditFiles, At, Call
  <2>6. CASE Check(s)
    <3>1. CallOf(s).do \in {"isActive", "baseline", "route", "escape"} /\ sess[s].pc # 0
      BY <2>6 DEF Check, AtCall
    <3>2. PICK ok \in Answers(CallOf(s).do) : sess' = [sess EXCEPT ![s] = Advance(@, ok)]
      BY <2>6 DEF Check
    <3>3. ok \in BOOLEAN /\ sess'[s] = Advance(sess[s], ok)
      BY <1>0, <3>1, <3>2 DEF Answers
    <3>4. At(s, "repair", 1)
      BY <3>1, <3>3, <1>a
    <3>. QED BY <3>1, <3>4, AtACall, RepairText DEF At, Call
  <2>7. CASE RunLine(s) \/ SkipLine(s)
    <3>1. At(s, "repair", 2) /\ state' = state /\ job' = job
      BY <2>7 DEF RunLine, SkipLine, At
    <3>. QED BY <3>1, <1>q
  <2>8. CASE FailLine(s) \/ RepairScriptEnds(s)
    <3>a. FailLine(s) => at[s] # 0
      BY ScriptLength DEF FailLine, Running
    <3>b. RepairScriptEnds(s) => at[s] # 0
      BY GuardUpLines DEF RepairScriptEnds
    <3>1. At(s, "repair", 2)
      BY <2>8, <3>a, <3>b, OnlyRepairs
    <3>2. PICK ok \in BOOLEAN : sess'[s] = Advance(sess[s], ok)
      BY <1>0, <2>8 DEF FailLine, RepairScriptEnds
    <3>3. At(s, "repair", 1)
      BY <3>1, <3>2, <1>a DEF At
    <3>. QED BY <3>1, <3>3 DEF At
  <2>9. CASE Kill(s)
    BY <1>0, <2>9, IdleFields DEF Kill, At
  <2>. QED BY <1>2, <2>1, <2>2, <2>3, <2>4, <2>5, <2>6, <2>7, <2>8, <2>9 DEF SessionStep
<1>. QED BY <1>1, <1>2

LEMMA RepairNext ==
  ASSUME NoneBeside("repair", {"uninstall"}), TypeInv, RepairInv, [Next]_vars
  PROVE  RepairInv'
<1>1. ASSUME Environment PROVE RepairInv'
  BY <1>1, IdleFields DEF Environment, Reboot, FirewallReload, LinkLost, RepairInv, At
<1>2. ASSUME UNCHANGED vars PROVE RepairInv'
  BY <1>2 DEF vars, RepairInv, At
<1>. QED BY <1>1, <1>2, RepairUnit, RepairSession DEF Next

\* While a repair runs the script the guard runs none.
LEMMA RepairAlone ==
  ASSUME TypeInv, RepairInv, NEW s \in Sessions, at[s] # 0
  PROVE  state["guard"] = "active" /\ at["guard"] = 0
<1>1. state["guard"] = "active"
  BY OnlyRepairs DEF RepairInv
<1>. QED BY <1>1, GuardAndLink DEF TypeInv, UnitsInv, Busy

\* The steps of a unit that change the kernel.
LEMMA KernelOf ==
  ASSUME TypeInv, NEW u \in Units, UnitStep(u), kernel' # kernel
  PROVE  \/ RunLine(u)
         \/ /\ u = "link" /\ Mode # "ipip"
            /\ state["link"] = "activating" /\ at["link"] > 1
            /\ kernel' = kernel \ {"iface", "linkRoute"}
            /\ state' = [state EXCEPT !["link"] = "failed"]
<1>1. CASE AbortStart(u) \/ FailLine(u)
  <2>1. u \notin Sessions
    BY UnitsAndSessions
  <2>2. UnitFails(u)
    BY <1>1, <2>1 DEF AbortStart, FailLine
  <2>. QED BY <2>2 DEF UnitFails, Undone
<1>2. CASE ~(AbortStart(u) \/ FailLine(u))
  BY <1>2 DEF UnitStep, NothingToDo, BeginStart, BeginStop, SkipLine, UnitSettles
<1>. QED BY <1>1, <1>2

\* Units other than the guard edit the link's device and route only.
LEMMA LinkLines ==
  ASSUME NEW u \in Units \ {"guard"}, RunLine(u)
  PROVE  /\ u = "link"
         /\ kernel' \cap (Policy \cup Rejects) = kernel \cap (Policy \cup Rejects)
<1>1. u \notin Sessions
  BY UnitsAndSessions
<1>2. Running(u) /\ kernel' = Effect(kernel, Script(u)[at[u]])
  BY DEF RunLine
<1>3. u = "link"
  <2>1. u = "ara" => Script(u) = << >>
    BY <1>1 DEF Script
  <2>2. Script(u) = << >> => FALSE
    <3>1. ASSUME Script(u) = << >> PROVE FALSE
      <4>1. at[u] \in 1 .. Len(<< >>) /\ Len(<< >>) = 0
        BY <1>2, <3>1 DEF Running
      <4>. QED BY <4>1
    <3>. QED BY <3>1
  <2>. QED BY <2>1, <2>2 DEF Units
<1>4. Script(u) \in Seq(LinkLine)
  <2>1. Script(u) \in {LinkUp, LinkDown}
    BY <1>1, <1>3 DEF Script
  <2>. QED BY <2>1, ScriptTypes, Zenon
<1>5. Script(u)[at[u]] \in LinkLine
  BY <1>2, <1>4, ElementOfSeq DEF Running
<1>. QED BY <1>2, <1>3, <1>5, LinkLineEffect

\* An active guard runs no script: no unit edits the policy under it.
LEMMA PolicyKept ==
  ASSUME TypeInv, NEW u \in Units, UnitStep(u), at["guard"] = 0
  PROVE  kernel \cap Policy \subseteq kernel'
<1>1. ASSUME RunLine(u) PROVE kernel \cap Policy \subseteq kernel'
  <2>1. u # "guard"
    BY <1>1, ScriptLength DEF RunLine, Running
  <2>. QED BY <1>1, <2>1, LinkLines
<1>. QED BY <1>1, KernelOf DEF Policy

LEMMA PutBackNext ==
  ASSUME NoneBeside("repair", {"repair", "uninstall"}), TypeInv, RepairInv, PutBackInv, [Next]_vars
  PROVE  PutBackInv'
<1>. USE GuardAndLink
<1>0. at \in [Units \cup Sessions -> 0 .. 9]
  BY DEF TypeInv, TypeOK
<1>k. ASSUME NEW s \in Sessions, at'[s] = at[s], at[s] > 1 => kernel \cap Policy \subseteq kernel'
      PROVE  /\ at'[s] > 1 => "unreachable" \in kernel'
             /\ at'[s] > 4 => "markRule" \in kernel'
             /\ at'[s] > 5 => "srcRule" \in kernel'
  <2>1. at[s] \in 0 .. 9
    BY <1>0
  <2>. QED BY <1>k, <2>1 DEF PutBackInv, Policy
<1>1. ASSUME NEW u \in Units, UnitStep(u) PROVE PutBackInv'
  <2>1. ASSUME NEW s \in Sessions, at[s] > 1 PROVE kernel \cap Policy \subseteq kernel'
    BY <1>0, <1>1, <2>1, RepairAlone, PolicyKept
  <2>2. \A s \in Sessions : at'[s] = at[s]
    BY <1>1, UnitEffect
  <2>. QED BY <1>k, <2>1, <2>2 DEF PutBackInv
<1>2. ASSUME NEW s \in Sessions, Invoke(s) \/ SessionStep(s) \/ Kill(s) PROVE PutBackInv'
  <2>o. ASSUME NEW r \in Sessions \ {s}
        PROVE  /\ at'[r] > 1 => "unreachable" \in kernel'
               /\ at'[r] > 4 => "markRule" \in kernel'
               /\ at'[r] > 5 => "srcRule" \in kernel'
    <3>1. at'[r] = at[r]
      BY <1>2, SessionEffect
    <3>2. ASSUME at[r] > 1 PROVE ~RunLine(s)
      <4>1. At(r, "repair", 2)
        BY <1>0, <3>2, OnlyRepairs
      <4>2. RunLine(s) => at[s] # 0
        BY ScriptLength DEF RunLine, Running
      <4>. QED BY <4>1, <4>2, OnlyRepairs DEF NoneBeside, At
    <3>3. at[r] > 1 => kernel \cap Policy \subseteq kernel'
      BY <1>2, <3>2, SessionEffect
    <3>. QED BY <1>k, <3>1, <3>3
  <2>. SUFFICES /\ at'[s] > 1 => "unreachable" \in kernel'
                /\ at'[s] > 4 => "markRule" \in kernel'
                /\ at'[s] > 5 => "srcRule" \in kernel'
    BY <2>o DEF PutBackInv
  <2>0. s \notin Units
    BY UnitsAndSessions
  <2>1. CASE RunLine(s)
    <3>1. Script(s) = GuardUp
      BY DEF Script
    <3>2. at[s] \in 1 .. 8 /\ kernel' = Effect(kernel, GuardUp[at[s]]) /\ at'[s] = at[s] + 1
      BY <1>0, <2>1, <3>1, GuardUpLines DEF RunLine, Running
    <3>3. /\ "unreachable" \in kernel' <=> at[s] = 1 \/ "unreachable" \in kernel
          /\ "markRule" \in kernel' <=> at[s] = 4 \/ (at[s] # 2 /\ "markRule" \in kernel)
          /\ "srcRule" \in kernel' <=> at[s] = 5 \/ (at[s] # 3 /\ "srcRule" \in kernel)
      BY <3>2, LineKeeps
    <3>. QED BY <3>2, <3>3 DEF PutBackInv
  <2>2. CASE SkipLine(s)
    <3>1. Script(s) = GuardUp
      BY DEF Script
    <3>. QED BY <2>2, <3>1, GuardUpLines, GuardUpNotSkipped DEF SkipLine, Running
  <2>3. CASE Invoke(s) \/ AskSystemd(s) \/ Missing(s) \/ EditFiles(s) \/ Check(s)
    <3>1. at' = at /\ kernel' = kernel
      BY <2>3 DEF Invoke, AskSystemd, Missing, EditFiles, Check
    <3>. QED BY <1>k, <3>1
  <2>4. CASE RunScript(s) \/ FailLine(s) \/ RepairScriptEnds(s) \/ Kill(s)
    <3>1. at'[s] = 0 \/ at'[s] = 1
      BY <1>0, <2>0, <2>4 DEF RunScript, FailLine, RepairScriptEnds, Kill
    <3>. QED BY <3>1
  <2>. QED BY <1>2, <2>1, <2>2, <2>3, <2>4 DEF SessionStep
<1>3. ASSUME Environment PROVE PutBackInv'
  <2>1. CASE Reboot
    BY <2>1 DEF Reboot, PutBackInv
  <2>2. CASE FirewallReload \/ LinkLost
    <3>1. at' = at /\ kernel \cap Policy \subseteq kernel'
      BY <2>2 DEF FirewallReload, LinkLost, Policy, Rejects
    <3>. QED BY <1>k, <3>1 DEF PutBackInv
  <2>. QED BY <1>3, <2>1, <2>2 DEF Environment
<1>4. ASSUME UNCHANGED vars PROVE PutBackInv'
  BY <1>4 DEF vars, PutBackInv
<1>. QED BY <1>1, <1>2, <1>3, <1>4 DEF Next

Undisturbed == TypeInv /\ RepairInv /\ PutBackInv

LEMMA UndisturbedInit == Init => Undisturbed
BY TypeInit, IdleFields, GuardAndLink DEF Init, Undisturbed, RepairInv, PutBackInv, At

LEMMA UndisturbedNext ==
  ASSUME NoneBeside("repair", {"repair", "uninstall"}), Undisturbed, [Next]_vars
  PROVE  Undisturbed'
<1>1. NoneBeside("repair", {"uninstall"})
  BY DEF NoneBeside
<1>. QED BY <1>1, TypeNext, RepairNext, PutBackNext DEF Undisturbed

\* A repair of an active guard that ends well has put back every policy rule,
\* whatever was cut short before it, in every mode and with every fault, also
\* while other sessions start, stop, restart, test or join: the only thing it
\* needs is that none of them repairs or uninstalls.
\* (app.go RepairGuards; render.go GuardScript up.)
THEOREM RepairsRestore ==
  Spec /\ []NoneBeside("repair", {"repair", "uninstall"}) => RepairRestores
<1>1. Undisturbed => \A s \in Sessions : RepairScriptEnds(s) => Policy \subseteq kernel
  <2>. SUFFICES ASSUME Undisturbed, NEW s \in Sessions, RepairScriptEnds(s)
                PROVE  Policy \subseteq kernel
    OBVIOUS
  <2>1. at[s] = 9
    BY GuardUpLines DEF RepairScriptEnds
  <2>. QED BY <2>1 DEF Undisturbed, PutBackInv, Policy
<1>2. /\ NoneBeside("repair", {"repair", "uninstall"})
      /\ Undisturbed /\ [Next]_vars
      => Undisturbed'
  BY UndisturbedNext
<1>. QED BY <1>1, <1>2, UndisturbedInit, PTL DEF Spec, RepairRestores

----------------------------------------------------------------------------
(***************************************************************************)
(* A leak test tells the truth.                                            *)
(***************************************************************************)

\* What the scripts of the guard do to the device and its route: nothing, but
\* that the last line of `guard down` removes the route.
LEMMA GuardDownLines ==
  /\ Len(GuardDown) = 6
  /\ \A k : \A i \in 1 .. 6 :
       LET e == Effect(k, GuardDown[i]) IN
       /\ e \subseteq k
       /\ "iface" \in k => "iface" \in e
       /\ "markRule" \in e => i # 4
       /\ "srcRule" \in e => i # 5
       /\ "unreachable" \in e \/ "linkRoute" \in e => i # 6
       /\ i \in 4 .. 6 => ~(GuardDown[i].items \subseteq Rejects)
<1>1. Len(GuardDown) = 6
  BY DEF GuardDown
<1>. SUFFICES ASSUME NEW k, NEW i \in 1 .. 6
              PROVE  LET e == Effect(k, GuardDown[i]) IN
                     /\ e \subseteq k
                     /\ "iface" \in k => "iface" \in e
                     /\ "markRule" \in e => i # 4
                     /\ "srcRule" \in e => i # 5
                     /\ "unreachable" \in e \/ "linkRoute" \in e => i # 6
                     /\ i \in 4 .. 6 => ~(GuardDown[i].items \subseteq Rejects)
  BY <1>1
<1>2. GuardDown[i].op = "del" /\ "iface" \notin GuardDown[i].items
  BY DEF GuardDown, Line
<1>3. /\ i = 4 => GuardDown[i].items = {"markRule"}
      /\ i = 5 => GuardDown[i].items = {"srcRule"}
      /\ i = 6 => GuardDown[i].items = {"unreachable", "linkRoute"}
  BY DEF GuardDown, Line
<1>4. Effect(k, GuardDown[i]) = k \ GuardDown[i].items
  BY <1>2 DEF Effect
<1>5. i \in 4 .. 6 => ~(GuardDown[i].items \subseteq Rejects)
  BY <1>3 DEF Rejects
<1>. QED BY <1>2, <1>3, <1>4, <1>5

\* What wg-quick's script does.
LEMMA WgQuickText ==
  ASSUME Mode # "ipip"
  PROVE  /\ Len(LinkUp) = 2 /\ Len(LinkDown) = 1
         /\ LinkUp[1] = Line("new", {"iface"})
         /\ LinkUp[2] = Line("add", {"linkRoute"})
         /\ LinkDown[1] = Line("pop", {"iface", "linkRoute"})
<1>. DEFINE w == << Line("new", {"iface"}), Line("add", {"linkRoute"}) >>
<1>1. w \in Seq(LinkLine) /\ Len(w) = 2 /\ w[1] = Line("new", {"iface"}) /\ w[2] = Line("add", {"linkRoute"})
  BY LinkLineType
<1>2. LinkUp = << >> \o w
  BY DEF LinkUp
<1>. HIDE DEF w
<1>3. LinkUp = w
  BY <1>1, <1>2, ConcatEmptySeq
<1>. QED BY <1>1, <1>3 DEF LinkDown

LEMMA GuardLinesDevice ==
  ASSUME TypeInv, NEW c \in {"guard"} \cup Sessions, RunLine(c)
  PROVE  /\ "iface" \in kernel' <=> "iface" \in kernel
         /\ "linkRoute" \in kernel' => "linkRoute" \in kernel
<1>1. Script(c) \in {GuardUp, GuardDown}
  BY SessionsAssumption DEF Script
<1>2. at[c] \in 1 .. Len(Script(c)) /\ kernel' = Effect(kernel, Script(c)[at[c]])
  BY DEF RunLine, Running
<1>3. CASE Script(c) = GuardUp
  <2>1. at[c] \in 1 .. 8 /\ kernel' = Effect(kernel, GuardUp[at[c]])
    BY <1>2, <1>3, GuardUpLines
  <2>2. \E x \in Policy \cup Rejects : kernel' = kernel \cup {x} \/ kernel' = kernel \ {x}
    BY <2>1, GuardUpLines DEF Policy, Rejects
  <2>. QED BY <2>2 DEF Policy, Rejects
<1>4. CASE Script(c) = GuardDown
  <2>1. at[c] \in 1 .. 6 /\ kernel' = Effect(kernel, GuardDown[at[c]])
    BY <1>2, <1>4, GuardDownLines
  <2>. QED BY <2>1, GuardDownLines
<1>. QED BY <1>1, <1>3, <1>4

LEMMA DeviceUnit ==
  ASSUME TypeInv, DeviceInv, NEW u \in Units, UnitStep(u), Mode # "ipip"
  PROVE  DeviceInv'
<1>. USE GuardAndLink
<1>0. /\ UnitsInv /\ state \in [Units -> States]
      /\ at \in [Units \cup Sessions -> 0 .. 9] /\ u \notin Sessions
      /\ "linkRoute" \in kernel => "iface" \in kernel
      /\ "iface" \in kernel => state["link"] \in {"activating", "active", "deactivating"}
      /\ state["link"] = "activating" /\ at["link"] = 1 => "iface" \notin kernel
      /\ state["link"] = "deactivating" /\ at["link"] > 1 => "iface" \notin kernel
  BY UnitsAndSessions DEF TypeInv, TypeOK, States, DeviceInv
<1>q. ASSUME "linkRoute" \in kernel' => "linkRoute" \in kernel,
             "iface" \in kernel' <=> "iface" \in kernel,
             state'["link"] = state["link"], at'["link"] = at["link"]
      PROVE  DeviceInv'
  BY <1>0, <1>q DEF DeviceInv
<1>g. ASSUME "iface" \notin kernel', "linkRoute" \notin kernel' PROVE DeviceInv'
  BY <1>g DEF DeviceInv
<1>1. CASE u # "guard" /\ u # "link"
  <2>1. kernel' = kernel
    BY <1>1, KernelOf, LinkLines
  <2>2. state'["link"] = state["link"] /\ at'["link"] = at["link"]
    BY <1>0, <1>1 DEF UnitStep, NothingToDo, BeginStart, BeginStop, AbortStart, RunLine,
                      SkipLine, FailLine, UnitFails, UnitSettles
  <2>. QED BY <2>1, <2>2, <1>q
<1>2. CASE u = "guard"
  <2>1. kernel' = kernel \/ RunLine(u)
    BY <1>2, KernelOf
  <2>2. /\ "linkRoute" \in kernel' => "linkRoute" \in kernel
        /\ "iface" \in kernel' <=> "iface" \in kernel
    BY <1>2, <2>1, GuardLinesDevice
  <2>3. state'["link"] = state["link"] /\ at'["link"] = at["link"]
    BY <1>0, <1>2 DEF UnitStep, NothingToDo, BeginStart, BeginStop, AbortStart, RunLine,
                      SkipLine, FailLine, UnitFails, UnitSettles
  <2>. QED BY <2>2, <2>3, <1>q
<1>3. CASE u = "link"
  <2>s. /\ state[u] = "activating" => Script(u) = LinkUp
        /\ state[u] # "activating" => Script(u) = LinkDown
    BY <1>0, <1>3 DEF Script
  <2>l. /\ state[u] = "activating" => Len(Script(u)) = 2
        /\ state[u] # "activating" => Len(Script(u)) = 1
    BY <2>s, WgQuickText, Zenon
  <2>f. ASSUME UnitFails(u), Busy(u), state[u] = "deactivating" => "iface" \notin kernel
        PROVE  DeviceInv'
    <3>1. CASE state[u] = "activating" /\ at[u] > 1
      <4>1. kernel' = kernel \ {"iface", "linkRoute"}
        BY <1>3, <2>f, <3>1 DEF UnitFails, Undone
      <4>. QED BY <4>1, <1>g
    <3>2. CASE ~(state[u] = "activating" /\ at[u] > 1)
      <4>1. kernel' = kernel
        BY <2>f, <3>2 DEF UnitFails, Undone
      <4>2. state[u] = "activating" => at[u] = 1
        BY <1>0, <3>2 DEF UnitsInv, Busy
      <4>. QED BY <1>0, <1>3, <2>f, <4>1, <4>2, <1>g DEF Busy
    <3>. QED BY <3>1, <3>2
  <2>1. CASE NothingToDo(u) \/ SkipLine(u)
    <3>1. CASE NothingToDo(u)
      BY <3>1, <1>q DEF NothingToDo
    <3>2. CASE SkipLine(u)
      <4>1. Busy(u) /\ at[u] \in 1 .. Len(Script(u))
        BY <1>0, <3>2, ScriptLength DEF SkipLine, Running, UnitsInv
      <4>2. Script(u)[at[u]].op # "del"
        BY <4>1, <2>s, WgQuickText DEF Line, Busy
      <4>. QED BY <3>2, <4>2 DEF SkipLine
    <3>. QED BY <2>1, <3>1, <3>2
  <2>2. CASE BeginStart(u)
    <3>1. "iface" \notin kernel /\ kernel' = kernel
      BY <1>0, <1>3, <2>2 DEF BeginStart, Down
    <3>. QED BY <1>0, <3>1, <1>g
  <2>3. CASE BeginStop(u)
    <3>1. kernel' = kernel /\ state'["link"] = "deactivating" /\ at'["link"] = 1
      BY <1>0, <1>3, <2>3 DEF BeginStop
    <3>. QED BY <1>0, <3>1 DEF DeviceInv
  <2>4. CASE AbortStart(u)
    BY <2>4, <2>f DEF AbortStart, Busy
  <2>5. CASE RunLine(u)
    <3>1. Busy(u) /\ at[u] \in 1 .. Len(Script(u))
      BY <1>0, <2>5, ScriptLength DEF RunLine, Running, UnitsInv
    <3>2. /\ Accepts(kernel, Script(u)[at[u]])
          /\ kernel' = Effect(kernel, Script(u)[at[u]])
          /\ at'[u] = at[u] + 1 /\ state' = state
      BY <1>0, <2>5 DEF RunLine
    <3>3. CASE state[u] = "activating" /\ at[u] = 1
      <4>1. kernel' = kernel \cup {"iface"}
        BY <2>s, <3>2, <3>3, WgQuickText DEF Effect, Line
      <4>2. state'["link"] = "activating" /\ at'["link"] = 2
        BY <1>3, <3>2, <3>3
      <4>. QED BY <1>0, <4>1, <4>2 DEF DeviceInv
    <3>4. CASE state[u] = "activating" /\ at[u] = 2
      <4>1. kernel' = kernel \cup {"linkRoute"} /\ "iface" \in kernel
        BY <2>s, <3>2, <3>4, WgQuickText DEF Effect, Accepts, Line
      <4>2. state'["link"] = "activating" /\ at'["link"] = 3
        BY <1>3, <3>2, <3>4
      <4>. QED BY <1>0, <4>1, <4>2 DEF DeviceInv
    <3>5. CASE state[u] = "deactivating"
      <4>a. at[u] \in 1 .. 1
        BY <2>l, <3>1, <3>5, Zenon
      <4>1. at[u] = 1
        BY <4>a
      <4>2. kernel' = kernel \ {"iface", "linkRoute"}
        BY <2>s, <3>2, <3>5, <4>1, WgQuickText DEF Effect, Line
      <4>. QED BY <4>2, <1>g
    <3>6. state[u] = "activating" => at[u] = 1 \/ at[u] = 2
      <4>1. ASSUME state[u] = "activating" PROVE at[u] \in 1 .. 2
        BY <2>l, <3>1, <4>1, Zenon
      <4>. QED BY <4>1
    <3>. QED BY <3>1, <3>3, <3>4, <3>5, <3>6 DEF Busy
  <2>6. CASE FailLine(u)
    <3>1. Busy(u) /\ at[u] \in 1 .. Len(Script(u)) /\ UnitFails(u) /\ MayFail(kernel, Script(u)[at[u]])
      BY <1>0, <2>6, ScriptLength DEF FailLine, Running, UnitsInv
    <3>2. ASSUME state[u] = "deactivating" PROVE "iface" \notin kernel
      <4>a. at[u] \in 1 .. 1
        BY <2>l, <3>1, <3>2, Zenon
      <4>1. at[u] = 1
        BY <4>a
      <4>2. Script(u)[at[u]] = Line("pop", {"iface", "linkRoute"})
        BY <2>s, <3>2, <4>1, WgQuickText
      <4>. QED BY <3>1, <4>2 DEF MayFail, Accepts, Line
    <3>. QED BY <3>1, <3>2, <2>f
  <2>7. CASE UnitSettles(u)
    <3>1. at[u] = Len(Script(u)) + 1 /\ kernel' = kernel
          /\ state' = [state EXCEPT ![u] = IF @ = "activating" THEN "active" ELSE "inactive"]
      BY <2>7 DEF UnitSettles
    <3>2. Busy(u)
      BY <1>0, <3>1, ScriptLength DEF UnitsInv
    <3>3. CASE state[u] = "activating"
      <4>1. state'["link"] = "active"
        BY <1>0, <1>3, <3>1, <3>3
      <4>. QED BY <1>0, <3>1, <4>1 DEF DeviceInv
    <3>4. CASE state[u] = "deactivating"
      <4>a. at[u] = 1 + 1
        BY <2>l, <3>1, <3>4, Zenon
      <4>1. at[u] = 2
        BY <4>a
      <4>2. "iface" \notin kernel
        BY <1>0, <1>3, <3>4, <4>1
      <4>. QED BY <1>0, <3>1, <4>2, <1>g
    <3>. QED BY <3>2, <3>3, <3>4 DEF Busy
  <2>. QED BY <2>1, <2>2, <2>3, <2>4, <2>5, <2>6, <2>7 DEF UnitStep
<1>. QED BY <1>1, <1>2, <1>3

LEMMA DeviceNext ==
  ASSUME TypeInv, DeviceInv, [Next]_vars
  PROVE  DeviceInv'
<1>. USE GuardAndLink
<1>. SUFFICES ASSUME Mode # "ipip" PROVE DeviceInv'
  BY DEF DeviceInv
<1>0. at \in [Units \cup Sessions -> 0 .. 9]
  BY DEF TypeInv, TypeOK
<1>q. ASSUME "linkRoute" \in kernel' => "linkRoute" \in kernel,
             "iface" \in kernel' <=> "iface" \in kernel,
             state' = state, at'["link"] = at["link"]
      PROVE  DeviceInv'
  BY <1>q DEF DeviceInv
<1>1. ASSUME NEW s \in Sessions, Invoke(s) \/ SessionStep(s) \/ Kill(s) PROVE DeviceInv'
  <2>1. s \notin Units /\ s # "link"
    BY UnitsAndSessions
  <2>2. CASE RunLine(s)
    <3>1. state' = state /\ at'["link"] = at["link"]
      BY <1>0, <2>1, <2>2 DEF RunLine
    <3>. QED BY <2>2, <3>1, <1>q, GuardLinesDevice
  <2>3. CASE ~RunLine(s)
    <3>1. kernel' = kernel /\ state' = state /\ at'["link"] = at["link"]
      BY <1>0, <1>1, <2>1, <2>3
         DEF Invoke, SessionStep, Kill, AskSystemd, Request, RunScript, Missing, EditFiles,
             Check, SkipLine, FailLine, RepairScriptEnds
    <3>. QED BY <3>1, <1>q
  <2>. QED BY <2>2, <2>3
<1>2. ASSUME Environment PROVE DeviceInv'
  <2>1. CASE Reboot
    BY <2>1 DEF Reboot, DeviceInv
  <2>2. CASE FirewallReload
    <3>1. kernel' = kernel \ Rejects /\ state' = state /\ at' = at
      BY <2>2 DEF FirewallReload
    <3>. QED BY <3>1, <1>q DEF Rejects
  <2>3. CASE LinkLost
    <3>1. kernel' = kernel \ {"iface", "linkRoute"}
      BY <2>3 DEF LinkLost
    <3>. QED BY <3>1 DEF DeviceInv
  <2>. QED BY <1>2, <2>1, <2>2, <2>3 DEF Environment
<1>3. ASSUME UNCHANGED vars PROVE DeviceInv'
  BY <1>3, <1>q DEF vars
<1>. QED BY <1>1, <1>2, <1>3, DeviceUnit DEF Next

\* The calls of a leak test that ask systemd for something.
LEMMA LeakTestAsks ==
  ASSUME TypeInv, NEW s \in Sessions, sess[s].cmd = "leaktest", sess[s].pc # 0
  PROVE  /\ sess[s].pc \in 1 .. 7
         /\ CallOf(s).do \in DOMAIN JobOf =>
              /\ sess[s].pc \in {3, 6, 7} /\ CallOf(s).unit = "link"
              /\ JobOf[CallOf(s).do] = IF sess[s].pc = 3 THEN "stop" ELSE "start"
         /\ CallOf(s).do = "route" => sess[s].pc = 4
         /\ CallOf(s).do = "escape" => sess[s].pc = 5
         /\ CallOf(s).do \in {"isActive", "baseline", "stop", "route", "escape", "start"}
<1>1. sess[s].pc \in 1 .. 7 /\ CallOf(s) = Program["leaktest"][sess[s].pc]
  BY AtACall, LeakTestText
<1>2. sess[s].pc = 1 \/ sess[s].pc = 2 \/ sess[s].pc = 3 \/ sess[s].pc = 4
        \/ sess[s].pc = 5 \/ sess[s].pc = 6 \/ sess[s].pc = 7
  BY <1>1
<1>. QED BY <1>1, <1>2, LeakTestText DEF Call, JobOf

\* Where the answers take it.
LEMMA LeakTestGoes ==
  ASSUME TypeInv, NEW s \in Sessions, sess[s].pc # 0, NEW ok \in BOOLEAN,
         sess'[s] = Advance(sess[s], ok), sess'[s].cmd = "leaktest"
  PROVE  /\ sess[s].cmd = "leaktest" /\ ~sess'[s].waits
         /\ sess'[s].pc = 4 => sess[s].pc = 3 /\ ok
         /\ sess'[s].pc = 5 => sess[s].pc = 4
         /\ sess'[s].pc > 3 => sess[s].pc \in 3 .. 7
<1>1. /\ sess[s].cmd = "leaktest" /\ ~sess'[s].waits
      /\ sess'[s].pc = Goes(sess[s], ok)
  BY GoesOn
<1>2. sess[s].pc \in 1 .. 7
  BY <1>1, AtACall, LeakTestText
<1>3. sess[s].pc = 1 \/ sess[s].pc = 2 \/ sess[s].pc = 3 \/ sess[s].pc = 4
        \/ sess[s].pc = 5 \/ sess[s].pc = 6 \/ sess[s].pc = 7
  BY <1>2
<1>. QED BY <1>1, <1>3, LeakTestText DEF Goes, Call

\* How a leak test comes to its probes, and past its stop: by systemd's answer
\* that the link is down, and by a request to installed units.
LEMMA LeakTestByUnit ==
  ASSUME TypeInv, NEW u \in Units, UnitStep(u), NEW s \in Sessions, sess'[s].cmd = "leaktest"
  PROVE  /\ sess'[s].pc \in {4, 5} =>
              \/ sess[s].cmd = "leaktest" /\ sess[s].pc \in {4, 5}
              \/ Down("link")' /\ job'["link"] = "none"
         /\ Stopped(s)' => Stopped(s)
<1>1. CASE sess'[s] = sess[s]
  BY <1>1 DEF Stopped
<1>2. CASE sess'[s] # sess[s]
  <2>1. PICK ok \in BOOLEAN :
          /\ sess'[s] = Advance(sess[s], ok)
          /\ ok => /\ CallOf(s).unit = u /\ job'[u] = "none"
                   /\ state'[u] \in IF JobOf[CallOf(s).do] = "start" THEN {"active"}
                                    ELSE {"inactive", "failed"}
    BY <1>2, Answered
  <2>2. sess[s].waits /\ sess[s].pc # 0 /\ CallOf(s).do \in DOMAIN JobOf
    BY <1>2, Answered, AtACall
  <2>3. /\ sess[s].cmd = "leaktest" /\ ~sess'[s].waits
        /\ sess'[s].pc = 4 => sess[s].pc = 3 /\ ok
        /\ sess'[s].pc = 5 => sess[s].pc = 4
        /\ sess'[s].pc > 3 => sess[s].pc \in 3 .. 7
    BY <2>1, <2>2, LeakTestGoes
  <2>4. /\ sess[s].pc \in {3, 6, 7} /\ CallOf(s).unit = "link"
        /\ JobOf[CallOf(s).do] = IF sess[s].pc = 3 THEN "stop" ELSE "start"
    BY <2>2, <2>3, LeakTestAsks
  <2>5. sess'[s].pc \in {4, 5} => Down("link")' /\ job'["link"] = "none"
    BY <2>1, <2>3, <2>4 DEF Down
  <2>6. Stopped(s)' => Stopped(s)
    BY <2>2, <2>3, <2>4 DEF Stopped
  <2>. QED BY <2>5, <2>6
<1>. QED BY <1>1, <1>2

LEMMA LeakTestBySession ==
  ASSUME TypeInv, NEW t \in Sessions, Invoke(t) \/ SessionStep(t) \/ Kill(t),
         NEW s \in Sessions, sess'[s].cmd = "leaktest"
  PROVE  /\ sess'[s].pc \in {4, 5} =>
              sess[s].cmd = "leaktest" /\ sess[s].pc \in {4, 5} /\ (t = s => job' = job)
         /\ Stopped(s)' => Stopped(s) \/ "units" \in files'
<1>0. sess \in [Sessions -> SessionType] /\ s \notin Units
  BY UnitsAndSessions DEF TypeInv, TypeOK, SessionType
<1>a. ASSUME NEW ok \in BOOLEAN, sess'[s] = Advance(sess[s], ok), sess[s].pc # 0
      PROVE  /\ sess[s].cmd = "leaktest" /\ ~sess'[s].waits
             /\ sess'[s].pc = 4 => sess[s].pc = 3 /\ ok
             /\ sess'[s].pc = 5 => sess[s].pc = 4
             /\ sess'[s].pc > 3 => sess[s].pc \in 3 .. 7
  BY <1>a, LeakTestGoes
<1>m. ASSUME sess'[s] = Advance(sess[s], FALSE), sess[s].pc # 0, CallOf(s).do \notin {"route", "escape"}
      PROVE  sess'[s].pc \notin {4, 5} /\ (Stopped(s)' => Stopped(s))
  <2>1. /\ sess[s].cmd = "leaktest" /\ ~sess'[s].waits
        /\ sess'[s].pc # 4
        /\ sess'[s].pc = 5 => sess[s].pc = 4
        /\ sess'[s].pc > 3 => sess[s].pc \in 3 .. 7
    BY <1>a, <1>m
  <2>2. sess[s].pc # 4
    <3>1. sess[s].pc = 4 => CallOf(s).do = "route"
      BY <2>1, AtACall, LeakTestText DEF Call
    <3>. QED BY <1>m, <3>1
  <2>3. sess[s].pc = 3 => ~(sess'[s].pc > 3)
    <3>1. sess[s].pc = 3 => Goes(sess[s], FALSE) = 0
      BY <2>1, LeakTestText DEF Goes, Call
    <3>2. sess'[s].cmd # "none"
      OBVIOUS
    <3>. QED BY <1>m, <3>1, <3>2, GoesOn
  <2>. QED BY <2>1, <2>2, <2>3 DEF Stopped
<1>1. CASE t # s
  <2>1. CASE sess'[s] = sess[s]
    BY <1>1, <2>1 DEF Stopped
  <2>2. CASE sess'[s] # sess[s]
    <3>1. /\ sess[s].waits /\ sess'[s] = Advance(sess[s], FALSE)
          /\ CallOf(s).do \in DOMAIN JobOf
      BY <1>1, <2>2, OthersEffect
    <3>2. sess[s].pc # 0 /\ CallOf(s).do \notin {"route", "escape"}
      BY <3>1, AtACall DEF JobOf
    <3>. QED BY <3>1, <3>2, <1>m
  <2>. QED BY <2>1, <2>2
<1>2. CASE t = s
  <2>1. CASE Invoke(s)
    BY <1>0, <2>1 DEF Invoke, Begun, Stopped
  <2>2. CASE AskSystemd(s)
    <3>1. sess'[s] = [sess[s] EXCEPT !.waits = TRUE] /\ "units" \in files'
      BY <2>2 DEF AskSystemd, Request
    <3>2. sess'[s].cmd = sess[s].cmd /\ sess'[s].pc = sess[s].pc
      BY <1>0, <3>1 DEF SessionType
    <3>3. sess[s].pc \in {3, 6, 7}
      BY <2>2, <3>2, LeakTestAsks DEF AskSystemd, AtCall
    <3>. QED BY <3>1, <3>2, <3>3
  <2>3. CASE RunScript(s)
    <3>1. sess'[s] = [sess[s] EXCEPT !.waits = TRUE] /\ sess[s].pc # 0 /\ CallOf(s).do = "script"
      BY <1>0, <2>3 DEF RunScript, AtCall
    <3>2. sess[s].cmd = "leaktest"
      BY <1>0, <3>1 DEF SessionType
    <3>. QED BY <3>1, <3>2, LeakTestAsks
  <2>4. CASE Missing(s)
    <3>1. /\ sess'[s] = Advance(sess[s], FALSE) /\ sess[s].pc # 0
          /\ CallOf(s).do \notin {"route", "escape"}
      BY <1>0, <2>4 DEF Missing, AtCall, JobOf
    <3>. QED BY <3>1, <1>m
  <2>5. CASE EditFiles(s)
    <3>1. /\ sess'[s] = Advance(sess[s], TRUE) /\ sess[s].pc # 0
          /\ CallOf(s).do \in {"write", "remove"}
      BY <1>0, <2>5 DEF EditFiles, AtCall
    <3>2. sess[s].cmd = "leaktest"
      BY <3>1, <1>a
    <3>. QED BY <3>1, <3>2, LeakTestAsks
  <2>6. CASE Check(s)
    <3>1. PICK ok \in Answers(CallOf(s).do) : sess' = [sess EXCEPT ![s] = Advance(@, ok)]
      BY <2>6 DEF Check
    <3>2. /\ ok \in BOOLEAN /\ sess'[s] = Advance(sess[s], ok) /\ sess[s].pc # 0 /\ job' = job
          /\ CallOf(s).do # "stop"
      BY <1>0, <2>6, <3>1 DEF Check, Answers, AtCall
    <3>3. /\ sess[s].cmd = "leaktest" /\ ~sess'[s].waits
          /\ sess'[s].pc = 4 => sess[s].pc = 3 /\ ok
          /\ sess'[s].pc = 5 => sess[s].pc = 4
          /\ sess'[s].pc > 3 => sess[s].pc \in 3 .. 7
      BY <3>2, <1>a
    <3>4. sess[s].pc # 3
      <4>1. sess[s].pc = 3 => CallOf(s).do = "stop"
        BY <3>3, AtACall, LeakTestText DEF Call
      <4>. QED BY <3>2, <4>1
    <3>. QED BY <3>2, <3>3, <3>4 DEF Stopped
  <2>7. CASE RunLine(s) \/ SkipLine(s)
    BY <2>7 DEF RunLine, SkipLine, Stopped
  <2>8. CASE FailLine(s) \/ RepairScriptEnds(s)
    <3>a. FailLine(s) => at[s] # 0
      BY ScriptLength DEF FailLine, Running
    <3>b. RepairScriptEnds(s) => at[s] # 0
      BY GuardUpLines DEF RepairScriptEnds
    <3>1. At(s, "repair", 2)
      BY <2>8, <3>a, <3>b, OnlyRepairs
    <3>2. PICK ok \in BOOLEAN : sess'[s] = Advance(sess[s], ok)
      BY <1>0, <2>8 DEF FailLine, RepairScriptEnds
    <3>. QED BY <3>1, <3>2, GoesOn DEF At
  <2>9. CASE Kill(s)
    BY <1>0, <2>9, IdleFields DEF Kill
  <2>. QED BY <1>2, <2>1, <2>2, <2>3, <2>4, <2>5, <2>6, <2>7, <2>8, <2>9 DEF SessionStep
<1>. QED BY <1>1, <1>2

\* No session that starts the link runs beside the probes, so it stays down.
LEMMA ProbesNext ==
  ASSUME NoneBeside("leaktest", Starters), TypeInv, ProbesInv, [Next]_vars
  PROVE  ProbesInv'
<1>. USE GuardAndLink
<1>. SUFFICES ASSUME NEW s \in Sessions, sess'[s].cmd = "leaktest", sess'[s].pc \in {4, 5}
              PROVE  Down("link")' /\ job'["link"] # "start"
  BY DEF ProbesInv
<1>0. state \in [Units -> States]
  BY DEF TypeInv, TypeOK, States
<1>1. ASSUME NEW u \in Units, UnitStep(u) PROVE Down("link")' /\ job'["link"] # "start"
  <2>1. CASE sess[s].cmd = "leaktest" /\ sess[s].pc \in {4, 5}
    <3>1. Down("link") /\ job["link"] # "start"
      BY <2>1 DEF ProbesInv
    <3>2. job'["link"] # "start"
      BY <1>1, <3>1, UnitEffect
    <3>3. Down("link")'
      BY <1>0, <1>1, <3>1, UnitEffect DEF Down, Busy
    <3>. QED BY <3>2, <3>3
  <2>2. CASE ~(sess[s].cmd = "leaktest" /\ sess[s].pc \in {4, 5})
    BY <1>1, <2>2, LeakTestByUnit
  <2>. QED BY <2>1, <2>2
<1>2. ASSUME NEW t \in Sessions, Invoke(t) \/ SessionStep(t) \/ Kill(t)
      PROVE  Down("link")' /\ job'["link"] # "start"
  <2>1. sess[s].cmd = "leaktest" /\ sess[s].pc \in {4, 5} /\ (t = s => job' = job)
    BY <1>2, LeakTestBySession
  <2>2. Down("link") /\ job["link"] # "start"
    BY <2>1 DEF ProbesInv
  <2>3. Down("link")'
    <3>1. state' = state
      BY <1>2, SessionEffect
    <3>. QED BY <2>2, <3>1 DEF Down
  <2>4. t # s => sess[t].cmd \notin Starters
    BY <2>1 DEF NoneBeside
  <2>5. job'["link"] # "start"
    BY <1>2, <2>1, <2>2, <2>4, SessionEffect, Asked
  <2>. QED BY <2>3, <2>5
<1>3. ASSUME Environment PROVE Down("link")' /\ job'["link"] # "start"
  <2>1. ~Reboot
    BY IdleFields DEF Reboot
  <2>2. sess' = sess /\ state' = state /\ job' = job
    BY <1>3, <2>1 DEF Environment, FirewallReload, LinkLost
  <2>. QED BY <2>2 DEF ProbesInv, Down
<1>4. ASSUME UNCHANGED vars PROVE Down("link")' /\ job'["link"] # "start"
  BY <1>4 DEF vars, ProbesInv, Down
<1>. QED BY <1>1, <1>2, <1>3, <1>4 DEF Next

\* No session that uninstalls runs beside a leak test, so its units stay installed.
LEMMA RestartNext ==
  ASSUME NoneBeside("leaktest", Stoppers), TypeInv, RestartInv, [Next]_vars
  PROVE  RestartInv'
<1>. SUFFICES ASSUME NEW s \in Sessions, Stopped(s)' PROVE "units" \in files'
  BY DEF RestartInv
<1>0. sess'[s].cmd = "leaktest"
  BY DEF Stopped
<1>1. ASSUME NEW u \in Units, UnitStep(u) PROVE "units" \in files'
  <2>1. Stopped(s) /\ files' = files
    BY <1>0, <1>1, LeakTestByUnit, UnitEffect
  <2>. QED BY <2>1 DEF RestartInv
<1>2. ASSUME NEW t \in Sessions, Invoke(t) \/ SessionStep(t) \/ Kill(t) PROVE "units" \in files'
  <2>1. CASE ~Stopped(s)
    BY <1>0, <1>2, <2>1, LeakTestBySession
  <2>2. CASE Stopped(s)
    <3>1. "units" \in files /\ sess[s].cmd = "leaktest"
      BY <2>2 DEF RestartInv, Stopped
    <3>2. sess[t].cmd # "uninstall"
      BY <3>1 DEF NoneBeside, Stoppers
    <3>3. CASE EditFiles(t)
      <4>1. sess[t].pc # 0 /\ CallOf(t).do \in {"write", "remove"}
        BY <3>3 DEF EditFiles, AtCall
      <4>2. CallOf(t).do # "remove"
        BY <3>2, <4>1, AtACall, OwnCalls
      <4>. QED BY <3>1, <3>3, <4>1, <4>2 DEF EditFiles
    <3>. QED BY <1>2, <3>1, <3>3, SessionEffect
  <2>. QED BY <2>1, <2>2
<1>3. ASSUME Environment PROVE "units" \in files'
  <2>1. ~Reboot
    BY <1>0, IdleFields DEF Reboot
  <2>2. sess' = sess /\ files' = files
    BY <1>3, <2>1 DEF Environment, FirewallReload, LinkLost
  <2>. QED BY <2>2 DEF RestartInv, Stopped
<1>4. ASSUME UNCHANGED vars PROVE "units" \in files'
  BY <1>4 DEF vars, RestartInv, Stopped
<1>. QED BY <1>1, <1>2, <1>3, <1>4 DEF Next

\* With the link down and its policy in place every packet that is probed is
\* blocked.
LEMMA ProbedBlocked ==
  ASSUME LeakInv, state["guard"] = "active", ~torn, \A t \in Sessions : at[t] = 0,
         "linkRoute" \notin kernel
  PROVE  RouteOf(kernel, "marked") = "blocked" /\ Verdict(kernel, "sourced") = "blocked"
<1>1. Raised = 9
  BY DEF Raised
<1>2. /\ "unreachable" \in kernel
      /\ "markRule" \in kernel
      /\ "srcRule" \in kernel
  BY <1>1 DEF LeakInv, PolicyInv
<1>. QED BY <1>2 DEF RouteOf, Verdict, RuleOf

Probing == LeakInv /\ DeviceInv /\ ProbesInv

LEMMA ProbingInit == Init => Probing
BY LeakInit, IdleFields, GuardAndLink DEF Init, Probing, DeviceInv, ProbesInv

LEMMA ProbingNext ==
  ASSUME NoneBeside("leaktest", Starters), Probing, [Next]_vars
  PROVE  Probing'
BY LeakNext, DeviceNext, ProbesNext DEF Probing, LeakInv

LEMMA CriticalStep ==
  ASSUME NoneBeside("leaktest", Starters), Mode # "ipip", Probing, [Next]_vars,
         NEW s \in Sessions, sess[s].out # "critical", sess'[s].out = "critical"
  PROVE  torn \/ state["guard"] # "active"
<1>. USE GuardAndLink
<1>0. /\ TypeInv /\ LeakInv /\ DeviceInv /\ ProbesInv
      /\ sess \in [Sessions -> SessionType] /\ s \notin Units
  BY UnitsAndSessions DEF Probing, LeakInv, TypeInv, TypeOK, SessionType
<1>a. ASSUME NEW ok \in BOOLEAN, sess'[s] = Advance(sess[s], ok)
      PROVE  ~ok /\ CallOf(s).do \in {"route", "escape"}
  BY <1>0, <1>a, GoesCritical
<1>1. ASSUME NEW u \in Units, UnitStep(u) PROVE FALSE
  <2>1. sess'[s] # sess[s]
    OBVIOUS
  <2>2. CallOf(s).do \in DOMAIN JobOf /\ \E ok \in BOOLEAN : sess'[s] = Advance(sess[s], ok)
    BY <1>0, <1>1, <2>1, Answered
  <2>. QED BY <2>2, <1>a DEF JobOf
<1>o. ASSUME NEW t \in Sessions, Invoke(t) \/ SessionStep(t) \/ Kill(t) PROVE t = s
  <2>1. SUFFICES ASSUME t # s PROVE FALSE
    OBVIOUS
  <2>2. sess'[s] = Advance(sess[s], FALSE) /\ CallOf(s).do \in DOMAIN JobOf
    BY <1>0, <1>o, <2>1, OthersEffect
  <2>. QED BY <2>2, <1>a DEF JobOf
<1>2. ASSUME NEW t \in Sessions, Invoke(t) \/ SessionStep(t) \/ Kill(t), ~Check(t) PROVE FALSE
  <2>1. t = s
    BY <1>2, <1>o
  <2>2. CASE Invoke(s)
    BY <1>0, <2>2 DEF Invoke, Begun
  <2>3. CASE AskSystemd(s) \/ RunScript(s)
    <3>1. sess'[s] = [sess[s] EXCEPT !.waits = TRUE]
      BY <1>0, <2>3 DEF AskSystemd, Request, RunScript
    <3>. QED BY <1>0, <3>1 DEF SessionType
  <2>4. CASE Missing(s) \/ EditFiles(s)
    <3>1. /\ \E ok \in BOOLEAN : sess'[s] = Advance(sess[s], ok)
          /\ CallOf(s).do \in DOMAIN JobOf \cup {"script", "write", "remove"}
      BY <1>0, <2>4 DEF Missing, EditFiles
    <3>. QED BY <3>1, <1>a DEF JobOf
  <2>5. CASE RunLine(s) \/ SkipLine(s)
    BY <2>5 DEF RunLine, SkipLine
  <2>6. CASE FailLine(s) \/ RepairScriptEnds(s)
    <3>a. FailLine(s) => at[s] # 0
      BY ScriptLength DEF FailLine, Running
    <3>b. RepairScriptEnds(s) => at[s] # 0
      BY GuardUpLines DEF RepairScriptEnds
    <3>1. RunsScript(s)
      BY <1>0, <2>6, <3>a, <3>b DEF TypeInv, ScriptsInv
    <3>2. \E ok \in BOOLEAN : sess'[s] = Advance(sess[s], ok)
      BY <1>0, <2>6 DEF FailLine, RepairScriptEnds
    <3>. QED BY <3>1, <3>2, <1>a DEF RunsScript
  <2>7. CASE Kill(s)
    BY <1>0, <2>7, IdleFields DEF Kill
  <2>. QED BY <1>2, <2>1, <2>2, <2>3, <2>4, <2>5, <2>6, <2>7 DEF SessionStep
<1>3. ASSUME NEW t \in Sessions, Check(t) PROVE torn \/ state["guard"] # "active"
  <2>1. t = s
    BY <1>3, <1>o DEF SessionStep
  <2>2. AtCall(s) /\ CallOf(s).do \in {"isActive", "baseline", "route", "escape"}
    BY <1>3, <2>1 DEF Check
  <2>3. PICK ok \in Answers(CallOf(s).do) : sess' = [sess EXCEPT ![s] = Advance(@, ok)]
    BY <1>3, <2>1 DEF Check
  <2>4. ok \in BOOLEAN
    BY <2>2, <2>3 DEF Answers
  <2>5. ~ok /\ CallOf(s).do \in {"route", "escape"}
    BY <1>0, <2>3, <2>4, <1>a
  <2>6. sess[s].pc # 0 /\ sess[s].cmd = "leaktest"
    BY <1>0, <2>2, <2>5, AtACall, OwnCalls DEF AtCall
  <2>7. sess[s].pc \in {4, 5}
    BY <1>0, <2>5, <2>6, LeakTestAsks
  <2>8. Down("link")
    BY <1>0, <2>6, <2>7 DEF ProbesInv
  <2>9. "linkRoute" \notin kernel
    BY <1>0, <2>8 DEF DeviceInv, Down
  <2>10. \A r \in Sessions : at[r] = 0
    <3>1. SUFFICES ASSUME NEW r \in Sessions, at[r] # 0 PROVE FALSE
      OBVIOUS
    <3>2. sess[r].cmd = "repair"
      BY <1>0, <3>1, OnlyRepairs DEF At
    <3>. QED BY <2>6, <3>2 DEF NoneBeside, Starters
  <2>. SUFFICES ASSUME ~torn, state["guard"] = "active" PROVE FALSE
    OBVIOUS
  <2>11. RouteOf(kernel, "marked") = "blocked" /\ Verdict(kernel, "sourced") = "blocked"
    BY <1>0, <2>9, <2>10, ProbedBlocked
  <2>12. CASE CallOf(s).do = "route"
    BY <2>3, <2>5, <2>11, <2>12 DEF Answers
  <2>13. CASE CallOf(s).do = "escape"
    BY <2>3, <2>5, <2>11, <2>13 DEF Answers
  <2>. QED BY <2>5, <2>12, <2>13
<1>4. ASSUME Environment PROVE FALSE
  BY <1>0, <1>4, IdleFields DEF Environment, Reboot, FirewallReload, LinkLost
<1>5. ASSUME UNCHANGED vars PROVE FALSE
  BY <1>5 DEF vars
<1>. QED BY <1>1, <1>2, <1>3, <1>4, <1>5 DEF Next

\* A leak test reports CRITICAL only when the policy has a hole: a repair was
\* cut short, or the guard is not active any more.  No history of commands,
\* failures and reboots makes a stopped link look like a leak, nor does a stop
\* or an uninstall beside the test; a command that starts the link or repairs
\* would.  Not so with IPIP, whose script leaves the route behind when its start
\* is cut short.  (app.go LeakTest; wg-quick.)
THEOREM CriticalsAreReal ==
  Mode # "ipip" => (Spec /\ []NoneBeside("leaktest", Starters) => CriticalIsReal)
<1>. SUFFICES ASSUME Mode # "ipip"
              PROVE  Spec /\ []NoneBeside("leaktest", Starters) => CriticalIsReal
  OBVIOUS
<1>1. NoneBeside("leaktest", Starters) /\ Probing /\ [Next]_vars => Probing'
  BY ProbingNext
<1>2. NoneBeside("leaktest", Starters) /\ Probing /\ [Next]_vars =>
        [\A s \in Sessions : sess[s].out # "critical" /\ sess'[s].out = "critical"
           => torn \/ state["guard"] # "active"]_vars
  BY CriticalStep
<1>. QED BY <1>1, <1>2, ProbingInit, PTL DEF Spec, CriticalIsReal

----------------------------------------------------------------------------
(***************************************************************************)
(* A leak test restarts the link.                                          *)
(***************************************************************************)

LEMMA RestoreStep ==
  ASSUME NoneBeside("leaktest", Stoppers), TypeInv, RestartInv,
         NEW s \in Sessions, Returns(s, "leaktest"), sess[s].pc > 3
  PROVE  state'["link"] \in {"active", "failed"} \/ state'["guard"] = "failed"
<1>0. /\ sess[s].cmd = "leaktest" /\ sess'[s] = Idle /\ sess[s].pc # 0
      /\ sess \in [Sessions -> SessionType] /\ "units" \in files
  BY DEF Returns, RestartInv, Stopped, TypeInv, TypeOK, SessionType
<1>1. ASSUME NEW u \in Units, UnitStep(u)
      PROVE  state'["link"] \in {"active", "failed"} \/ state'["guard"] = "failed"
  <2>1. sess'[s] # sess[s]
    BY <1>0, IdleFields
  <2>2. /\ CallOf(s).do \in DOMAIN JobOf
        /\ \E ok \in BOOLEAN :
             /\ ok => /\ CallOf(s).unit = u
                      /\ state'[u] \in IF JobOf[CallOf(s).do] = "start" THEN {"active"}
                                       ELSE {"inactive", "failed"}
             /\ ~ok => /\ state'[u] = "failed"
                       /\ CallOf(s).unit = u \/ u = "guard"
    BY <1>1, <2>1, Answered
  <2>3. /\ sess[s].pc \in {3, 6, 7} /\ CallOf(s).unit = "link"
        /\ JobOf[CallOf(s).do] = IF sess[s].pc = 3 THEN "stop" ELSE "start"
    BY <1>0, <2>2, LeakTestAsks
  <2>4. JobOf[CallOf(s).do] = "start"
    BY <2>3
  <2>. QED BY <2>2, <2>3, <2>4
<1>2. ASSUME NEW t \in Sessions, SessionStep(t) PROVE FALSE
  <2>1. t = s
    <3>1. SUFFICES ASSUME t # s PROVE FALSE
      OBVIOUS
    <3>2. /\ AskSystemd(t) /\ CallOf(s).do \in DOMAIN JobOf
          /\ JobOf[CallOf(s).do] # JobOf[CallOf(t).do]
      BY <1>0, <1>2, <3>1, OthersEffect, IdleFields
    <3>3. JobOf[CallOf(s).do] = "start"
      BY <1>0, <3>2, LeakTestAsks
    <3>4. JobOf[CallOf(t).do] = "stop" /\ sess[t].pc # 0 /\ CallOf(t).do \in DOMAIN JobOf
      BY <3>2, <3>3 DEF AskSystemd, AtCall, JobOf
    <3>5. sess[t].cmd \in Stoppers
      BY <3>4, Asks
    <3>. QED BY <1>0, <3>1, <3>5 DEF NoneBeside
  <2>a. ASSUME NEW ok \in BOOLEAN, sess'[s] = Advance(sess[s], ok)
        PROVE  Goes(sess[s], ok) = 0
    <3>1. sess'[s].pc = 0
      BY <1>0, IdleFields
    <3>. QED BY <1>0, <2>a, <3>1, GoesHome
  <2>2. CASE AskSystemd(s) \/ RunScript(s)
    <3>1. sess'[s] = [sess[s] EXCEPT !.waits = TRUE]
      BY <1>0, <2>2 DEF AskSystemd, Request, RunScript
    <3>. QED BY <1>0, <3>1, IdleFields DEF SessionType
  <2>3. CASE Missing(s) \/ EditFiles(s)
    BY <1>0, <2>3, LeakTestAsks DEF Missing, EditFiles
  <2>4. CASE Check(s)
    <3>1. CallOf(s).do \in {"isActive", "baseline", "route", "escape"}
      BY <2>4 DEF Check
    <3>2. PICK ok \in Answers(CallOf(s).do) : sess' = [sess EXCEPT ![s] = Advance(@, ok)]
      BY <2>4 DEF Check
    <3>3. ok \in BOOLEAN /\ sess'[s] = Advance(sess[s], ok)
      BY <1>0, <3>1, <3>2 DEF Answers
    <3>4. sess[s].pc \in 1 .. 7 /\ CallOf(s) = Program["leaktest"][sess[s].pc]
      BY <1>0, AtACall, LeakTestAsks
    <3>5. sess[s].pc = 4 \/ sess[s].pc = 5 \/ sess[s].pc = 6 \/ sess[s].pc = 7
      BY <3>4
    <3>6. Goes(sess[s], ok) # 0
      BY <1>0, <3>1, <3>3, <3>4, <3>5, LeakTestText DEF Goes, Call
    <3>. QED BY <3>3, <3>6, <2>a
  <2>5. CASE RunLine(s) \/ SkipLine(s)
    BY <1>0, <2>5, IdleFields DEF RunLine, SkipLine
  <2>6. CASE FailLine(s) \/ RepairScriptEnds(s)
    <3>a. FailLine(s) => at[s] # 0
      BY ScriptLength DEF FailLine, Running
    <3>b. RepairScriptEnds(s) => at[s] # 0
      BY GuardUpLines DEF RepairScriptEnds
    <3>. QED BY <1>0, <2>6, <3>a, <3>b, OnlyRepairs DEF At
  <2>. QED BY <1>2, <2>1, <2>2, <2>3, <2>4, <2>5, <2>6 DEF SessionStep
<1>. QED BY <1>1, <1>2 DEF Returns

\* A leak test that has stopped the link is not over before systemd has
\* answered the deferred start: the link is up again, or its start, or that of
\* the guard it needs, has failed.  In every mode, with every fault, also while
\* other sessions start, join or repair; a stop, a restart, a second leak test or
\* an uninstall would replace the start.
\* (app.go LeakTest: the deferred start and the restarted flag.)
THEOREM LeakTestsRestore ==
  Spec /\ []NoneBeside("leaktest", Stoppers) => LeakTestRestores
<1>. DEFINE I == TypeInv /\ RestartInv
<1>1. Init => I
  BY TypeInit, IdleFields DEF Init, RestartInv, Stopped
<1>2. NoneBeside("leaktest", Stoppers) /\ I /\ [Next]_vars => I'
  BY TypeNext, RestartNext
<1>3. NoneBeside("leaktest", Stoppers) /\ I /\ [Next]_vars =>
        [\A s \in Sessions : Returns(s, "leaktest") /\ sess[s].pc > 3 =>
           state'["link"] \in {"active", "failed"} \/ state'["guard"] = "failed"]_vars
  BY RestoreStep
<1>. QED BY <1>1, <1>2, <1>3, PTL DEF Spec, LeakTestRestores

----------------------------------------------------------------------------
(***************************************************************************)
(* An uninstall cleans up.                                                 *)
(***************************************************************************)

LEMMA GuardGoneUnit ==
  ASSUME TypeInv, LinkNeedsGuard, GuardGone, NEW u \in Units, UnitStep(u)
  PROVE  GuardGone'
<1>. USE GuardAndLink
<1>0. /\ UnitsInv /\ state \in [Units -> States]
      /\ at \in [Units \cup Sessions -> 0 .. 9] /\ u \notin Sessions
      /\ at["guard"] \in 0 .. 9
  BY UnitsAndSessions DEF TypeInv, TypeOK, States
<1>q. ASSUME kernel' \subseteq kernel, state'["guard"] = state["guard"], at'["guard"] = at["guard"]
      PROVE  GuardGone'
  BY <1>q DEF GuardGone
<1>d. ASSUME state'["guard"] \notin {"inactive", "deactivating"} PROVE GuardGone'
  BY <1>d DEF GuardGone
<1>1. CASE u # "guard"
  <2>1. state'["guard"] = state["guard"] /\ at'["guard"] = at["guard"]
    BY <1>0, <1>1 DEF UnitStep, NothingToDo, BeginStart, BeginStop, AbortStart, RunLine,
                      SkipLine, FailLine, UnitFails, UnitSettles
  <2>2. CASE RunLine(u)
    <3>0. u = "link"
      BY <1>1, <2>2, LinkLines
    <3>1. u = "link" /\ at[u] # 0
      BY <2>2, <3>0, ScriptLength DEF RunLine, Running
    <3>2. state["guard"] = "active"
      BY <1>0, <3>1 DEF UnitsInv, Busy, LinkNeedsGuard
    <3>. QED BY <2>1, <3>2, <1>d
  <2>3. CASE ~RunLine(u)
    <3>1. kernel' \subseteq kernel
      BY <2>3, KernelOf
    <3>. QED BY <2>1, <3>1, <1>q
  <2>. QED BY <2>2, <2>3
<1>2. CASE u = "guard"
  <2>s. state[u] # "activating" => Script(u) = GuardDown
    BY <1>0, <1>2 DEF Script
  <2>1. CASE NothingToDo(u)
    BY <2>1, <1>q DEF NothingToDo
  <2>2. CASE BeginStart(u) \/ AbortStart(u) \/ FailLine(u)
    <3>1. state'["guard"] = "activating" \/ state'["guard"] = "failed"
      BY <1>0, <1>2, <2>2 DEF BeginStart, AbortStart, FailLine, UnitFails
    <3>. QED BY <3>1, <1>d
  <2>3. CASE BeginStop(u)
    <3>1. state'["guard"] = "deactivating" /\ at'["guard"] = 1
      BY <1>0, <1>2, <2>3 DEF BeginStop
    <3>. QED BY <3>1 DEF GuardGone
  <2>4. CASE (RunLine(u) \/ SkipLine(u)) /\ state[u] = "activating"
    <3>1. state' = state
      BY <2>4 DEF RunLine, SkipLine
    <3>. QED BY <1>2, <2>4, <3>1, <1>d
  <2>5. CASE (RunLine(u) \/ SkipLine(u)) /\ state[u] # "activating"
    <3>1. at[u] \in 1 .. Len(GuardDown)
      BY <2>5, <2>s DEF RunLine, SkipLine, Running
    <3>2. at[u] \in 1 .. 6 /\ at'[u] = at[u] + 1 /\ state' = state
      BY <1>0, <2>5, <3>1, GuardDownLines DEF RunLine, SkipLine
    <3>3. state[u] = "deactivating"
      BY <1>0, <2>5, <3>2 DEF UnitsInv, Busy
    <3>4. /\ kernel' \subseteq kernel
          /\ at[u] = 4 => "markRule" \notin kernel'
          /\ at[u] = 5 => "srcRule" \notin kernel'
          /\ at[u] = 6 => "unreachable" \notin kernel' /\ "linkRoute" \notin kernel'
      <4>1. CASE RunLine(u)
        <5>1. kernel' = Effect(kernel, GuardDown[at[u]])
          BY <2>5, <2>s, <4>1 DEF RunLine
        <5>. QED BY <3>2, <5>1, GuardDownLines
      <4>2. CASE SkipLine(u)
        <5>1. kernel' = kernel /\ GuardDown[at[u]].items \subseteq Rejects
          BY <2>5, <2>s, <4>2 DEF SkipLine
        <5>. QED BY <3>2, <5>1, GuardDownLines
      <4>. QED BY <2>5, <4>1, <4>2
    <3>5. /\ at[u] > 4 => "markRule" \notin kernel
          /\ at[u] > 5 => "srcRule" \notin kernel
          /\ at[u] > 6 => "unreachable" \notin kernel /\ "linkRoute" \notin kernel
      BY <1>2, <3>3 DEF GuardGone
    <3>6. /\ at'[u] > 4 => "markRule" \notin kernel'
          /\ at'[u] > 5 => "srcRule" \notin kernel'
          /\ at'[u] > 6 => "unreachable" \notin kernel' /\ "linkRoute" \notin kernel'
      BY <3>2, <3>4, <3>5
    <3>. QED BY <1>2, <3>2, <3>3, <3>6 DEF GuardGone
  <2>6. CASE UnitSettles(u)
    <3>1. /\ at[u] = Len(Script(u)) + 1 /\ kernel' = kernel
          /\ state' = [state EXCEPT ![u] = IF @ = "activating" THEN "active" ELSE "inactive"]
      BY <2>6 DEF UnitSettles
    <3>2. Busy(u)
      BY <1>0, <3>1, ScriptLength DEF UnitsInv
    <3>3. CASE state[u] = "activating"
      <4>1. state'["guard"] = "active"
        BY <1>0, <1>2, <3>1, <3>3
      <4>. QED BY <4>1, <1>d
    <3>4. CASE state[u] = "deactivating"
      <4>0. at[u] = Len(GuardDown) + 1
        BY <2>s, <3>1, <3>4
      <4>1. at["guard"] = 7
        BY <1>2, <4>0, GuardDownLines
      <4>2. kernel \cap (Policy \cup {"linkRoute"}) = {}
        BY <1>2, <3>4, <4>1 DEF GuardGone, Policy
      <4>3. state'["guard"] = "inactive"
        BY <1>0, <1>2, <3>1, <3>4
      <4>. QED BY <3>1, <4>2, <4>3 DEF GuardGone
    <3>. QED BY <3>2, <3>3, <3>4 DEF Busy
  <2>. QED BY <2>1, <2>2, <2>3, <2>4, <2>5, <2>6 DEF UnitStep
<1>. QED BY <1>1, <1>2

\* The last line of the link's stop removes its device.
LEMMA LinkDownLast ==
  /\ Len(LinkDown) \in {1, 2}
  /\ ~(LinkDown[Len(LinkDown)].items \subseteq Rejects)
  /\ \A k : "iface" \notin Effect(k, LinkDown[Len(LinkDown)])
<1>1. Len(LinkDown) \in {1, 2} /\ LinkDown[Len(LinkDown)] \in {Line("pop", {"iface", "linkRoute"}),
                                                             Line("del", {"iface", "linkRoute"})}
  BY DEF LinkDown
<1>2. \A l \in {Line("pop", {"iface", "linkRoute"}), Line("del", {"iface", "linkRoute"})} :
         ~(l.items \subseteq Rejects) /\ \A k : "iface" \notin Effect(k, l)
  BY DEF Line, Effect, Rejects
<1>. QED BY <1>1, <1>2

LEMMA LinkGoneUnit ==
  ASSUME TypeInv, LinkGone, NEW u \in Units, UnitStep(u)
  PROVE  LinkGone'
<1>. USE GuardAndLink
<1>0. /\ UnitsInv /\ state \in [Units -> States]
      /\ at \in [Units \cup Sessions -> 0 .. 9] /\ u \notin Sessions
      /\ at["link"] \in 0 .. 9
  BY UnitsAndSessions DEF TypeInv, TypeOK, States
<1>q. ASSUME "iface" \in kernel' => "iface" \in kernel,
             state'["link"] = state["link"], at'["link"] = at["link"]
      PROVE  LinkGone'
  BY <1>q DEF LinkGone
<1>d. ASSUME state'["link"] \notin {"inactive", "deactivating"} PROVE LinkGone'
  BY <1>d DEF LinkGone
<1>g. ASSUME "iface" \notin kernel' PROVE LinkGone'
  BY <1>g DEF LinkGone
<1>1. CASE u # "link"
  <2>1. state'["link"] = state["link"] /\ at'["link"] = at["link"]
    BY <1>0, <1>1 DEF UnitStep, NothingToDo, BeginStart, BeginStop, AbortStart, RunLine,
                      SkipLine, FailLine, UnitFails, UnitSettles
  <2>2. kernel' = kernel \/ (u = "guard" /\ RunLine(u))
    BY <1>1, KernelOf, LinkLines
  <2>3. "iface" \in kernel' => "iface" \in kernel
    BY <2>2, GuardLinesDevice
  <2>. QED BY <2>1, <2>3, <1>q
<1>2. CASE u = "link"
  <2>s. state[u] # "activating" => Script(u) = LinkDown
    BY <1>0, <1>2 DEF Script
  <2>1. CASE NothingToDo(u)
    BY <2>1, <1>q DEF NothingToDo
  <2>2. CASE BeginStart(u) \/ AbortStart(u) \/ FailLine(u)
    <3>1. state'["link"] = "activating" \/ state'["link"] = "failed"
      BY <1>0, <1>2, <2>2 DEF BeginStart, AbortStart, FailLine, UnitFails
    <3>. QED BY <3>1, <1>d
  <2>3. CASE BeginStop(u)
    <3>1. state'["link"] = "deactivating" /\ at'["link"] = 1
      BY <1>0, <1>2, <2>3 DEF BeginStop
    <3>2. ~(1 > Len(LinkDown))
      BY LinkDownLast
    <3>. QED BY <3>1, <3>2 DEF LinkGone
  <2>4. CASE (RunLine(u) \/ SkipLine(u)) /\ state[u] = "activating"
    <3>1. state' = state
      BY <2>4 DEF RunLine, SkipLine
    <3>. QED BY <1>2, <2>4, <3>1, <1>d
  <2>5. CASE (RunLine(u) \/ SkipLine(u)) /\ state[u] # "activating"
    <3>1. at[u] \in 1 .. Len(LinkDown)
      BY <2>5, <2>s DEF RunLine, SkipLine, Running
    <3>2. at'[u] = at[u] + 1 /\ state' = state
      BY <1>0, <2>5 DEF RunLine, SkipLine
    <3>3. at[u] # 0
      BY <3>1, LinkDownLast
    <3>4. state[u] = "deactivating"
      BY <1>0, <2>5, <3>3 DEF UnitsInv, Busy
    <3>5. CASE at[u] = Len(LinkDown)
      <4>1. ~SkipLine(u)
        BY <2>5, <2>s, <3>5, LinkDownLast DEF SkipLine
      <4>2. kernel' = Effect(kernel, LinkDown[Len(LinkDown)])
        BY <2>5, <2>s, <3>5, <4>1 DEF RunLine
      <4>. QED BY <4>2, LinkDownLast, <1>g
    <3>6. CASE at[u] # Len(LinkDown)
      <4>1. ~(at'[u] > Len(LinkDown))
        BY <3>1, <3>2, <3>6, LinkDownLast
      <4>. QED BY <1>2, <3>2, <3>4, <4>1 DEF LinkGone
    <3>. QED BY <3>5, <3>6
  <2>6. CASE UnitSettles(u)
    <3>1. /\ at[u] = Len(Script(u)) + 1 /\ kernel' = kernel
          /\ state' = [state EXCEPT ![u] = IF @ = "activating" THEN "active" ELSE "inactive"]
      BY <2>6 DEF UnitSettles
    <3>2. Busy(u)
      BY <1>0, <3>1, ScriptLength DEF UnitsInv
    <3>3. CASE state[u] = "activating"
      <4>1. state'["link"] = "active"
        BY <1>0, <1>2, <3>1, <3>3
      <4>. QED BY <4>1, <1>d
    <3>4. CASE state[u] = "deactivating"
      <4>0. at[u] = Len(LinkDown) + 1
        BY <2>s, <3>1, <3>4
      <4>1. at["link"] > Len(LinkDown)
        BY <1>2, <4>0, LinkDownLast
      <4>. QED BY <1>2, <3>1, <3>4, <4>1, <1>g DEF LinkGone
    <3>. QED BY <3>2, <3>3, <3>4 DEF Busy
  <2>. QED BY <2>1, <2>2, <2>3, <2>4, <2>5, <2>6 DEF UnitStep
<1>. QED BY <1>1, <1>2

LEMMA GoneNext ==
  ASSUME LinkInv, RepairInv, GuardGone, LinkGone, [Next]_vars
  PROVE  GuardGone' /\ LinkGone'
<1>. USE GuardAndLink
<1>0. TypeInv /\ LinkNeedsGuard /\ at \in [Units \cup Sessions -> 0 .. 9]
  BY DEF LinkInv, TypeInv, TypeOK
<1>q. ASSUME kernel' \subseteq kernel, state' = state,
             at'["guard"] = at["guard"], at'["link"] = at["link"]
      PROVE  GuardGone' /\ LinkGone'
  BY <1>q DEF GuardGone, LinkGone
<1>1. ASSUME NEW s \in Sessions, Invoke(s) \/ SessionStep(s) \/ Kill(s)
      PROVE  GuardGone' /\ LinkGone'
  <2>1. s \notin Units /\ s # "link" /\ s # "guard"
    BY UnitsAndSessions
  <2>2. CASE RunLine(s)
    <3>1. state' = state /\ at'["link"] = at["link"]
      BY <1>0, <2>1, <2>2 DEF RunLine
    <3>2. at[s] # 0
      BY <2>2, ScriptLength DEF RunLine, Running
    <3>3. state["guard"] = "active"
      BY <1>0, <3>2, RepairAlone
    <3>4. "iface" \in kernel' <=> "iface" \in kernel
      BY <1>0, <2>2, GuardLinesDevice
    <3>. QED BY <3>1, <3>3, <3>4 DEF GuardGone, LinkGone
  <2>3. CASE ~RunLine(s)
    <3>1. kernel' = kernel /\ state' = state /\ at'["link"] = at["link"] /\ at'["guard"] = at["guard"]
      BY <1>0, <1>1, <2>1, <2>3
         DEF Invoke, SessionStep, Kill, AskSystemd, Request, RunScript, Missing, EditFiles,
             Check, SkipLine, FailLine, RepairScriptEnds
    <3>. QED BY <3>1, <1>q
  <2>. QED BY <2>2, <2>3
<1>2. ASSUME Environment PROVE GuardGone' /\ LinkGone'
  <2>1. CASE Reboot
    BY <2>1 DEF Reboot, GuardGone, LinkGone
  <2>2. CASE FirewallReload \/ LinkLost
    BY <2>2, <1>q DEF FirewallReload, LinkLost
  <2>. QED BY <1>2, <2>1, <2>2 DEF Environment
<1>3. ASSUME UNCHANGED vars PROVE GuardGone' /\ LinkGone'
  BY <1>3, <1>q DEF vars
<1>. QED BY <1>0, <1>1, <1>2, <1>3, GuardGoneUnit, LinkGoneUnit DEF Next

\* The calls of an uninstall: units are disabled, then files are removed.
LEMMA UninstallAt ==
  ASSUME TypeInv, NEW s \in Sessions, sess[s].cmd = "uninstall", sess[s].pc # 0
  PROVE  LET c == CallOf(s)  p == sess[s].pc IN
         /\ p \in 1 .. Before + 4 /\ Before \in 0 .. 1
         /\ p <= Before + 2 => /\ c.do = "disable"
                               /\ c.unit = IF p = Before + 1 THEN "link"
                                           ELSE IF p = Before + 2 THEN "guard" ELSE "ara"
         /\ p > Before + 2 => /\ c.do = "remove"
                              /\ c.unit = IF p = Before + 3 THEN "units" ELSE "config"
         /\ \A ok \in BOOLEAN : Goes(sess[s], ok) = IF p = Before + 4 THEN 0 ELSE p + 1
<1>1. /\ sess[s].pc \in 1 .. Len(Program["uninstall"])
      /\ CallOf(s) = Program["uninstall"][sess[s].pc]
  BY AtACall
<1>2. CASE Mode = "ara"
  <2>1. Before = 1 /\ sess[s].pc \in 1 .. 5
    BY <1>1, <1>2, UninstallText
  <2>2. \/ sess[s].pc = 1 \/ sess[s].pc = 2 \/ sess[s].pc = 3
        \/ sess[s].pc = 4 \/ sess[s].pc = 5
    BY <2>1
  <2>. QED BY <1>1, <1>2, <2>1, <2>2, UninstallText DEF Goes, Call
<1>3. CASE Mode # "ara"
  <2>1. Before = 0 /\ sess[s].pc \in 1 .. 4
    BY <1>1, <1>3, UninstallText
  <2>2. sess[s].pc = 1 \/ sess[s].pc = 2 \/ sess[s].pc = 3 \/ sess[s].pc = 4
    BY <2>1
  <2>. QED BY <1>1, <1>3, <2>1, <2>2, UninstallText DEF Goes, Call
<1>. QED BY <1>2, <1>3

\* A unit's step brings no unit back that is down for good.
LEMMA OverKept ==
  ASSUME TypeInv, NEW u \in Units, UnitStep(u), NEW v \in Units, Over(v)
  PROVE  Over(v)'
<1>0. state \in [Units -> States]
  BY DEF TypeInv, TypeOK, States
<1>1. Down(v)'
  BY <1>0, UnitEffect DEF Over, Down, Busy
<1>2. job'[v] # "start" /\ v \notin enabled'
  BY UnitEffect DEF Over
<1>. QED BY <1>1, <1>2 DEF Over

LEMMA DoneKept ==
  ASSUME \A v \in Units : Over(v) => Over(v)', files' \subseteq files, NEW p, UninstallDone(p)
  PROVE  UninstallDone(p)'
<1>1. Mode = "ara" => "ara" \in Units
  BY DEF Units
<1>. QED BY <1>1, GuardAndLink DEF UninstallDone

\* An uninstall goes on from a unit that is down for good.
LEMMA DoneNext ==
  ASSUME Before \in 0 .. 1, NEW p \in 1 .. Before + 2, UninstallDone(p)',
         Over(IF p = Before + 1 THEN "link" ELSE IF p = Before + 2 THEN "guard" ELSE "ara")'
  PROVE  UninstallDone(p + 1)'
<1>1. CASE p = Before + 1
  BY <1>1 DEF UninstallDone, Before
<1>2. CASE p = Before + 2
  BY <1>2 DEF UninstallDone, Before
<1>3. CASE p # Before + 1 /\ p # Before + 2
  BY <1>3 DEF UninstallDone, Before
<1>. QED BY <1>1, <1>2, <1>3

\* Without unit files nothing is left to be done.
LEMMA DoneByAll ==
  ASSUME "units" \notin files, \A u \in Units : Over(u), NEW p
  PROVE  UninstallDone(p)
<1>1. Mode = "ara" => "ara" \in Units
  BY DEF Units
<1>. QED BY <1>1, GuardAndLink DEF UninstallDone

LEMMA UninstallUnit ==
  ASSUME TypeInv, UninstallInv, NEW u \in Units, UnitStep(u)
  PROVE  UninstallInv'
<1>0. /\ files' = files /\ enabled' = enabled
      /\ \A v \in Units : Over(v) => Over(v)'
  BY UnitEffect, OverKept
<1>1. "units" \notin files' => \A v \in Units : Over(v)'
  BY <1>0 DEF UninstallInv
<1>2. ASSUME NEW s \in Sessions, sess'[s].cmd = "uninstall"
      PROVE  /\ UninstallDone(sess[s].pc)'
             /\ sess'[s].waits => CallOf(s)'.unit \notin enabled'
  <2>0. PICK p : p = sess[s].pc
    OBVIOUS
  <2>d. ASSUME NEW n, n = sess'[s].pc, UninstallDone(n)' PROVE UninstallDone(sess[s].pc)'
    BY <2>d DEF UninstallDone
  <2>1. CASE sess'[s] = sess[s]
    <3>1. UninstallDone(p)
      BY <1>2, <2>0, <2>1 DEF UninstallInv
    <3>2. UninstallDone(p)'
      BY <1>0, <3>1, DoneKept
    <3>3. CallOf(s)' = CallOf(s)
      BY <2>1 DEF CallOf
    <3>. QED BY <1>0, <1>2, <2>0, <2>1, <2>d, <3>2, <3>3 DEF UninstallInv
  <2>2. CASE sess'[s] # sess[s]
    <3>1. PICK ok \in BOOLEAN :
            /\ sess'[s] = Advance(sess[s], ok)
            /\ ok => /\ CallOf(s).unit = u /\ job'[u] = "none"
                     /\ state'[u] \in IF JobOf[CallOf(s).do] = "start" THEN {"active"}
                                      ELSE {"inactive", "failed"}
            /\ ~ok => JobOf[CallOf(s).do] = "start"
      BY <2>2, Answered
    <3>2. sess[s].waits /\ sess[s].pc # 0 /\ CallOf(s).do \in DOMAIN JobOf
      BY <2>2, Answered, AtACall
    <3>3. /\ sess[s].cmd = "uninstall"
          /\ ~sess'[s].waits /\ sess'[s].pc = Goes(sess[s], ok)
      <4>1. sess'[s] = Advance(sess[s], ok) /\ sess'[s].cmd # "none"
        BY <1>2, <3>1
      <4>. QED BY <1>2, <4>1, GoesOn
    <3>. DEFINE v == IF p = Before + 1 THEN "link" ELSE IF p = Before + 2 THEN "guard" ELSE "ara"
    <3>4. /\ p \in 1 .. Before + 2 /\ Before \in 0 .. 1
          /\ CallOf(s).do = "disable" /\ CallOf(s).unit = v
          /\ p + 1 = sess'[s].pc
      <4>1. p <= Before + 2
        BY <2>0, <3>2, <3>3, UninstallAt DEF JobOf
      <4>. QED BY <2>0, <3>2, <3>3, <4>1, UninstallAt
    <3>5. ok /\ u = v /\ job'[u] = "none" /\ state'[u] \in {"inactive", "failed"}
      BY <3>1, <3>4 DEF JobOf
    <3>6. u \notin enabled'
      BY <1>0, <3>2, <3>3, <3>4, <3>5 DEF UninstallInv
    <3>7. Over(v)'
      BY <3>5, <3>6 DEF Over, Down
    <3>8. UninstallDone(p)
      BY <2>0, <3>3 DEF UninstallInv
    <3>9. UninstallDone(p)'
      BY <1>0, <3>8, DoneKept
    <3>10. UninstallDone(p + 1)'
      BY <3>4, <3>7, <3>9, DoneNext
    <3>. QED BY <2>d, <3>3, <3>4, <3>10
  <2>. QED BY <2>1, <2>2
<1>. QED BY <1>1, <1>2 DEF UninstallInv

\* What another session does to one that uninstalls: without a command beside it
\* that starts or installs, it is not noticed.
LEMMA UninstallBeside ==
  ASSUME NoneBeside("uninstall", Starters), TypeInv, UninstallInv,
         NEW t \in Sessions, Invoke(t) \/ SessionStep(t) \/ Kill(t),
         NEW r \in Sessions, r # t, sess'[r].cmd = "uninstall"
  PROVE  /\ UninstallDone(sess[r].pc)'
         /\ sess'[r].waits => CallOf(r)'.unit \notin enabled'
<1>1. sess[r].cmd = "uninstall" => sess[t].cmd \notin Starters
  BY DEF NoneBeside
<1>2. sess'[r] = sess[r]
  <2>1. SUFFICES ASSUME sess'[r] # sess[r] PROVE FALSE
    OBVIOUS
  <2>2. /\ AskSystemd(t) /\ sess[r].waits /\ sess'[r] = Advance(sess[r], FALSE)
        /\ CallOf(r).do \in DOMAIN JobOf /\ JobOf[CallOf(r).do] # JobOf[CallOf(t).do]
    BY <2>1, OthersEffect
  <2>3. sess[r].cmd = "uninstall" /\ sess[r].pc # 0
    BY <2>2, AtACall, GoesOn
  <2>4. CallOf(r).do = "disable"
    BY <2>2, <2>3, UninstallAt DEF JobOf
  <2>5. JobOf[CallOf(t).do] = "start" /\ sess[t].pc # 0 /\ CallOf(t).do \in DOMAIN JobOf
    BY <2>2, <2>4 DEF AskSystemd, AtCall, JobOf
  <2>. QED BY <1>1, <2>3, <2>5, Asks
<1>3. sess[t].cmd \notin Starters
  BY <1>1, <1>2
<1>4. \A v \in Units : Over(v) => Over(v)'
  <2>1. \A v \in Units : /\ job'[v] = "start" => job[v] = "start"
                         /\ v \in enabled' => v \in enabled
    BY <1>3, SessionEffect, Asked
  <2>. QED BY <2>1, SessionEffect DEF Over, Down
<1>5. files' \subseteq files
  <2>1. CASE EditFiles(t)
    <3>1. /\ CallOf(t).do \in {"write", "remove"} /\ sess[t].pc # 0
          /\ files' = IF CallOf(t).do = "write" THEN files \cup {CallOf(t).unit}
                      ELSE files \ {CallOf(t).unit}
      BY <2>1 DEF EditFiles, AtCall
    <3>2. CallOf(t).do # "write"
      BY <1>3, <3>1, AtACall, OwnCalls
    <3>. QED BY <3>1, <3>2
  <2>. QED BY <2>1, SessionEffect
<1>6. enabled' \subseteq enabled
  <2>1. CASE AskSystemd(t)
    <3>1. /\ sess[t].pc # 0 /\ CallOf(t).do \in DOMAIN JobOf
          /\ enabled' = CASE CallOf(t).do = "enable"  -> enabled \cup {CallOf(t).unit}
                          [] CallOf(t).do = "disable" -> enabled \ {CallOf(t).unit}
                          [] OTHER                    -> enabled
      BY <2>1 DEF AskSystemd, AtCall
    <3>2. CallOf(t).do # "enable"
      BY <1>3, <3>1, Asks
    <3>. QED BY <3>1, <3>2
  <2>. QED BY <2>1, SessionEffect
<1>7. PICK p : p = sess[r].pc
  OBVIOUS
<1>8. UninstallDone(p)'
  <2>1. UninstallDone(p)
    BY <1>2, <1>7 DEF UninstallInv
  <2>. QED BY <1>4, <1>5, <2>1, DoneKept
<1>9. UninstallDone(sess[r].pc)'
  BY <1>2, <1>7, <1>8 DEF UninstallDone
<1>10. CallOf(r)' = CallOf(r)
  BY <1>2 DEF CallOf
<1>11. sess[r].waits => CallOf(r).unit \notin enabled
  BY <1>2 DEF UninstallInv
<1>. QED BY <1>2, <1>6, <1>9, <1>10, <1>11

LEMMA UninstallSession ==
  ASSUME NoneBeside("uninstall", Starters), TypeInv, UninstallInv,
         NEW s \in Sessions, Invoke(s) \/ SessionStep(s) \/ Kill(s)
  PROVE  UninstallInv'
<1>. USE GuardAndLink
<1>0. /\ sess \in [Sessions -> SessionType] /\ s \notin Units
      /\ job \in [Units -> {"none", "start", "stop"}]
  BY UnitsAndSessions DEF TypeInv, TypeOK, SessionType
<1>b. \A r \in Sessions : r # s /\ sess'[r].cmd = "uninstall" =>
        /\ UninstallDone(sess[r].pc)'
        /\ sess'[r].waits => CallOf(r)'.unit \notin enabled'
  BY UninstallBeside
<1>u. ASSUME "units" \notin files' => \A u \in Units : Over(u)',
             sess'[s].cmd = "uninstall" =>
               /\ ~sess'[s].waits
               /\ \E n : n = sess'[s].pc /\ UninstallDone(n)'
      PROVE  UninstallInv'
  <2>1. ASSUME sess'[s].cmd = "uninstall"
        PROVE  UninstallDone(sess[s].pc)' /\ ~sess'[s].waits
    <3>1. PICK n : n = sess'[s].pc /\ UninstallDone(n)'
      BY <1>u, <2>1
    <3>2. UninstallDone(sess[s].pc)'
      BY <3>1 DEF UninstallDone
    <3>. QED BY <1>u, <2>1, <3>2
  <2>2. \A r \in Sessions : sess'[r].cmd = "uninstall" =>
          /\ UninstallDone(sess[r].pc)'
          /\ sess'[r].waits => CallOf(r)'.unit \notin enabled'
    BY <1>b, <2>1
  <2>. QED BY <1>u, <2>2 DEF UninstallInv
<1>e. ASSUME UNCHANGED <<state, job, enabled>>
      PROVE  \A u \in Units : Over(u)' <=> Over(u)
  BY <1>e DEF Over, Down
<1>a. ASSUME NEW ok \in BOOLEAN, sess'[s] = Advance(sess[s], ok), AtCall(s),
             sess'[s].cmd = "uninstall"
      PROVE  /\ sess[s].cmd = "uninstall" /\ sess[s].pc # 0 /\ ~sess'[s].waits
             /\ sess'[s].pc = sess[s].pc + 1 /\ sess[s].pc # Before + 4
  <2>1. /\ sess[s].cmd = "uninstall" /\ sess[s].pc # 0
        /\ ~sess'[s].waits /\ sess'[s].pc = Goes(sess[s], ok) /\ Goes(sess[s], ok) # 0
    BY <1>a, GoesOn DEF AtCall
  <2>. QED BY <2>1, UninstallAt
<1>1. CASE Invoke(s)
  <2>1. PICK c \in Commands : sess' = [sess EXCEPT ![s] = Begun(c)]
    BY <1>1 DEF Invoke
  <2>2. sess'[s].pc = 1 /\ ~sess'[s].waits /\ UNCHANGED <<state, job, enabled, files>>
    BY <1>0, <1>1, <2>1 DEF Invoke, Begun
  <2>3. UninstallDone(1)'
    BY DEF UninstallDone, Before
  <2>. QED BY <1>e, <1>u, <2>2, <2>3 DEF UninstallInv
<1>2. CASE AskSystemd(s)
  <2>1. /\ sess'[s] = [sess[s] EXCEPT !.waits = TRUE] /\ "units" \in files
        /\ files' = files /\ state' = state
        /\ CallOf(s).do \in DOMAIN JobOf
        /\ job' = [v \in Units |-> IF v \in Pulled(CallOf(s).unit, JobOf[CallOf(s).do])
                                   THEN JobOf[CallOf(s).do] ELSE job[v]]
        /\ enabled' = CASE CallOf(s).do = "enable"  -> enabled \cup {CallOf(s).unit}
                        [] CallOf(s).do = "disable" -> enabled \ {CallOf(s).unit}
                        [] OTHER                    -> enabled
    BY <1>2 DEF AskSystemd, Request
  <2>2. sess'[s].cmd = sess[s].cmd /\ sess'[s].pc = sess[s].pc /\ CallOf(s)' = CallOf(s)
    <3>1. sess[s] \in SessionType
      BY <1>0
    <3>2. sess'[s].cmd = sess[s].cmd /\ sess'[s].pc = sess[s].pc
      BY <2>1, <3>1 DEF SessionType
    <3>. QED BY <3>2 DEF CallOf
  <2>3. CASE sess[s].cmd # "uninstall"
    BY <1>u, <2>1, <2>2, <2>3
  <2>4. CASE sess[s].cmd = "uninstall"
    <3>1. sess[s].pc # 0
      BY <1>2 DEF AskSystemd, AtCall
    <3>2. CallOf(s).do = "disable"
      BY <2>1, <2>4, <3>1, UninstallAt DEF JobOf
    <3>3. enabled' = enabled \ {CallOf(s).unit} /\ \A v \in Units : job'[v] \in {job[v], "stop"}
      BY <2>1, <3>2 DEF JobOf
    <3>4. \A v \in Units : Over(v) => Over(v)'
      BY <2>1, <3>3 DEF Over, Down
    <3>5. PICK p : p = sess[s].pc
      OBVIOUS
    <3>6. UninstallDone(p)'
      <4>1. UninstallDone(p)
        BY <2>4, <3>5 DEF UninstallInv
      <4>. QED BY <2>1, <3>4, <4>1, DoneKept
    <3>7. UninstallDone(sess[s].pc)'
      BY <2>2, <3>5, <3>6 DEF UninstallDone
    <3>8. CallOf(s)'.unit \notin enabled' /\ "units" \in files'
      BY <2>1, <2>2, <3>3
    <3>9. \A r \in Sessions : sess'[r].cmd = "uninstall" =>
            /\ UninstallDone(sess[r].pc)'
            /\ sess'[r].waits => CallOf(r)'.unit \notin enabled'
      BY <1>b, <3>7, <3>8
    <3>. QED BY <3>8, <3>9 DEF UninstallInv
  <2>. QED BY <2>3, <2>4
<1>3. CASE RunScript(s)
  <2>1. /\ sess'[s] = [sess[s] EXCEPT !.waits = TRUE] /\ CallOf(s).do = "script"
        /\ sess[s].pc # 0 /\ UNCHANGED <<state, job, enabled, files>>
    BY <1>0, <1>3 DEF RunScript, AtCall
  <2>2. sess'[s].cmd = sess[s].cmd
    BY <1>0, <2>1 DEF SessionType
  <2>3. sess[s].cmd # "uninstall"
    BY <2>1, UninstallAt
  <2>. QED BY <1>e, <1>u, <2>1, <2>2, <2>3 DEF UninstallInv
<1>4. CASE Missing(s)
  <2>1. /\ AtCall(s) /\ sess'[s] = Advance(sess[s], FALSE)
        /\ UNCHANGED <<state, job, enabled, files>>
    BY <1>0, <1>4 DEF Missing
  <2>2. CASE sess'[s].cmd # "uninstall"
    BY <1>e, <1>u, <2>1, <2>2 DEF UninstallInv
  <2>3. CASE sess'[s].cmd = "uninstall"
    <3>1. /\ sess[s].cmd = "uninstall" /\ sess[s].pc # 0 /\ ~sess'[s].waits
          /\ sess'[s].pc = sess[s].pc + 1
      BY <2>1, <2>3, <1>a
    <3>2. "units" \notin files
      BY <1>4, <3>1, UninstallAt DEF Missing
    <3>3. \A u \in Units : Over(u)'
      BY <1>e, <2>1, <3>2 DEF UninstallInv
    <3>4. PICK n : n = sess'[s].pc
      OBVIOUS
    <3>5. UninstallDone(n)'
      BY <2>1, <3>2, <3>3 DEF UninstallDone, Units
    <3>. QED BY <1>u, <3>1, <3>3, <3>4, <3>5
  <2>. QED BY <2>2, <2>3
<1>5. CASE EditFiles(s)
  <2>1. /\ AtCall(s) /\ sess'[s] = Advance(sess[s], TRUE)
        /\ UNCHANGED <<state, job, enabled>> /\ CallOf(s).do \in {"write", "remove"}
        /\ files' = IF CallOf(s).do = "write" THEN files \cup {CallOf(s).unit}
                    ELSE files \ {CallOf(s).unit}
        /\ sess[s].pc # 0
    BY <1>0, <1>5 DEF EditFiles, AtCall
  <2>2. "units" \notin files' => \A u \in Units : Over(u)
    <3>1. CASE "units" \notin files
      BY <3>1 DEF UninstallInv
    <3>2. CASE "units" \in files /\ "units" \notin files'
      <4>1. CallOf(s).do = "remove" /\ CallOf(s).unit = "units"
        BY <2>1, <3>2
      <4>2. sess[s].cmd = "uninstall"
        BY <2>1, <4>1, AtACall, OwnCalls
      <4>3. sess[s].pc = Before + 3 /\ Before \in 0 .. 1
        BY <2>1, <4>1, <4>2, UninstallAt
      <4>4. UninstallDone(Before + 3)
        BY <4>2, <4>3 DEF UninstallInv
      <4>. QED BY <4>3, <4>4 DEF UninstallDone, Units
    <3>. QED BY <3>1, <3>2
  <2>3. CASE sess'[s].cmd # "uninstall"
    BY <1>e, <1>u, <2>1, <2>2, <2>3
  <2>4. CASE sess'[s].cmd = "uninstall"
    <3>1. /\ sess[s].cmd = "uninstall" /\ ~sess'[s].waits
          /\ sess'[s].pc = sess[s].pc + 1 /\ sess[s].pc # Before + 4
      BY <2>1, <2>4, <1>a
    <3>2. sess[s].pc = Before + 3 /\ Before \in 0 .. 1 /\ CallOf(s).unit = "units"
          /\ CallOf(s).do = "remove"
      <4>1. sess[s].pc > Before + 2 /\ sess[s].pc \in 1 .. Before + 4 /\ Before \in 0 .. 1
        BY <2>1, <3>1, UninstallAt
      <4>2. sess[s].pc = Before + 3
        BY <3>1, <4>1
      <4>. QED BY <2>1, <3>1, <4>1, <4>2, UninstallAt
    <3>3. "units" \notin files'
      BY <2>1, <3>2
    <3>4. \A u \in Units : Over(u)'
      BY <1>e, <2>1, <2>2, <3>3
    <3>5. PICK n : n = sess'[s].pc
      OBVIOUS
    <3>6. UninstallDone(n)'
      BY <3>3, <3>4 DEF UninstallDone, Units
    <3>. QED BY <1>u, <3>1, <3>4, <3>5, <3>6
  <2>. QED BY <2>3, <2>4
<1>6. CASE Check(s)
  <2>1. PICK ok \in Answers(CallOf(s).do) : sess' = [sess EXCEPT ![s] = Advance(@, ok)]
    BY <1>6 DEF Check
  <2>2. /\ CallOf(s).do \in {"isActive", "baseline", "route", "escape"} /\ AtCall(s)
        /\ ok \in BOOLEAN /\ sess'[s] = Advance(sess[s], ok)
        /\ UNCHANGED <<state, job, enabled, files>>
    BY <1>0, <1>6, <2>1 DEF Check, Answers
  <2>3. sess'[s].cmd # "uninstall"
    BY <2>2, <1>a, UninstallAt
  <2>. QED BY <1>e, <1>u, <2>2, <2>3 DEF UninstallInv
<1>7. CASE RunLine(s) \/ SkipLine(s)
  BY <1>7 DEF RunLine, SkipLine, UninstallInv, UninstallDone, Over, Down, CallOf
<1>8. CASE FailLine(s) \/ RepairScriptEnds(s)
  <2>a. FailLine(s) => at[s] # 0
    BY ScriptLength DEF FailLine, Running
  <2>b. RepairScriptEnds(s) => at[s] # 0
    BY GuardUpLines DEF RepairScriptEnds
  <2>1. At(s, "repair", 2)
    BY <1>8, <2>a, <2>b, OnlyRepairs
  <2>2. PICK ok \in BOOLEAN : sess'[s] = Advance(sess[s], ok)
    BY <1>0, <1>8 DEF FailLine, RepairScriptEnds
  <2>3. sess'[s].cmd # "uninstall"
    <3>1. sess[s] \in SessionType /\ sess[s].cmd = "repair"
      BY <2>1, AtACall DEF At
    <3>2. sess'[s].cmd = "none" \/ sess'[s].cmd = sess[s].cmd
      BY <2>2, GoesOn
    <3>. QED BY <3>1, <3>2
  <2>4. UNCHANGED <<state, job, enabled, files>>
    BY <1>0, <1>8 DEF FailLine, RepairScriptEnds
  <2>. QED BY <1>e, <1>u, <2>3, <2>4 DEF UninstallInv
<1>9. CASE Kill(s)
  <2>1. sess'[s].cmd # "uninstall" /\ UNCHANGED <<state, job, enabled, files>>
    BY <1>0, <1>9, IdleFields DEF Kill
  <2>. QED BY <1>e, <1>u, <2>1 DEF UninstallInv
<1>. QED BY <1>1, <1>2, <1>3, <1>4, <1>5, <1>6, <1>7, <1>8, <1>9 DEF SessionStep

LEMMA UninstallNext ==
  ASSUME NoneBeside("uninstall", Starters), TypeInv, UninstallInv, [Next]_vars
  PROVE  UninstallInv'
<1>1. ASSUME Environment PROVE UninstallInv'
  <2>1. CASE Reboot
    <3>1. /\ \A u \in Units : state'[u] = "inactive" /\ ("units" \notin files => job'[u] = "none")
          /\ \A s \in Sessions : sess'[s] = Idle
          /\ UNCHANGED <<enabled, files>>
      BY <2>1 DEF Reboot
    <3>. QED BY <3>1, IdleFields DEF UninstallInv, Over, Down
  <2>2. CASE FirewallReload \/ LinkLost
    BY <2>2 DEF FirewallReload, LinkLost, UninstallInv, UninstallDone, Over, Down, CallOf
  <2>. QED BY <1>1, <2>1, <2>2 DEF Environment
<1>2. ASSUME UNCHANGED vars PROVE UninstallInv'
  BY <1>2 DEF vars, UninstallInv, UninstallDone, Over, Down, CallOf
<1>. QED BY <1>1, <1>2, UninstallUnit, UninstallSession DEF Next

CleanInv == LinkInv /\ RepairInv /\ GuardGone /\ LinkGone /\ UninstallInv

LEMMA CleanInit == Init => CleanInv
BY LinkInit, IdleFields, GuardAndLink
   DEF Init, CleanInv, RepairInv, At, GuardGone, LinkGone, UninstallInv, Over, Down, Policy

LEMMA CleanNext ==
  ASSUME NoneBeside("uninstall", Starters), CleanInv, [Next]_vars
  PROVE  CleanInv'
<1>1. NoneBeside("repair", {"uninstall"})
  BY DEF NoneBeside, Starters
<1>. QED BY <1>1, LinkNext, RepairNext, GoneNext, UninstallNext DEF CleanInv, LinkInv

\* The last call of an uninstall finds everything down and removed.
LEMMA CleanStep ==
  ASSUME NoneBeside("uninstall", Starters), CleanInv, NEW s \in Sessions, Returns(s, "uninstall")
  PROVE  /\ files' = {} /\ enabled = {}
         /\ Down("guard") /\ Down("link")
         /\ state["guard"] = "inactive" => kernel \cap (Policy \cup {"linkRoute"}) = {}
         /\ state["link"] = "inactive" => "iface" \notin kernel
<1>. USE GuardAndLink
<1>0. /\ TypeInv /\ UninstallInv
      /\ sess[s].cmd = "uninstall" /\ sess'[s] = Idle
      /\ sess \in [Sessions -> SessionType] /\ files \subseteq {"units", "config"}
      /\ enabled \subseteq Units
  BY DEF CleanInv, LinkInv, Returns, TypeInv, TypeOK, SessionType
<1>a. ASSUME NEW ok \in BOOLEAN, sess'[s] = Advance(sess[s], ok), sess[s].pc # 0
      PROVE  sess[s].pc = Before + 4
  <2>1. sess'[s].pc = 0
    BY <1>0, IdleFields
  <2>2. Goes(sess[s], ok) = 0
    BY <1>0, <1>a, <2>1, GoesHome
  <2>. QED BY <1>0, <1>a, <2>2, UninstallAt
<1>1. ASSUME NEW u \in Units, UnitStep(u) PROVE FALSE
  <2>1. sess'[s] # sess[s]
    BY <1>0, IdleFields
  <2>2. PICK ok \in BOOLEAN : sess'[s] = Advance(sess[s], ok)
    BY <1>0, <1>1, <2>1, Answered
  <2>3. sess[s].pc # 0 /\ CallOf(s).do \in DOMAIN JobOf
    BY <1>0, <1>1, <2>1, Answered, AtACall
  <2>4. sess[s].pc = Before + 4
    BY <2>2, <2>3, <1>a
  <2>. QED BY <1>0, <2>3, <2>4, UninstallAt DEF JobOf
<1>2. ASSUME NEW t \in Sessions, SessionStep(t)
      PROVE  EditFiles(s) /\ sess[s].pc = Before + 4
  <2>1. t = s
    <3>1. SUFFICES ASSUME t # s PROVE FALSE
      OBVIOUS
    <3>2. /\ AskSystemd(t) /\ sess[s].waits /\ CallOf(s).do \in DOMAIN JobOf
          /\ JobOf[CallOf(s).do] # JobOf[CallOf(t).do]
      BY <1>0, <1>2, <3>1, OthersEffect, IdleFields
    <3>3. CallOf(s).do = "disable"
      BY <1>0, <3>2, AtACall, UninstallAt DEF JobOf
    <3>4. JobOf[CallOf(t).do] = "start" /\ sess[t].pc # 0 /\ CallOf(t).do \in DOMAIN JobOf
      BY <3>2, <3>3 DEF AskSystemd, AtCall, JobOf
    <3>5. sess[t].cmd \in Starters
      BY <1>0, <3>4, Asks
    <3>. QED BY <1>0, <3>1, <3>5 DEF NoneBeside
  <2>2. CASE AskSystemd(s) \/ RunScript(s)
    <3>1. sess'[s] = [sess[s] EXCEPT !.waits = TRUE]
      BY <1>0, <2>2 DEF AskSystemd, Request, RunScript
    <3>. QED BY <1>0, <3>1, IdleFields DEF SessionType
  <2>3. CASE Missing(s)
    <3>1. sess[s].pc # 0 /\ sess'[s] = Advance(sess[s], FALSE)
      BY <1>0, <2>3 DEF Missing, AtCall
    <3>2. sess[s].pc = Before + 4
      BY <3>1, <1>a
    <3>. QED BY <1>0, <2>3, <3>1, <3>2, UninstallAt DEF Missing, JobOf
  <2>4. CASE EditFiles(s)
    <3>1. sess[s].pc # 0 /\ sess'[s] = Advance(sess[s], TRUE)
      BY <1>0, <2>4 DEF EditFiles, AtCall
    <3>. QED BY <2>4, <3>1, <1>a
  <2>5. CASE Check(s)
    <3>1. sess[s].pc # 0 /\ CallOf(s).do \in {"isActive", "baseline", "route", "escape"}
      BY <2>5 DEF Check, AtCall
    <3>. QED BY <1>0, <3>1, UninstallAt
  <2>6. CASE RunLine(s) \/ SkipLine(s)
    BY <1>0, <2>6, IdleFields DEF RunLine, SkipLine
  <2>7. CASE FailLine(s) \/ RepairScriptEnds(s)
    <3>a. FailLine(s) => at[s] # 0
      BY ScriptLength DEF FailLine, Running
    <3>b. RepairScriptEnds(s) => at[s] # 0
      BY GuardUpLines DEF RepairScriptEnds
    <3>. QED BY <1>0, <2>7, <3>a, <3>b, OnlyRepairs DEF At
  <2>. QED BY <1>2, <2>1, <2>2, <2>3, <2>4, <2>5, <2>6, <2>7 DEF SessionStep
<1>3. EditFiles(s) /\ sess[s].pc = Before + 4
  BY <1>1, <1>2 DEF Returns
<1>4. Before \in 0 .. 1 /\ CallOf(s).do = "remove" /\ CallOf(s).unit = "config"
  <2>1. sess[s].pc # 0
    BY <1>3 DEF EditFiles, AtCall
  <2>2. Before \in 0 .. 1
    BY <1>0, <2>1, UninstallAt
  <2>. QED BY <1>0, <1>3, <2>1, <2>2, UninstallAt
<1>5. UninstallDone(Before + 4)
  BY <1>0, <1>3 DEF UninstallInv
<1>6. "units" \notin files
  BY <1>4, <1>5 DEF UninstallDone
<1>7. files' = {}
  BY <1>0, <1>3, <1>4, <1>6 DEF EditFiles
<1>8. \A u \in Units : Over(u)
  BY <1>0, <1>6 DEF UninstallInv
<1>9. Down("guard") /\ Down("link") /\ enabled = {}
  BY <1>0, <1>8 DEF Over
<1>. QED BY <1>7, <1>9 DEF CleanInv, GuardGone, LinkGone

\* An uninstall that ends, whatever the commands before it have left half done
\* and whatever the host has been through, leaves no file, no enabled unit and
\* no running one; a unit that did not fail has taken its entries with it.  A
\* stop or a second uninstall may run beside it; a command that starts units or
\* installs them would undo what it has done.
\* (app.go Uninstall; render.go GuardScript and IPIPScript down.)
THEOREM UninstallsClean ==
  Spec /\ []NoneBeside("uninstall", Starters) => UninstallCleans
<1>1. NoneBeside("uninstall", Starters) /\ CleanInv /\ [Next]_vars => CleanInv'
  BY CleanNext
<1>2. NoneBeside("uninstall", Starters) /\ CleanInv /\ [Next]_vars =>
        [\A s \in Sessions :
           Returns(s, "uninstall") =>
             /\ files' = {} /\ enabled = {}
             /\ Down("guard") /\ Down("link")
             /\ state["guard"] = "inactive" => kernel \cap (Policy \cup {"linkRoute"}) = {}
             /\ state["link"] = "inactive" => "iface" \notin kernel]_vars
  BY CleanStep
<1>. QED BY <1>1, <1>2, CleanInit, PTL DEF Spec, UninstallCleans

=============================================================================
