---------------------------- MODULE EgressGuard ----------------------------
(***************************************************************************)
(* The routed Iran edge: the kernel's policy routing and packet filter,    *)
(* the shell scripts that edit them one command at a time, the systemd     *)
(* units that run the scripts, and the `hamara` commands an operator runs. *)
(*                                                                         *)
(* The promise of this part of Hamara is that Xray's traffic (socket mark  *)
(* 72, or bound to the edge address) leaves through hamara0 or not at all. *)
(*                                                                         *)
(* Data is abstracted to what that promise can tell apart.  The kernel is  *)
(* the set of Hamara's entries it holds; a script is a sequence of         *)
(* additions and removals of entries; a command is a sequence of calls.    *)
(***************************************************************************)
EXTENDS Naturals, Sequences, FiniteSets

CONSTANTS
  Sessions,   \* the `hamara` processes that may run at the same time
  Mode,       \* the routed mode the edge was joined with
  Commands,   \* the commands the sessions may run
  Faults      \* what may go wrong meanwhile

CommandNames ==
  {"join", "start", "stop", "restart", "repair", "leaktest", "uninstall"}

Units == {"guard", "link"} \cup (IF Mode = "ara" THEN {"ara"} ELSE {})

ASSUME ModeAssumption == Mode \in {"ara", "wireguard", "ipip"}
ASSUME CommandsAssumption == Commands \subseteq CommandNames
ASSUME FaultsAssumption ==
  Faults \subseteq {"kill", "reboot", "reload", "linkLost", "lineFails", "xtablesLock"}
ASSUME SessionsAssumption == Sessions \cap {"guard", "link", "ara"} = {}

----------------------------------------------------------------------------
(***************************************************************************)
(* The kernel.                                                             *)
(***************************************************************************)

Policy  == {"unreachable", "markRule", "srcRule"}
Rejects == {"markReject", "srcReject", "mark6Reject"}
Items   == Policy \cup Rejects \cup {"iface", "linkRoute"}

\* IPv4 with mark 72, IPv4 from the edge address, IPv6 with mark 72.
Packets == {"marked", "sourced", "marked6"}

\* The policy rule that sends a packet to Hamara's table, if there is one.
RuleOf == [marked |-> "markRule", sourced |-> "srcRule", marked6 |-> "none"]

\* The OUTPUT rule that rejects the packet on any other interface.
RejectOf == [marked  |-> "markReject", sourced |-> "srcReject",
             marked6 |-> "mark6Reject"]

\* Rules are tried by priority.  In Hamara's table the link's default
\* (metric 10) wins over the unreachable one (metric 32767); a table with no
\* default falls through to the main table, whose default is the WAN.
RouteOf(k, p) ==
  IF RuleOf[p] \notin k THEN "wan"
  ELSE IF "linkRoute" \in k THEN "link"
  ELSE IF "unreachable" \in k THEN "blocked"
  ELSE "wan"

Verdict(k, p) ==
  IF RouteOf(k, p) = "wan" /\ RejectOf[p] \in k THEN "blocked"
  ELSE RouteOf(k, p)

----------------------------------------------------------------------------
(***************************************************************************)
(* The scripts.  "new" is an addition that is refused when the entry is    *)
(* there (`ip rule add`, `ip tunnel add`); "add" is idempotent.            *)
(***************************************************************************)

Line(o, s) == [op |-> o, items |-> s]

\* Faults of the guard's script that the properties must notice: no fallback
\* route, no filter rules, a removal that forgets.
GuardUpWithoutFallback ==
  << Line("del", {"markRule"}),    Line("del", {"srcRule"}),
     Line("new", {"markRule"}),    Line("new", {"srcRule"}),
     Line("add", Rejects) >>

GuardUpWithoutRejects ==
  << Line("add", {"unreachable"}),
     Line("del", {"markRule"}),    Line("del", {"srcRule"}),
     Line("new", {"markRule"}),    Line("new", {"srcRule"}),
     Line("add", {"mark6Reject"}) >>

GuardDownKeepsRules ==
  << Line("del", {"markReject"}), Line("del", {"srcReject"}),
     Line("del", {"mark6Reject"}), Line("del", {"unreachable", "linkRoute"}) >>

\* guard up
GuardUp ==
  << Line("add", {"unreachable"}),
     Line("del", {"markRule"}),    Line("del", {"srcRule"}),
     Line("new", {"markRule"}),    Line("new", {"srcRule"}),
     Line("add", {"markReject"}),  Line("add", {"srcReject"}),
     Line("add", {"mark6Reject"}) >>

\* guard down
GuardDown ==
  << Line("del", {"markReject"}), Line("del", {"srcReject"}),
     Line("del", {"mark6Reject"}),
     Line("del", {"markRule"}),   Line("del", {"srcRule"}),
     Line("del", {"unreachable", "linkRoute"}) >>

\* wg-quick up with its PostUp, or ipip up, which first drops an old tunnel.
LinkUp ==
  (IF Mode = "ipip" THEN << Line("del", {"iface", "linkRoute"}) >> ELSE << >>)
  \o << Line("new", {"iface"}), Line("add", {"linkRoute"}) >>

\* A fault: the link's script flushes the table instead of removing its route.
LinkDownFlushesTable ==
  << Line("del", {"linkRoute", "unreachable"}), Line("del", {"iface", "linkRoute"}) >>

\* wg-quick down needs its interface ("pop"); ipip down does not.
LinkDown ==
  IF Mode = "ipip"
  THEN << Line("del", {"linkRoute"}), Line("del", {"iface", "linkRoute"}) >>
  ELSE << Line("pop", {"iface", "linkRoute"}) >>

Accepts(k, l) ==
  /\ l.op = "new" => l.items \cap k = {}
  /\ l.op = "pop" => "iface" \in k
  /\ l.op = "add" /\ "linkRoute" \in l.items => "iface" \in k

Effect(k, l) ==
  IF l.op \in {"del", "pop"} THEN k \ l.items ELSE k \cup l.items

\* Lines that can exit non-zero: an addition, a refused line, and a removal by
\* iptables, which gives up after 5 seconds of waiting for the xtables lock.
\* The other removals are loops or are followed by `|| true`.
MayFail(k, l) ==
  \/ ~Accepts(k, l)
  \/ "lineFails" \in Faults /\ l.op \in {"new", "add"}
  \/ "xtablesLock" \in Faults /\ l.op = "del" /\ l.items \subseteq Rejects

----------------------------------------------------------------------------
(***************************************************************************)
(* The commands.  A command is a sequence of calls; a call names the call  *)
(* that follows it on success and the one that follows its failure, and 0  *)
(* is the command's return.                                                *)
(***************************************************************************)

Call(do, unit, ok, fail) == [do |-> do, unit |-> unit, ok |-> ok, fail |-> fail]

\* The usual shape: the first error is returned.
UntilError(calls) ==
  [i \in DOMAIN calls |->
     Call(calls[i][1], calls[i][2], IF i = Len(calls) THEN 0 ELSE i + 1, 0)]

\* The other shape: errors are ignored.
Regardless(calls) ==
  [i \in DOMAIN calls |->
     LET n == IF i = Len(calls) THEN 0 ELSE i + 1
     IN  Call(calls[i][1], calls[i][2], n, n)]

OnAra(do) == IF Mode = "ara" THEN << <<do, "ara">> >> ELSE << >>

StartCalls == << <<"enable", "guard">> >> \o OnAra("enable") \o << <<"enable", "link">> >>
\* A fault: stop stops the guard too.
StopCallsWithGuard == << <<"stop", "link">> >> \o OnAra("stop") \o << <<"stop", "guard">> >>

StopCalls  == << <<"stop", "link">> >> \o OnAra("stop")

\* Two faults: the route is probed before the link is stopped; a failed probe
\* returns without the deferred start.
LeakTestCallsProbeFirst ==
  << Call("isActive", "guard", 2, 0), Call("baseline", "link", 3, 0),
     Call("route", "link", 4, 7),     Call("stop", "link", 5, 0),
     Call("escape", "link", 6, 7),    Call("start", "link", 0, 7),
     Call("start", "link", 0, 0) >>

LeakTestCallsNoDefer ==
  << Call("isActive", "guard", 2, 0), Call("baseline", "link", 3, 0),
     Call("stop", "link", 4, 0),      Call("route", "link", 5, 0),
     Call("escape", "link", 6, 0),    Call("start", "link", 0, 7),
     Call("start", "link", 0, 0) >>

\* Once the link has been stopped every return but the last goes through the
\* deferred start, call 7.
LeakTestCalls ==
  << Call("isActive", "guard", 2, 0), Call("baseline", "link", 3, 0),
     Call("stop", "link", 4, 0),      Call("route", "link", 5, 7),
     Call("escape", "link", 6, 7),    Call("start", "link", 0, 7),
     Call("start", "link", 0, 0) >>

Program ==
  [start     |-> UntilError(StartCalls),
   stop      |-> UntilError(StopCalls),
   restart   |-> UntilError(StopCalls \o StartCalls),
   repair    |-> UntilError(<< <<"enable", "guard">>, <<"script", "guard">> >>),
   join      |-> UntilError(<< <<"write", "units">>, <<"write", "config">> >> \o StartCalls),
   leaktest  |-> LeakTestCalls,
   uninstall |-> Regardless(OnAra("disable") \o
                   << <<"disable", "link">>, <<"disable", "guard">>,
                      <<"remove", "units">>, <<"remove", "config">> >>)]

\* A fault: enable without --now asks for something that is not a job.
JobOfEnableOnly == [enable |-> "enable", start |-> "start", disable |-> "stop", stop |-> "stop"]

\* The job a call asks systemd for, and then waits for.
JobOf == [enable |-> "start", start |-> "start", disable |-> "stop", stop |-> "stop"]

----------------------------------------------------------------------------
VARIABLES
  kernel,    \* the entries of Items that exist
  state,     \* state[u]: the systemd state of unit u
  job,       \* job[u]: the job systemd has queued or is running for u
  enabled,   \* the units started at boot
  at,        \* at[c]: the next line of the script c runs, 0 if it runs none
  files,     \* which of Hamara's files exist: "units", "config"
  sess,      \* sess[s]: the command session s runs and where it is in it
  reloaded,  \* since boot another program has flushed the packet filter
  torn       \* since boot a repair has ended between removing and adding rules

vars == <<kernel, state, job, enabled, at, files, sess, reloaded, torn>>

Idle == [cmd |-> "none", pc |-> 0, waits |-> FALSE, out |-> "none"]

Begun(c) == [cmd |-> c, pc |-> 1, waits |-> FALSE, out |-> "none"]

CallOf(s) == Program[sess[s].cmd][sess[s].pc]

TypeOK ==
  /\ kernel \subseteq Items
  /\ state \in [Units -> {"inactive", "activating", "active", "deactivating", "failed"}]
  /\ job \in [Units -> {"none", "start", "stop"}]
  /\ enabled \subseteq Units
  /\ at \in [Units \cup Sessions -> 0 .. 9]
  /\ files \subseteq {"units", "config"}
  /\ sess \in [Sessions -> [cmd : CommandNames \cup {"none"}, pc : 0 .. 7,
                            waits : BOOLEAN, out : {"none", "critical"}]]
  /\ reloaded \in BOOLEAN
  /\ torn \in BOOLEAN

Init ==
  /\ kernel = {}
  /\ state = [u \in Units |-> "inactive"]
  /\ job = [u \in Units |-> "none"]
  /\ enabled = {}
  /\ at = [c \in Units \cup Sessions |-> 0]
  /\ files = {}
  /\ sess = [s \in Sessions |-> Idle]
  /\ reloaded = FALSE
  /\ torn = FALSE

----------------------------------------------------------------------------
(***************************************************************************)
(* Answers to the sessions.                                                *)
(***************************************************************************)

\* Where a session goes when its current call has succeeded or failed.
Advance(r, ok) ==
  LET call == Program[r.cmd][r.pc]
      next == IF ok THEN call.ok ELSE call.fail
  IN  IF next = 0 THEN Idle
      ELSE [r EXCEPT !.pc = next, !.waits = FALSE,
                     !.out = IF ~ok /\ call.do \in {"route", "escape"}
                             THEN "critical" ELSE @]

WaitsFor(s, u, j) ==
  /\ sess[s].waits
  /\ CallOf(s).do \in DOMAIN JobOf
  /\ CallOf(s).unit = u
  /\ JobOf[CallOf(s).do] = j

\* `done` and `refused` are sets of <<unit, job>>: those jobs have finished, or
\* have failed or been cancelled, and systemctl tells whoever waits for them.
Tell(done, refused) ==
  sess' = [s \in Sessions |->
             IF \E j \in done : WaitsFor(s, j[1], j[2]) THEN Advance(sess[s], TRUE)
             ELSE IF \E j \in refused : WaitsFor(s, j[1], j[2]) THEN Advance(sess[s], FALSE)
             ELSE sess[s]]

----------------------------------------------------------------------------
(***************************************************************************)
(* systemd.  The link Requires= the guard and starts After= it: starting   *)
(* the link starts the guard, stopping the guard stops the link first.     *)
(* The ARA client starts before the link and stops after it.               *)
(***************************************************************************)

Down(u) == state[u] \in {"inactive", "failed"}

Script(c) ==
  IF c \in Sessions THEN GuardUp
  ELSE CASE c = "guard" -> IF state[c] = "activating" THEN GuardUp ELSE GuardDown
         [] c = "link"  -> IF state[c] = "activating" THEN LinkUp ELSE LinkDown
         [] c = "ara"   -> << >>

\* The units a job for u extends to.
Pulled(u, j) ==
  {u} \cup (IF u = "link" /\ j = "start" THEN {"guard"} ELSE {})
      \cup (IF u = "guard" /\ j = "stop" THEN {"link"} ELSE {})

\* A new job replaces a conflicting one, and whoever waits for that is told.
Cancelled(u, j) == {<<v, job[v]>> : v \in {w \in Pulled(u, j) : job[w] \notin {"none", j}}}

Request(s, u, j) ==
  /\ job' = [v \in Units |-> IF v \in Pulled(u, j) THEN j ELSE job[v]]
  /\ sess' = [t \in Sessions |->
                IF t = s THEN [sess[s] EXCEPT !.waits = TRUE]
                ELSE IF \E k \in Cancelled(u, j) : WaitsFor(t, k[1], k[2])
                     THEN Advance(sess[t], FALSE)
                     ELSE sess[t]]

\* Three faults of the units' ordering: the guard does not wait for its stopping
\* link; the link without After= the guard; the guard also After= the link.
InTurnStopsTogether(u) ==
  /\ u = "link" /\ job[u] = "start" =>
       \A v \in Units \ {u} : job[v] = "none"
  /\ u # "link" => job["link"] # "stop" \/ state["link"] = "deactivating"

InTurnWithoutAfter(u) ==
  u = "guard" /\ job[u] = "stop" => Down("link")

InTurnWithCycle(u) ==
  /\ job[u] = "start" => \A v \in Units \ {u} : job[v] = "none"
  /\ u = "guard" /\ job[u] = "stop" => Down("link") /\ job["link"] = "none"

\* Whether systemd may take up the job of u, given the jobs of other units.
InTurn(u) ==
  /\ u = "link" /\ job[u] = "start" =>
       \A v \in Units \ {u} : job[v] = "none"
  /\ u # "link" => job["link"] # "stop"
  /\ u = "guard" /\ job[u] = "stop" => Down("link")

\* The unit is already what the job wants.
NothingToDo(u) ==
  /\ InTurn(u)
  /\ \/ job[u] = "start" /\ state[u] = "active"
     \/ job[u] = "stop" /\ Down(u)
  /\ job' = [job EXCEPT ![u] = "none"]
  /\ Tell({<<u, job[u]>>}, {})
  /\ UNCHANGED <<kernel, state, enabled, at, files, reloaded, torn>>

BeginStart(u) ==
  /\ job[u] = "start" /\ Down(u) /\ InTurn(u)
  /\ state' = [state EXCEPT ![u] = "activating"]
  /\ at' = [at EXCEPT ![u] = 1]
  /\ UNCHANGED <<kernel, job, enabled, files, sess, reloaded, torn>>

BeginStop(u) ==
  /\ job[u] = "stop" /\ state[u] = "active" /\ InTurn(u)
  /\ state' = [state EXCEPT ![u] = "deactivating"]
  /\ at' = [at EXCEPT ![u] = 1]
  /\ UNCHANGED <<kernel, job, enabled, files, sess, reloaded, torn>>

\* wg-quick removes the interface it has created when its up is cut short.
Undone(u, k) ==
  IF u = "link" /\ Mode # "ipip" /\ state[u] = "activating" /\ at[u] > 1
  THEN k \ {"iface", "linkRoute"} ELSE k

\* A unit's script has ended badly.  A start then fails, and takes the start
\* of the link with it if the unit is the guard; a stop counts as done.
\* ExecStop= is not run for a unit that did not start.
UnitFails(u) ==
  LET failing == {v \in Units : /\ job[v] = "start" /\ state[u] = "activating"
                                /\ v = u \/ (u = "guard" /\ v = "link")}
      done == {v \in {u} : job[v] = "stop"}
  IN  /\ state' = [state EXCEPT ![u] = "failed"]
      /\ at' = [at EXCEPT ![u] = 0]
      /\ kernel' = Undone(u, kernel)
      /\ job' = [v \in Units |-> IF v \in failing \cup done THEN "none" ELSE job[v]]
      /\ Tell({<<v, "stop">> : v \in done}, {<<v, "start">> : v \in failing})
      /\ UNCHANGED <<enabled, files, reloaded, torn>>

\* A stop request kills the script of a unit that is still starting.
AbortStart(u) ==
  /\ job[u] = "stop" /\ state[u] = "activating" /\ InTurn(u)
  /\ UnitFails(u)

\* The script has run to its end.
UnitSettles(u) ==
  LET reached == IF state[u] = "activating" THEN "start" ELSE "stop" IN
  /\ at[u] = Len(Script(u)) + 1
  /\ state' = [state EXCEPT ![u] = IF @ = "activating" THEN "active" ELSE "inactive"]
  /\ at' = [at EXCEPT ![u] = 0]
  /\ job' = [job EXCEPT ![u] = IF @ = reached THEN "none" ELSE @]
  /\ Tell({<<u, reached>>} \cap {<<u, job[u]>>}, {})
  /\ UNCHANGED <<kernel, enabled, files, reloaded, torn>>

----------------------------------------------------------------------------
(***************************************************************************)
(* Scripts, of units and of `hamara repair`.                               *)
(***************************************************************************)

Running(c) == at[c] \in 1 .. Len(Script(c))

RunLine(c) ==
  /\ Running(c)
  /\ Accepts(kernel, Script(c)[at[c]])
  /\ kernel' = Effect(kernel, Script(c)[at[c]])
  /\ at' = [at EXCEPT ![c] = @ + 1]
  /\ UNCHANGED <<state, job, enabled, files, sess, reloaded, torn>>

\* `iptables -C` gives up on the xtables lock: the removal loop ends early.
SkipLine(c) ==
  /\ "xtablesLock" \in Faults
  /\ Running(c)
  /\ Script(c)[at[c]].op = "del" /\ Script(c)[at[c]].items \subseteq Rejects
  /\ at' = [at EXCEPT ![c] = @ + 1]
  /\ UNCHANGED <<kernel, state, job, enabled, files, sess, reloaded, torn>>

\* From the first removal of a rule to the last addition.
InWindow(s) == at[s] \in 3 .. 5

\* A fault: the guard's script without `set -e` when it is run by repair.
FailLineGoesOn(c) ==
  /\ Running(c)
  /\ MayFail(kernel, Script(c)[at[c]])
  /\ IF c \in Units THEN UnitFails(c)
     ELSE /\ at' = [at EXCEPT ![c] = @ + 1]
          /\ torn' = (torn \/ InWindow(c))
          /\ UNCHANGED <<kernel, state, job, enabled, files, sess, reloaded>>

FailLine(c) ==
  /\ Running(c)
  /\ MayFail(kernel, Script(c)[at[c]])
  /\ IF c \in Units THEN UnitFails(c)
     ELSE /\ at' = [at EXCEPT ![c] = 0]
          /\ sess' = [sess EXCEPT ![c] = Advance(@, FALSE)]
          /\ torn' = (torn \/ InWindow(c))
          /\ UNCHANGED <<kernel, state, job, enabled, files, reloaded>>

RepairScriptEnds(s) ==
  /\ at[s] = Len(GuardUp) + 1
  /\ at' = [at EXCEPT ![s] = 0]
  /\ sess' = [sess EXCEPT ![s] = Advance(@, TRUE)]
  /\ UNCHANGED <<kernel, state, job, enabled, files, reloaded, torn>>

----------------------------------------------------------------------------
(***************************************************************************)
(* The sessions.                                                           *)
(***************************************************************************)

\* What a command checks before its first call.
MayInvoke(c) ==
  CASE c = "join"      -> "config" \notin files /\ "iface" \notin kernel
    [] c = "uninstall" -> TRUE
    [] OTHER           -> "config" \in files

Invoke(s) ==
  /\ sess[s] = Idle
  /\ \E c \in Commands :
       /\ MayInvoke(c)
       /\ sess' = [sess EXCEPT ![s] = Begun(c)]
  /\ UNCHANGED <<kernel, state, job, enabled, at, files, reloaded, torn>>

AtCall(s) == sess[s].pc # 0 /\ ~sess[s].waits

\* systemctl start, stop, enable --now, disable --now
AskSystemd(s) ==
  LET c == CallOf(s) IN
  /\ AtCall(s) /\ c.do \in DOMAIN JobOf /\ "units" \in files
  /\ Request(s, c.unit, JobOf[c.do])
  /\ enabled' = CASE c.do = "enable"  -> enabled \cup {c.unit}
                  [] c.do = "disable" -> enabled \ {c.unit}
                  [] OTHER            -> enabled
  /\ UNCHANGED <<kernel, state, at, files, reloaded, torn>>

\* /usr/local/lib/hamara/guard up, run by `hamara repair` itself
RunScript(s) ==
  /\ AtCall(s) /\ CallOf(s).do = "script" /\ "config" \in files
  /\ at' = [at EXCEPT ![s] = 1]
  /\ sess' = [sess EXCEPT ![s].waits = TRUE]
  /\ UNCHANGED <<kernel, state, job, enabled, files, reloaded, torn>>

\* The unit or the script is not there any more.
Missing(s) ==
  /\ AtCall(s)
  /\ \/ CallOf(s).do \in DOMAIN JobOf /\ "units" \notin files
     \/ CallOf(s).do = "script" /\ "config" \notin files
  /\ sess' = [sess EXCEPT ![s] = Advance(@, FALSE)]
  /\ UNCHANGED <<kernel, state, job, enabled, at, files, reloaded, torn>>

EditFiles(s) ==
  /\ AtCall(s) /\ CallOf(s).do \in {"write", "remove"}
  /\ files' = IF CallOf(s).do = "write" THEN files \cup {CallOf(s).unit}
              ELSE files \ {CallOf(s).unit}
  /\ sess' = [sess EXCEPT ![s] = Advance(@, TRUE)]
  /\ UNCHANGED <<kernel, state, job, enabled, at, reloaded, torn>>

\* The answers a check may give.  A request that is routed may still fail for
\* reasons of the network; one that is blocked cannot succeed.
Answers(do) ==
  CASE do = "isActive" -> {state["guard"] = "active"}
    [] do = "baseline" -> {FALSE} \cup {Verdict(kernel, "sourced") # "blocked"}
    [] do = "route"    -> {RouteOf(kernel, "marked") = "blocked"}
    [] do = "escape"   -> {TRUE} \cup {Verdict(kernel, "sourced") = "blocked"}

Check(s) ==
  /\ AtCall(s) /\ CallOf(s).do \in {"isActive", "baseline", "route", "escape"}
  /\ \E ok \in Answers(CallOf(s).do) : sess' = [sess EXCEPT ![s] = Advance(@, ok)]
  /\ UNCHANGED <<kernel, state, job, enabled, at, files, reloaded, torn>>

\* The process, and the script it runs, is killed: nothing deferred is run.
Kill(s) ==
  /\ "kill" \in Faults
  /\ sess[s] # Idle
  /\ sess' = [sess EXCEPT ![s] = Idle]
  /\ at' = [at EXCEPT ![s] = 0]
  /\ torn' = (torn \/ InWindow(s))
  /\ UNCHANGED <<kernel, state, job, enabled, files, reloaded>>

----------------------------------------------------------------------------
(***************************************************************************)
(* The environment.                                                        *)
(***************************************************************************)

\* Nothing in the kernel survives; systemd starts what is enabled.
Reboot ==
  /\ "reboot" \in Faults
  /\ kernel' = {}
  /\ state' = [u \in Units |-> "inactive"]
  /\ job' = [u \in Units |->
               IF "units" \in files
                  /\ (u \in enabled \/ (u = "guard" /\ "link" \in enabled))
               THEN "start" ELSE "none"]
  /\ at' = [c \in Units \cup Sessions |-> 0]
  /\ sess' = [s \in Sessions |-> Idle]
  /\ reloaded' = FALSE
  /\ torn' = FALSE
  /\ UNCHANGED <<enabled, files>>

\* Another firewall manager replaces the whole packet filter.
FirewallReload ==
  /\ "reload" \in Faults
  /\ kernel' = kernel \ Rejects
  /\ reloaded' = TRUE
  /\ UNCHANGED <<state, job, enabled, at, files, sess, torn>>

\* The device disappears, and the route through it.
LinkLost ==
  /\ "linkLost" \in Faults
  /\ "iface" \in kernel
  /\ kernel' = kernel \ {"iface", "linkRoute"}
  /\ UNCHANGED <<state, job, enabled, at, files, sess, reloaded, torn>>

----------------------------------------------------------------------------
UnitStep(u) ==
  \/ NothingToDo(u) \/ BeginStart(u) \/ BeginStop(u) \/ AbortStart(u)
  \/ RunLine(u) \/ SkipLine(u) \/ FailLine(u) \/ UnitSettles(u)

SessionStep(s) ==
  \/ AskSystemd(s) \/ RunScript(s) \/ Missing(s) \/ EditFiles(s) \/ Check(s)
  \/ RunLine(s) \/ SkipLine(s) \/ FailLine(s) \/ RepairScriptEnds(s)

Environment == Reboot \/ FirewallReload \/ LinkLost

Next ==
  \/ \E u \in Units : UnitStep(u)
  \/ \E s \in Sessions : Invoke(s) \/ SessionStep(s) \/ Kill(s)
  \/ Environment

\* systemd and a started command go on; operators, kills and the environment
\* are under no obligation.  systemd's is strong fairness: a job goes to its
\* run queue each time the job it was waiting for ends.
Fairness ==
  /\ \A u \in Units : SF_vars(UnitStep(u))
  /\ \A s \in Sessions : WF_vars(SessionStep(s))

Spec == Init /\ [][Next]_vars

FairSpec == Spec /\ Fairness

----------------------------------------------------------------------------
(***************************************************************************)
(* Properties.                                                             *)
(***************************************************************************)

RuleWindow == torn \/ \E s \in Sessions : InWindow(s)

\* An active guard lets nothing out through the WAN.  IPv4 is held by two
\* layers, policy routing and the packet filter: it takes a flush of the
\* filter by another program AND a repair that is between removing and adding
\* the policy rules to open it.  IPv6 has the packet filter only.
\* (README "The policy table always contains an unreachable default",
\* GuardScript up and down.)
NoLeak ==
  state["guard"] = "active" =>
    \A p \in Packets :
      Verdict(kernel, p) = "wan" => reloaded /\ (p = "marked6" \/ RuleWindow)

\* The link is never started, up, or being taken down without an active guard
\* under it, whatever the commands, boots and failures of either unit.
\* (Requires= and After= in IPIPUnit and WireGuardGuardDropIn, and the order
\* of units in managedLinkUnits and activateIran.)
LinkNeedsGuard ==
  state["link"] \in {"activating", "active", "deactivating"} => state["guard"] = "active"

\* Only `hamara uninstall`, which disables it, or a reboot takes the guard
\* down: no stop, restart, leak test or failure of the link does.
\* (ManageLink stops link units only; LeakTest "keeping hamara-guard active".)
DisarmedOnlyByDisable ==
  [][ state["guard"] = "active" /\ state'["guard"] # "active"
        => "guard" \notin enabled \/ kernel' = {} ]_vars

\* A repair that ends well, while none beside it repairs or uninstalls, has put
\* back every policy rule, also those that a repair cut short had removed.
\* (RepairGuards, GuardScript up.)
RepairRestores ==
  [][ \A s \in Sessions : RepairScriptEnds(s) => Policy \subseteq kernel ]_vars

\* The session's command c comes to its end, neither killed nor rebooted away.
Returns(s, c) ==
  /\ sess[s].cmd = c /\ sess'[s] = Idle
  /\ (\E u \in Units : UnitStep(u)) \/ (\E t \in Sessions : SessionStep(t))

\* A leak test that reports CRITICAL has found a hole in the policy: a repair
\* was cut short, or the guard is being taken down.  Stopping the link, alone
\* or after any history of other commands, never causes the report.  (Not so in
\* IPIP mode: a start cut short leaves its route behind, which no stop removes.)
\* (LeakTest: the probes are sent after systemctl stop has returned.)
CriticalIsReal ==
  [][ \A s \in Sessions :
        sess[s].out # "critical" /\ sess'[s].out = "critical"
          => torn \/ state["guard"] # "active" ]_vars

\* A leak test that has stopped the link does not return, on any path, before
\* the link is up again or its start, or that of the guard under it, has failed.
\* (LeakTest: the deferred start and the restarted flag.)
LeakTestRestores ==
  [][ \A s \in Sessions :
        Returns(s, "leaktest") /\ sess[s].pc > 3 =>
          state'["link"] \in {"active", "failed"} \/ state'["guard"] = "failed" ]_vars

\* A finished uninstall leaves no file, no enabled unit, and, of each unit that
\* did not fail, none of the routes, rules or devices it had made.
\* (Uninstall; GuardScript down; wg-quick and IPIPScript down.)
UninstallCleans ==
  [][ \A s \in Sessions :
        Returns(s, "uninstall") =>
          /\ files' = {} /\ enabled = {}
          /\ Down("guard") /\ Down("link")
          /\ state["guard"] = "inactive" => kernel \cap (Policy \cup {"linkRoute"}) = {}
          /\ state["link"] = "inactive" => "iface" \notin kernel ]_vars

\* Every command returns: systemd answers each request, also one whose job is
\* replaced by another command's, and no two jobs wait for each other.
EveryCommandReturns == \A s \in Sessions : sess[s] # Idle ~> sess[s] = Idle

\* Every job, those queued at boot included, ends or is replaced by another
\* command's, unless the host is rebooted over and over.
EveryJobEnds ==
  <>[][~Reboot]_vars =>
    \A u \in Units : \A j \in {"start", "stop"} : job[u] = j ~> job[u] # j

(***************************************************************************)
(* The edge implements FailClosed.                                         *)
(***************************************************************************)

LinkRuns == state["link"] \in {"activating", "active", "deactivating"}

Exposed == {p \in Packets : Verdict(kernel, p) = "wan"}

FC == INSTANCE FailClosed WITH
        OneLayer <- {"marked6"},
        wanted   <- "guard" \in enabled,
        armed    <- state["guard"] = "active",
        running  <- LinkRuns,
        exposed  <- Exposed,
        flushed  <- reloaded,
        gap      <- RuleWindow

\* Every step of commands, units, scripts, faults and boots is a step of the
\* abstract guard or changes nothing it can see: the guard is armed only when
\* its layers hold, is disarmed only when disabled and with the link down,
\* and no step changes the link and the guard together but a reboot.
\* (GuardScript, GuardUnit, the drop-in, managedLinkUnits, Uninstall.)
FailsClosed == FC!Spec

\* What the documents and messages say, and the code does not always do.

\* README: "If the tunnel disappears, Linux cannot fall through to the Iran
\* WAN route."  (GuardScript up, run by `hamara repair` after a reload.)
NeverTheWAN ==
  state["guard"] = "active" =>
    \A p \in {"marked", "sourced"} : Verdict(kernel, p) # "wan"

\* README: "This removes Hamara interfaces, services, firewall rules".
\* (Uninstall ignores the errors of systemctl disable --now.)
UninstallRemovesAll ==
  [][ \A s \in Sessions : Returns(s, "uninstall") => kernel \cap (Policy \cup Rejects) = {} ]_vars

============================================================================
