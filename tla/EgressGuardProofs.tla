------------------------- MODULE EgressGuardProofs -------------------------
(***************************************************************************)
(* What TLAPS proves of EgressGuard, for every set of sessions, every      *)
(* routed mode, every choice of commands and every choice of faults.       *)
(***************************************************************************)
EXTENDS EgressGuard, SequenceTheorems, TLAPS

----------------------------------------------------------------------------
(***************************************************************************)
(* The scripts.                                                            *)
(***************************************************************************)

\* What each line of `guard up` does to the kernel.
LEMMA GuardUpLines ==
  /\ Len(GuardUp) = 8
  /\ \A k : \A i \in 1 .. 8 :
       /\ i = 1 => Effect(k, GuardUp[i]) = k \cup {"unreachable"}
       /\ i = 2 => Effect(k, GuardUp[i]) = k \ {"markRule"}
       /\ i = 3 => Effect(k, GuardUp[i]) = k \ {"srcRule"}
       /\ i = 4 => Effect(k, GuardUp[i]) = k \cup {"markRule"}
       /\ i = 5 => Effect(k, GuardUp[i]) = k \cup {"srcRule"}
       /\ i = 6 => Effect(k, GuardUp[i]) = k \cup {"markReject"}
       /\ i = 7 => Effect(k, GuardUp[i]) = k \cup {"srcReject"}
       /\ i = 8 => Effect(k, GuardUp[i]) = k \cup {"mark6Reject"}
<1>1. Len(GuardUp) = 8
  BY DEF GuardUp
<1>2. ASSUME NEW k, NEW i \in 1 .. 8
      PROVE  /\ i = 1 => Effect(k, GuardUp[i]) = k \cup {"unreachable"}
             /\ i = 2 => Effect(k, GuardUp[i]) = k \ {"markRule"}
             /\ i = 3 => Effect(k, GuardUp[i]) = k \ {"srcRule"}
             /\ i = 4 => Effect(k, GuardUp[i]) = k \cup {"markRule"}
             /\ i = 5 => Effect(k, GuardUp[i]) = k \cup {"srcRule"}
             /\ i = 6 => Effect(k, GuardUp[i]) = k \cup {"markReject"}
             /\ i = 7 => Effect(k, GuardUp[i]) = k \cup {"srcReject"}
             /\ i = 8 => Effect(k, GuardUp[i]) = k \cup {"mark6Reject"}
  BY DEF GuardUp, Effect, Line
<1>. QED BY <1>1, <1>2

\* `guard up` removes nothing from the packet filter: no line can be skipped.
LEMMA GuardUpNotSkipped ==
  \A i \in 1 .. 8 : ~(GuardUp[i].op = "del" /\ GuardUp[i].items \subseteq Rejects)
BY DEF GuardUp, Line, Rejects

GuardLine == [op : {"new", "add", "del"}, items : SUBSET Items]
LinkLine  == [op : {"new", "add", "del", "pop"}, items : SUBSET {"iface", "linkRoute"}]

LEMMA GuardLineType ==
  ASSUME NEW o \in {"new", "add", "del"}, NEW t, t \subseteq Items
  PROVE  Line(o, t) \in GuardLine
BY DEF Line, GuardLine

LEMMA LinkLineType ==
  ASSUME NEW o \in {"new", "add", "del", "pop"}, NEW t, t \subseteq {"iface", "linkRoute"}
  PROVE  Line(o, t) \in LinkLine
BY DEF Line, LinkLine

LEMMA ScriptTypes ==
  /\ GuardUp \in Seq(GuardLine) /\ Len(GuardUp) = 8
  /\ GuardDown \in Seq(GuardLine) /\ Len(GuardDown) = 6
  /\ LinkUp \in Seq(LinkLine) /\ (Len(LinkUp) = 2 \/ Len(LinkUp) = 3)
  /\ LinkDown \in Seq(LinkLine) /\ (Len(LinkDown) = 1 \/ Len(LinkDown) = 2)
<1>1. \A o \in {"new", "add", "del"} : \A x \in Items : Line(o, {x}) \in GuardLine
  BY GuardLineType
<1>2. Line("del", {"unreachable", "linkRoute"}) \in GuardLine
  BY GuardLineType DEF Items, Policy
<1>a. /\ Line("del", {"markRule"}) \in GuardLine   /\ Line("del", {"srcRule"}) \in GuardLine
      /\ Line("new", {"markRule"}) \in GuardLine   /\ Line("new", {"srcRule"}) \in GuardLine
      /\ Line("add", {"markReject"}) \in GuardLine /\ Line("add", {"srcReject"}) \in GuardLine
      /\ Line("del", {"markReject"}) \in GuardLine /\ Line("del", {"srcReject"}) \in GuardLine
      /\ Line("add", {"mark6Reject"}) \in GuardLine /\ Line("add", {"unreachable"}) \in GuardLine
      /\ Line("del", {"mark6Reject"}) \in GuardLine
  BY <1>1 DEF Items, Policy, Rejects
<1>3. GuardUp \in Seq(GuardLine) /\ Len(GuardUp) = 8
  BY <1>a DEF GuardUp
<1>4. GuardDown \in Seq(GuardLine) /\ Len(GuardDown) = 6
  BY <1>a, <1>2 DEF GuardDown
<1>5. /\ Line("del", {"iface", "linkRoute"}) \in LinkLine
      /\ Line("pop", {"iface", "linkRoute"}) \in LinkLine
      /\ Line("del", {"linkRoute"}) \in LinkLine
      /\ Line("new", {"iface"}) \in LinkLine
      /\ Line("add", {"linkRoute"}) \in LinkLine
  BY LinkLineType
<1>6. LinkUp \in Seq(LinkLine) /\ (Len(LinkUp) = 2 \/ Len(LinkUp) = 3)
  <2> DEFINE first == IF Mode = "ipip" THEN << Line("del", {"iface", "linkRoute"}) >> ELSE << >>
             rest == << Line("new", {"iface"}), Line("add", {"linkRoute"}) >>
  <2>1. first \in Seq(LinkLine) /\ (Len(first) = 0 \/ Len(first) = 1)
    BY <1>5
  <2>2. rest \in Seq(LinkLine) /\ Len(rest) = 2
    BY <1>5
  <2>3. LinkUp = first \o rest
    BY DEF LinkUp
  <2>. HIDE DEF first, rest
  <2>. QED BY <2>1, <2>2, <2>3, ConcatProperties
<1>7. LinkDown \in Seq(LinkLine) /\ (Len(LinkDown) = 1 \/ Len(LinkDown) = 2)
  BY <1>5 DEF LinkDown
<1>. QED BY <1>3, <1>4, <1>6, <1>7

\* The link's scripts touch the device and its route only.
LEMMA LinkLineEffect ==
  ASSUME NEW l \in LinkLine, NEW k
  PROVE  /\ Effect(k, l) \cap (Policy \cup Rejects) = k \cap (Policy \cup Rejects)
         /\ k \subseteq Items => Effect(k, l) \subseteq Items
BY DEF LinkLine, Effect, Policy, Rejects, Items

LEMMA GuardLineEffect ==
  ASSUME NEW l \in GuardLine, NEW k \in SUBSET Items
  PROVE  Effect(k, l) \subseteq Items
BY DEF GuardLine, Effect

----------------------------------------------------------------------------
(***************************************************************************)
(* The programs: a call leads to a call of the same command, and names a   *)
(* unit or a file that exists in this mode.  No command stops the guard:   *)
(* it can only be disabled.                                                *)
(***************************************************************************)

Pairs == ({"enable", "disable", "start"} \X Units)
           \cup ({"stop"} \X (Units \ {"guard"}))
           \cup ({"write", "remove"} \X {"units", "config"})
           \cup {<<"script", "guard">>}

GoodCall(c, n) ==
  /\ c.ok \in 0 .. n /\ c.fail \in 0 .. n
  /\ c.do \in {"enable", "disable", "start", "stop"} => c.unit \in Units
  /\ c.do = "stop" => c.unit # "guard"
  /\ c.do \in {"write", "remove"} => c.unit \in {"units", "config"}

GoodProgram(p) ==
  /\ Len(p) \in Nat /\ 1 <= Len(p) /\ Len(p) <= 7
  /\ \A i \in 1 .. Len(p) : GoodCall(p[i], Len(p))

LEMMA UntilErrorGood ==
  ASSUME NEW calls \in Seq(Pairs), 1 <= Len(calls), Len(calls) <= 7
  PROVE  GoodProgram(UntilError(calls))
<1>2. Len(UntilError(calls)) = Len(calls)
  BY DEF UntilError
<1>3. ASSUME NEW i \in 1 .. Len(calls)
      PROVE  GoodCall(UntilError(calls)[i], Len(calls))
  <2>1. calls[i] \in Pairs
    BY ElementOfSeq
  <2>2. UntilError(calls)[i] =
          Call(calls[i][1], calls[i][2], IF i = Len(calls) THEN 0 ELSE i + 1, 0)
    BY DEF UntilError
  <2>. QED BY <2>1, <2>2 DEF GoodCall, Call, Pairs
<1>. QED BY <1>2, <1>3 DEF GoodProgram

LEMMA RegardlessGood ==
  ASSUME NEW calls \in Seq(Pairs), 1 <= Len(calls), Len(calls) <= 7
  PROVE  GoodProgram(Regardless(calls))
<1>2. Len(Regardless(calls)) = Len(calls)
  BY DEF Regardless
<1>3. ASSUME NEW i \in 1 .. Len(calls)
      PROVE  GoodCall(Regardless(calls)[i], Len(calls))
  <2>1. calls[i] \in Pairs
    BY ElementOfSeq
  <2>2. Regardless(calls)[i] =
          LET n == IF i = Len(calls) THEN 0 ELSE i + 1
          IN  Call(calls[i][1], calls[i][2], n, n)
    BY DEF Regardless
  <2>. QED BY <2>1, <2>2 DEF GoodCall, Call, Pairs
<1>. QED BY <1>2, <1>3 DEF GoodProgram

LEMMA JoinedGood ==
  ASSUME NEW s \in Seq(Pairs), Len(s) <= 3,
         NEW t \in Seq(Pairs), 1 <= Len(t), Len(t) <= 4
  PROVE  GoodProgram(UntilError(s \o t)) /\ GoodProgram(Regardless(s \o t))
<1>. DEFINE c == s \o t
<1>1. c \in Seq(Pairs) /\ Len(c) = Len(s) + Len(t)
  BY ConcatProperties, Zenon
<1>. HIDE DEF c
<1>2. Len(s) \in Nat /\ Len(t) \in Nat
  OBVIOUS
<1>4. 1 <= Len(c) /\ Len(c) <= 7
  BY <1>1, <1>2
<1>3. GoodProgram(UntilError(c)) /\ GoodProgram(Regardless(c))
  BY <1>1, <1>4, UntilErrorGood, RegardlessGood
<1>. QED BY <1>3 DEF c

LEMMA CallSequences ==
  /\ StartCalls \in Seq(Pairs) /\ 2 <= Len(StartCalls) /\ Len(StartCalls) <= 3
  /\ StopCalls \in Seq(Pairs) /\ 1 <= Len(StopCalls) /\ Len(StopCalls) <= 2
  /\ OnAra("disable") \in Seq(Pairs) /\ Len(OnAra("disable")) <= 1
<1>1. ASSUME NEW d \in {"enable", "stop", "disable"}
      PROVE  OnAra(d) \in Seq(Pairs) /\ Len(OnAra(d)) \in Nat /\ Len(OnAra(d)) <= 1
  <2>1. CASE Mode = "ara"
    <3>1. <<d, "ara">> \in Pairs
      BY <2>1 DEF Pairs, Units
    <3>. QED BY <2>1, <3>1 DEF OnAra
  <2>2. CASE Mode # "ara"
    BY <2>2 DEF OnAra
  <2>. QED BY <2>1, <2>2
<1>2. /\ <<"enable", "guard">> \in Pairs
      /\ <<"enable", "link">> \in Pairs
      /\ <<"stop", "link">> \in Pairs
  BY DEF Pairs, Units
<1>3. /\ << <<"enable", "guard">> >> \in Seq(Pairs) /\ Len(<< <<"enable", "guard">> >>) = 1
      /\ << <<"enable", "link">> >> \in Seq(Pairs) /\ Len(<< <<"enable", "link">> >>) = 1
      /\ << <<"stop", "link">> >> \in Seq(Pairs) /\ Len(<< <<"stop", "link">> >>) = 1
  BY <1>2
<1>4. StartCalls \in Seq(Pairs) /\ 2 <= Len(StartCalls) /\ Len(StartCalls) <= 3
  <2>. DEFINE a == << <<"enable", "guard">> >>   o == OnAra("enable")
              z == << <<"enable", "link">> >>    ao == a \o o   c == ao \o z
  <2>1. /\ a \in Seq(Pairs) /\ Len(a) = 1 /\ z \in Seq(Pairs) /\ Len(z) = 1
        /\ o \in Seq(Pairs) /\ Len(o) \in Nat /\ Len(o) <= 1
    BY <1>1, <1>3
  <2>2. StartCalls = c
    BY DEF StartCalls
  <2>. HIDE DEF a, o, z
  <2>3. ao \in Seq(Pairs) /\ Len(ao) = Len(a) + Len(o)
    BY <2>1, ConcatProperties, Zenon
  <2>. HIDE DEF ao
  <2>4. c \in Seq(Pairs) /\ Len(c) = Len(ao) + Len(z)
    BY <2>1, <2>3, ConcatProperties, Zenon
  <2>. HIDE DEF c
  <2>5. 2 <= Len(c) /\ Len(c) <= 3
    BY <2>1, <2>3, <2>4
  <2>. QED BY <2>2, <2>4, <2>5
<1>5. StopCalls \in Seq(Pairs) /\ 1 <= Len(StopCalls) /\ Len(StopCalls) <= 2
  <2>. DEFINE a == << <<"stop", "link">> >>   o == OnAra("stop")   c == a \o o
  <2>1. /\ a \in Seq(Pairs) /\ Len(a) = 1
        /\ o \in Seq(Pairs) /\ Len(o) \in Nat /\ Len(o) <= 1
    BY <1>1, <1>3
  <2>2. StopCalls = c
    BY DEF StopCalls
  <2>. HIDE DEF a, o
  <2>3. c \in Seq(Pairs) /\ Len(c) = Len(a) + Len(o)
    BY <2>1, ConcatProperties, Zenon
  <2>. HIDE DEF c
  <2>4. 1 <= Len(c) /\ Len(c) <= 2
    BY <2>1, <2>3
  <2>. QED BY <2>2, <2>3, <2>4
<1>. QED BY <1>1, <1>4, <1>5

LEMMA Programs == \A c \in CommandNames : GoodProgram(Program[c])
<1>1. GoodProgram(Program["start"])
  BY CallSequences, UntilErrorGood DEF Program
<1>2. GoodProgram(Program["stop"])
  BY CallSequences, UntilErrorGood DEF Program
<1>3. GoodProgram(Program["restart"])
  <2>1. Program["restart"] = UntilError(StopCalls \o StartCalls)
    BY DEF Program
  <2>. QED BY <2>1, CallSequences, JoinedGood
<1>4. GoodProgram(Program["repair"])
  <2>1. <<"enable", "guard">> \in Pairs /\ <<"script", "guard">> \in Pairs
    BY DEF Pairs, Units
  <2>. DEFINE w == << <<"enable", "guard">>, <<"script", "guard">> >>
  <2>2. w \in Seq(Pairs) /\ Len(w) = 2
    BY <2>1
  <2>3. Program["repair"] = UntilError(w)
    BY DEF Program
  <2>. HIDE DEF w
  <2>4. 1 <= Len(w) /\ Len(w) <= 7
    BY <2>2
  <2>5. GoodProgram(UntilError(w))
    BY <2>2, <2>4, UntilErrorGood
  <2>. QED BY <2>3, <2>5
<1>5. GoodProgram(Program["join"])
  <2>. DEFINE w == << <<"write", "units">>, <<"write", "config">> >>
  <2>1. <<"write", "units">> \in Pairs /\ <<"write", "config">> \in Pairs
    BY DEF Pairs
  <2>2. w \in Seq(Pairs) /\ Len(w) = 2
    BY <2>1
  <2>3. Program["join"] = UntilError(w \o StartCalls)
    BY DEF Program
  <2>. HIDE DEF w
  <2>. QED BY <2>2, <2>3, CallSequences, JoinedGood
<1>6. GoodProgram(Program["leaktest"])
  BY DEF Program, LeakTestCalls, GoodProgram, GoodCall, Call, Units
<1>7. GoodProgram(Program["uninstall"])
  <2>. DEFINE w == << <<"disable", "link">>, <<"disable", "guard">>,
                      <<"remove", "units">>, <<"remove", "config">> >>
  <2>1. /\ <<"disable", "link">> \in Pairs /\ <<"disable", "guard">> \in Pairs
        /\ <<"remove", "units">> \in Pairs /\ <<"remove", "config">> \in Pairs
    BY DEF Pairs, Units
  <2>2. w \in Seq(Pairs) /\ Len(w) = 4
    BY <2>1
  <2>3. Program["uninstall"] = Regardless(OnAra("disable") \o w)
    BY DEF Program
  <2>. HIDE DEF w
  <2>. DEFINE o == OnAra("disable")
  <2>4. o \in Seq(Pairs) /\ Len(o) \in Nat /\ Len(o) <= 1
    BY CallSequences
  <2>. HIDE DEF o
  <2>5. Len(o) <= 3 /\ 1 <= Len(w) /\ Len(w) <= 4
    BY <2>2, <2>4
  <2>6. GoodProgram(Regardless(o \o w))
    BY <2>2, <2>4, <2>5, JoinedGood
  <2>. QED BY <2>3, <2>6 DEF o
<1>. QED BY <1>1, <1>2, <1>3, <1>4, <1>5, <1>6, <1>7 DEF CommandNames

----------------------------------------------------------------------------
(***************************************************************************)
(* Types.  A session is at a call of its command, waits at a call only,    *)
(* and runs a script only while it waits at the call that runs it; a unit  *)
(* runs a script exactly while it starts or stops.                         *)
(***************************************************************************)

SessionType == [cmd : CommandNames \cup {"none"}, pc : 0 .. 7,
                waits : BOOLEAN, out : {"none", "critical"}]

GoodSession(r) ==
  /\ r \in SessionType
  /\ r.pc # 0 => r.cmd \in CommandNames /\ r.pc \in 1 .. Len(Program[r.cmd])
  /\ r.waits => r.pc # 0

RunsScript(s) ==
  sess[s].waits /\ sess[s].pc # 0 /\ CallOf(s).do = "script"

States == {"inactive", "activating", "active", "deactivating", "failed"}

Busy(u) == state[u] \in {"activating", "deactivating"}

SessionsInv == \A s \in Sessions : GoodSession(sess[s])
ScriptsInv  == \A s \in Sessions : at[s] # 0 => RunsScript(s)
UnitsInv    == \A u \in Units : at[u] # 0 <=> Busy(u)

TypeInv == TypeOK /\ SessionsInv /\ ScriptsInv /\ UnitsInv

LEMMA IdleGood == GoodSession(Idle)
BY DEF GoodSession, Idle, SessionType

LEMMA AdvanceGood ==
  ASSUME NEW r, GoodSession(r), r.pc # 0, NEW ok \in BOOLEAN
  PROVE  GoodSession(Advance(r, ok))
<1>. DEFINE call == Program[r.cmd][r.pc]
            next == IF ok THEN call.ok ELSE call.fail
<1>1. GoodProgram(Program[r.cmd]) /\ r.pc \in 1 .. Len(Program[r.cmd])
  BY Programs DEF GoodSession
<1>2. next \in 0 .. Len(Program[r.cmd]) /\ Len(Program[r.cmd]) \in Nat /\ Len(Program[r.cmd]) <= 7
  BY <1>1 DEF GoodProgram, GoodCall
<1>3. CASE next = 0
  BY <1>3, IdleGood DEF Advance
<1>4. CASE next # 0
  <2>1. Advance(r, ok) = [r EXCEPT !.pc = next, !.waits = FALSE,
                     !.out = IF ~ok /\ call.do \in {"route", "escape"}
                             THEN "critical" ELSE @]
    BY <1>4 DEF Advance
  <2>. HIDE DEF next, call
  <2>2. next \in 0 .. 7
    BY <1>2
  <2>3. r \in SessionType
    BY DEF GoodSession
  <2>4. PICK o \in {"none", "critical"} :
          Advance(r, ok) = [r EXCEPT !.pc = next, !.waits = FALSE, !.out = o]
    <3>1. r.out \in {"none", "critical"}
      BY <2>3 DEF SessionType
    <3>2. (IF ~ok /\ call.do \in {"route", "escape"} THEN "critical" ELSE r.out)
            \in {"none", "critical"}
      BY <3>1
    <3>. QED BY <2>1, <3>2
  <2>5. /\ Advance(r, ok).pc = next /\ Advance(r, ok).cmd = r.cmd
        /\ Advance(r, ok).waits = FALSE /\ Advance(r, ok) \in SessionType
    BY <2>2, <2>3, <2>4 DEF SessionType
  <2>. QED BY <2>5, <1>2, <1>4 DEF GoodSession
<1>. QED BY <1>3, <1>4

\* Answering the sessions keeps them good, and leaves alone those that run a
\* script: they wait for no job.
LEMMA TellGood ==
  ASSUME SessionsInv, NEW done, NEW refused, Tell(done, refused)
  PROVE  /\ sess' \in [Sessions -> SessionType]
         /\ \A s \in Sessions : GoodSession(sess'[s])
         /\ \A s \in Sessions : RunsScript(s) => sess'[s] = sess[s]
<1>1. ASSUME NEW s \in Sessions
      PROVE  GoodSession(sess'[s]) /\ (RunsScript(s) => sess'[s] = sess[s])
  <2>1. GoodSession(sess[s])
    BY DEF SessionsInv
  <2>2. \/ sess'[s] = sess[s]
        \/ /\ \E u, j : WaitsFor(s, u, j)
           /\ \E ok \in BOOLEAN : sess'[s] = Advance(sess[s], ok)
    BY DEF Tell
  <2>3. (\E u, j : WaitsFor(s, u, j)) => sess[s].pc # 0 /\ ~RunsScript(s)
    BY <2>1 DEF WaitsFor, GoodSession, RunsScript, JobOf
  <2>. QED BY <2>1, <2>2, <2>3, AdvanceGood
<1>2. sess' = [s \in Sessions |-> sess'[s]]
  BY DEF Tell
<1>. QED BY <1>1, <1>2 DEF GoodSession

LEMMA RequestGood ==
  ASSUME TypeInv, NEW s \in Sessions, AtCall(s), CallOf(s).do \in DOMAIN JobOf,
         Request(s, CallOf(s).unit, JobOf[CallOf(s).do])
  PROVE  /\ sess' \in [Sessions -> SessionType]
         /\ \A t \in Sessions : GoodSession(sess'[t])
         /\ \A t \in Sessions : RunsScript(t) => sess'[t] = sess[t]
         /\ job' \in [Units -> {"none", "start", "stop"}]
<1>. DEFINE u == CallOf(s).unit   j == JobOf[CallOf(s).do]
<1>1. j \in {"start", "stop"}
  BY DEF JobOf
<1>2. job' \in [Units -> {"none", "start", "stop"}]
  BY <1>1 DEF Request, TypeInv, TypeOK
<1>3. ASSUME NEW t \in Sessions
      PROVE  GoodSession(sess'[t]) /\ (RunsScript(t) => sess'[t] = sess[t])
  <2>1. GoodSession(sess[t])
    BY DEF TypeInv, SessionsInv
  <2>2. CASE t = s
    <3>1. sess'[s] = [sess[s] EXCEPT !.waits = TRUE]
      BY DEF Request
    <3>2. sess[s].pc # 0 /\ ~RunsScript(s)
      BY DEF AtCall, RunsScript
    <3>. QED BY <2>1, <2>2, <3>1, <3>2 DEF GoodSession, SessionType
  <2>3. CASE t # s
    <3>1. \/ sess'[t] = sess[t]
          \/ (\E v, k : WaitsFor(t, v, k)) /\ sess'[t] = Advance(sess[t], FALSE)
      BY <2>3 DEF Request
    <3>2. (\E v, k : WaitsFor(t, v, k)) => sess[t].pc # 0 /\ ~RunsScript(t)
      BY <2>1 DEF WaitsFor, GoodSession, RunsScript, JobOf
    <3>. QED BY <2>1, <3>1, <3>2, AdvanceGood
  <2>. QED BY <2>2, <2>3
<1>4. sess' = [t \in Sessions |-> sess'[t]]
  BY DEF Request
<1>. QED BY <1>2, <1>3, <1>4 DEF GoodSession

LEMMA ScriptKinds ==
  ASSUME NEW c \in Units \cup Sessions
  PROVE  Script(c) \in {GuardUp, GuardDown, LinkUp, LinkDown, << >>}
<1>1. CASE c \in Sessions
  BY <1>1 DEF Script
<1>2. CASE c \notin Sessions
  <2>1. c \in {"guard", "link", "ara"}
    BY <1>2 DEF Units
  <2>2. Script(c) = CASE c = "guard" -> IF state[c] = "activating" THEN GuardUp ELSE GuardDown
                      [] c = "link"  -> IF state[c] = "activating" THEN LinkUp ELSE LinkDown
                      [] c = "ara"   -> << >>
    BY <1>2 DEF Script
  <2>. HIDE DEF GuardUp, GuardDown, LinkUp, LinkDown
  <2>. QED BY <2>1, <2>2
<1>. QED BY <1>1, <1>2

LEMMA ScriptLength ==
  ASSUME NEW c \in Units \cup Sessions
  PROVE  Len(Script(c)) \in Nat /\ Len(Script(c)) <= 8
<1>1. \A n : n \in {0, 1, 2, 3, 6, 8} => n \in Nat /\ n <= 8
  OBVIOUS
<1>2. /\ Len(LinkUp) \in {0, 1, 2, 3, 6, 8} /\ Len(LinkDown) \in {0, 1, 2, 3, 6, 8}
      /\ Len(GuardUp) \in {0, 1, 2, 3, 6, 8} /\ Len(GuardDown) \in {0, 1, 2, 3, 6, 8}
      /\ Len(<< >>) \in {0, 1, 2, 3, 6, 8}
  <2>1. Len(<< >>) = 0
    OBVIOUS
  <2>. QED BY <2>1, ScriptTypes, Zenon
<1>3. Len(Script(c)) \in {0, 1, 2, 3, 6, 8}
  BY <1>2, ScriptKinds, Zenon
<1>. QED BY <1>1, <1>3, Zenon

LEMMA UnitsAndSessions == Units \cap Sessions = {}
BY SessionsAssumption DEF Units

\* A line of any script keeps the kernel to Hamara's entries.
LEMMA EffectType ==
  ASSUME TypeInv, NEW c \in Units \cup Sessions, Running(c)
  PROVE  Effect(kernel, Script(c)[at[c]]) \subseteq Items
<1>1. kernel \subseteq Items /\ at[c] \in 1 .. Len(Script(c))
  BY DEF TypeInv, TypeOK, Running
<1>2. CASE Script(c) \in Seq(GuardLine)
  BY <1>1, <1>2, ElementOfSeq, GuardLineEffect
<1>3. CASE Script(c) \in Seq(LinkLine)
  BY <1>1, <1>3, ElementOfSeq, LinkLineEffect
<1>4. Script(c) # << >>
  <2>1. Len(<< >>) = 0
    OBVIOUS
  <2>2. ASSUME Script(c) = << >> PROVE FALSE
    <3>1. at[c] \in 1 .. 0
      BY <1>1, <2>1, <2>2
    <3>. QED BY <3>1
  <2>. QED BY <2>2
<1>. QED BY <1>2, <1>3, <1>4, ScriptKinds, ScriptTypes

LEMMA TypeInit == Init => TypeInv
<1>. SUFFICES ASSUME Init PROVE TypeInv
  OBVIOUS
<1>1. TypeOK
  <2>1. sess \in [Sessions -> SessionType]
    BY IdleGood DEF Init, GoodSession
  <2>2. at \in [Units \cup Sessions -> 0 .. 9]
    BY DEF Init
  <2>3. /\ kernel \subseteq Items /\ enabled \subseteq Units /\ files \subseteq {"units", "config"}
        /\ reloaded \in BOOLEAN /\ torn \in BOOLEAN
    BY DEF Init
  <2>4. /\ state \in [Units -> {"inactive", "activating", "active", "deactivating", "failed"}]
        /\ job \in [Units -> {"none", "start", "stop"}]
    BY DEF Init
  <2>. QED BY <2>1, <2>2, <2>3, <2>4 DEF TypeOK, SessionType
<1>2. SessionsInv
  BY IdleGood DEF Init, SessionsInv
<1>3. ScriptsInv /\ UnitsInv
  BY DEF Init, ScriptsInv, UnitsInv, Busy
<1>. QED BY <1>1, <1>2, <1>3 DEF TypeInv

\* The steps of systemd and of the scripts it runs.
LEMMA TypeUnitStep ==
  ASSUME TypeInv, NEW u \in Units, UnitStep(u)
  PROVE  TypeInv'
<1>. USE DEF States
<1>0. /\ SessionsInv /\ ScriptsInv /\ UnitsInv
      /\ state \in [Units -> States] /\ job \in [Units -> {"none", "start", "stop"}]
      /\ at \in [Units \cup Sessions -> 0 .. 9]
      /\ u \in Units \cup Sessions /\ u \notin Sessions
  BY UnitsAndSessions DEF TypeInv, TypeOK
<1>f. ASSUME UnitFails(u) PROVE TypeInv'
  <2>1. /\ state' \in [Units -> States] /\ job' \in [Units -> {"none", "start", "stop"}]
        /\ at' \in [Units \cup Sessions -> 0 .. 9]
        /\ kernel' \subseteq Items
    BY <1>0, <1>f DEF UnitFails, Undone, TypeInv, TypeOK
  <2>2. \A d, r : Tell(d, r) =>
           /\ sess' \in [Sessions -> SessionType]
           /\ SessionsInv'
           /\ \A s \in Sessions : RunsScript(s) => sess'[s] = sess[s]
    BY <1>0, TellGood DEF SessionsInv
  <2>3. /\ sess' \in [Sessions -> SessionType]
        /\ SessionsInv'
        /\ \A s \in Sessions : RunsScript(s) => sess'[s] = sess[s]
    BY <1>f, <2>2 DEF UnitFails
  <2>4. ScriptsInv'
    BY <1>0, <1>f, <2>3 DEF UnitFails, ScriptsInv, RunsScript, CallOf
  <2>5. UnitsInv'
    BY <1>0, <1>f, UnitsAndSessions DEF UnitFails, UnitsInv, Busy
  <2>6. TypeOK'
    BY <1>f, <2>1, <2>3 DEF UnitFails, TypeInv, TypeOK, SessionType
  <2>. QED BY <2>3, <2>4, <2>5, <2>6 DEF TypeInv
<1>1. CASE NothingToDo(u)
  <2>1. /\ sess' \in [Sessions -> SessionType]
        /\ \A s \in Sessions : GoodSession(sess'[s])
        /\ \A s \in Sessions : RunsScript(s) => sess'[s] = sess[s]
    BY <1>0, <1>1, TellGood DEF NothingToDo
  <2>2. job' \in [Units -> {"none", "start", "stop"}]
    BY <1>0, <1>1 DEF NothingToDo
  <2>3. TypeOK'
    BY <1>1, <2>1, <2>2 DEF NothingToDo, TypeInv, TypeOK, SessionType
  <2>4. SessionsInv' /\ UnitsInv'
    BY <1>0, <1>1, <2>1 DEF NothingToDo, SessionsInv, UnitsInv, Busy
  <2>5. ScriptsInv'
    BY <1>0, <1>1, <2>1 DEF NothingToDo, ScriptsInv, RunsScript, CallOf
  <2>. QED BY <2>3, <2>4, <2>5 DEF TypeInv
<1>2. CASE BeginStart(u)
  <2>1. TypeOK'
    BY <1>0, <1>2 DEF BeginStart, TypeInv, TypeOK
  <2>2. SessionsInv' /\ ScriptsInv'
    BY <1>0, <1>2 DEF BeginStart, SessionsInv, ScriptsInv, RunsScript, CallOf
  <2>3. UnitsInv'
    BY <1>0, <1>2, UnitsAndSessions DEF BeginStart, UnitsInv, Busy
  <2>. QED BY <2>1, <2>2, <2>3 DEF TypeInv
<1>3. CASE BeginStop(u)
  <2>1. TypeOK'
    BY <1>0, <1>3 DEF BeginStop, TypeInv, TypeOK
  <2>2. SessionsInv' /\ ScriptsInv'
    BY <1>0, <1>3 DEF BeginStop, SessionsInv, ScriptsInv, RunsScript, CallOf
  <2>3. UnitsInv'
    BY <1>0, <1>3, UnitsAndSessions DEF BeginStop, UnitsInv, Busy
  <2>. QED BY <2>1, <2>2, <2>3 DEF TypeInv
<1>4. CASE AbortStart(u)
  BY <1>4, <1>f DEF AbortStart
<1>5. CASE RunLine(u)
  <2>1. at[u] \in 1 .. 8 /\ at[u] + 1 \in 1 .. 9
    BY <1>0, <1>5, ScriptLength DEF RunLine, Running
  <2>2. kernel' \subseteq Items
    BY <1>0, <1>5, EffectType DEF RunLine
  <2>3. TypeOK'
    BY <1>0, <1>5, <2>1, <2>2 DEF RunLine, TypeInv, TypeOK
  <2>4. SessionsInv' /\ ScriptsInv'
    BY <1>0, <1>5 DEF RunLine, SessionsInv, ScriptsInv, RunsScript, CallOf
  <2>5. UnitsInv'
    BY <1>0, <1>5, <2>1, UnitsAndSessions DEF RunLine, UnitsInv, Busy
  <2>. QED BY <2>3, <2>4, <2>5 DEF TypeInv
<1>6. CASE SkipLine(u)
  <2>1. at[u] \in 1 .. 8 /\ at[u] + 1 \in 1 .. 9
    BY <1>0, <1>6, ScriptLength DEF SkipLine, Running
  <2>3. TypeOK'
    BY <1>0, <1>6, <2>1 DEF SkipLine, TypeInv, TypeOK
  <2>4. SessionsInv' /\ ScriptsInv'
    BY <1>0, <1>6 DEF SkipLine, SessionsInv, ScriptsInv, RunsScript, CallOf
  <2>5. UnitsInv'
    BY <1>0, <1>6, <2>1, UnitsAndSessions DEF SkipLine, UnitsInv, Busy
  <2>. QED BY <2>3, <2>4, <2>5 DEF TypeInv
<1>7. CASE FailLine(u)
  BY <1>7, <1>f DEF FailLine
<1>8. CASE UnitSettles(u)
  <2>1. \A d, r : Tell(d, r) =>
           /\ sess' \in [Sessions -> SessionType]
           /\ SessionsInv'
           /\ \A s \in Sessions : RunsScript(s) => sess'[s] = sess[s]
    BY <1>0, TellGood DEF SessionsInv
  <2>2. /\ sess' \in [Sessions -> SessionType]
        /\ SessionsInv'
        /\ \A s \in Sessions : RunsScript(s) => sess'[s] = sess[s]
    BY <1>8, <2>1 DEF UnitSettles
  <2>3. /\ state' \in [Units -> States] /\ job' \in [Units -> {"none", "start", "stop"}]
        /\ at' \in [Units \cup Sessions -> 0 .. 9]
    BY <1>0, <1>8 DEF UnitSettles
  <2>4. TypeOK'
    BY <1>8, <2>2, <2>3 DEF UnitSettles, TypeInv, TypeOK, SessionType
  <2>5. ScriptsInv'
    BY <1>0, <1>8, <2>2 DEF UnitSettles, ScriptsInv, RunsScript, CallOf
  <2>6. UnitsInv'
    BY <1>0, <1>8, UnitsAndSessions DEF UnitSettles, UnitsInv, Busy
  <2>. QED BY <2>2, <2>4, <2>5, <2>6 DEF TypeInv
<1>. QED BY <1>1, <1>2, <1>3, <1>4, <1>5, <1>6, <1>7, <1>8 DEF UnitStep

\* A session whose current call is answered goes on to a good state.
LEMMA SessionAdvances ==
  ASSUME TypeInv, NEW s \in Sessions, sess[s].pc # 0, NEW ok \in BOOLEAN,
         sess' = [sess EXCEPT ![s] = Advance(@, ok)]
  PROVE  /\ sess' \in [Sessions -> SessionType]
         /\ SessionsInv'
         /\ \A t \in Sessions \ {s} : sess'[t] = sess[t]
<1>1. /\ sess \in [Sessions -> SessionType] /\ \A t \in Sessions : GoodSession(sess[t])
  BY DEF TypeInv, TypeOK, SessionsInv, SessionType
<1>2. GoodSession(Advance(sess[s], ok))
  BY <1>1, AdvanceGood
<1>3. Advance(sess[s], ok) \in SessionType
  BY <1>2 DEF GoodSession
<1>. QED BY <1>1, <1>2, <1>3 DEF SessionsInv

\* The steps of the sessions.
LEMMA TypeSessionStep ==
  ASSUME TypeInv, NEW s \in Sessions, Invoke(s) \/ SessionStep(s) \/ Kill(s)
  PROVE  TypeInv'
<1>0. /\ SessionsInv /\ ScriptsInv /\ UnitsInv
      /\ sess \in [Sessions -> SessionType]
      /\ at \in [Units \cup Sessions -> 0 .. 9]
      /\ s \in Units \cup Sessions /\ s \notin Units
      /\ GoodSession(sess[s])
  BY UnitsAndSessions DEF TypeInv, TypeOK, SessionsInv, SessionType
<1>1. CASE Invoke(s)
  <2>1. PICK c \in Commands :
          /\ sess' = [sess EXCEPT ![s] = Begun(c)]
          /\ UNCHANGED <<kernel, state, job, enabled, at, files, reloaded, torn>>
    BY <1>1 DEF Invoke
  <2>2. c \in CommandNames /\ 1 \in 1 .. Len(Program[c])
    BY CommandsAssumption, Programs DEF GoodProgram
  <2>3. GoodSession(Begun(c))
    <3>1. Begun(c).pc = 1 /\ Begun(c).cmd = c /\ Begun(c).waits = FALSE
      BY DEF Begun
    <3>2. Begun(c) \in SessionType
      BY <2>2 DEF Begun, SessionType
    <3>3. Begun(c).pc \in 1 .. Len(Program[Begun(c).cmd])
      BY <2>2, <3>1, Zenon
    <3>. QED BY <2>2, <3>1, <3>2, <3>3 DEF GoodSession
  <2>4. sess' \in [Sessions -> SessionType] /\ SessionsInv'
    <3>1. Begun(c) \in SessionType
      BY <2>3 DEF GoodSession
    <3>. QED BY <1>0, <2>1, <2>3, <3>1 DEF SessionsInv
  <2>5. at[s] = 0
    BY <1>0, <1>1 DEF Invoke, ScriptsInv, RunsScript, Idle
  <2>6. ScriptsInv' /\ UnitsInv'
    BY <1>0, <2>1, <2>5 DEF ScriptsInv, RunsScript, CallOf, UnitsInv, Busy
  <2>7. TypeOK'
    BY <2>1, <2>4 DEF TypeInv, TypeOK, SessionType
  <2>. QED BY <2>4, <2>6, <2>7 DEF TypeInv
<1>2. CASE AskSystemd(s)
  <2>1. /\ sess' \in [Sessions -> SessionType] /\ SessionsInv'
        /\ \A t \in Sessions : RunsScript(t) => sess'[t] = sess[t]
        /\ job' \in [Units -> {"none", "start", "stop"}]
    BY <1>2, RequestGood DEF AskSystemd, SessionsInv
  <2>2. CallOf(s).unit \in Units
    <3>1. sess[s].cmd \in CommandNames /\ sess[s].pc \in 1 .. Len(Program[sess[s].cmd])
      BY <1>0, <1>2 DEF AskSystemd, AtCall, GoodSession
    <3>2. GoodCall(CallOf(s), Len(Program[sess[s].cmd]))
      BY <3>1, Programs DEF GoodProgram, CallOf
    <3>. QED BY <1>2, <3>2 DEF AskSystemd, GoodCall, JobOf
  <2>3. enabled' \subseteq Units
    BY <1>2, <2>2 DEF AskSystemd, TypeInv, TypeOK
  <2>4. TypeOK'
    BY <1>2, <2>1, <2>3 DEF AskSystemd, TypeInv, TypeOK, SessionType
  <2>5. ScriptsInv' /\ UnitsInv'
    BY <1>0, <1>2, <2>1 DEF AskSystemd, ScriptsInv, RunsScript, CallOf, UnitsInv, Busy
  <2>. QED BY <2>1, <2>4, <2>5 DEF TypeInv
<1>3. CASE RunScript(s)
  <2>1. sess[s].pc # 0 /\ CallOf(s).do = "script"
    BY <1>3 DEF RunScript, AtCall
  <2>2. GoodSession(sess'[s]) /\ sess'[s].pc = sess[s].pc /\ sess'[s].cmd = sess[s].cmd
        /\ sess'[s].waits = TRUE
    BY <1>0, <1>3, <2>1 DEF RunScript, GoodSession, SessionType
  <2>3. sess' \in [Sessions -> SessionType] /\ SessionsInv'
    BY <1>0, <1>3, <2>2 DEF RunScript, SessionsInv, GoodSession
  <2>4. ScriptsInv'
    BY <1>0, <1>3, <2>1, <2>2 DEF RunScript, ScriptsInv, RunsScript, CallOf
  <2>5. UnitsInv' /\ at' \in [Units \cup Sessions -> 0 .. 9]
    BY <1>0, <1>3 DEF RunScript, UnitsInv, Busy
  <2>6. TypeOK'
    BY <1>3, <2>3, <2>5 DEF RunScript, TypeInv, TypeOK, SessionType
  <2>. QED BY <2>3, <2>4, <2>5, <2>6 DEF TypeInv
<1>a. ASSUME AtCall(s), NEW ok \in BOOLEAN, sess' = [sess EXCEPT ![s] = Advance(@, ok)],
             files' \subseteq {"units", "config"},
             UNCHANGED <<kernel, state, job, enabled, at, reloaded, torn>>
      PROVE  TypeInv'
  <2>1. /\ sess' \in [Sessions -> SessionType] /\ SessionsInv'
        /\ \A t \in Sessions \ {s} : sess'[t] = sess[t]
    BY <1>a, SessionAdvances DEF AtCall
  <2>2. at[s] = 0
    BY <1>0, <1>a DEF AtCall, ScriptsInv, RunsScript
  <2>3. ScriptsInv' /\ UnitsInv'
    BY <1>0, <1>a, <2>1, <2>2 DEF ScriptsInv, RunsScript, CallOf, UnitsInv, Busy
  <2>4. TypeOK'
    BY <1>a, <2>1 DEF TypeInv, TypeOK, SessionType
  <2>. QED BY <2>1, <2>3, <2>4 DEF TypeInv
<1>4. CASE Missing(s)
  BY <1>4, <1>a DEF Missing, TypeInv, TypeOK
<1>5. CASE EditFiles(s)
  <2>1. sess[s].cmd \in CommandNames /\ sess[s].pc \in 1 .. Len(Program[sess[s].cmd])
    BY <1>0, <1>5 DEF EditFiles, AtCall, GoodSession
  <2>2. GoodCall(CallOf(s), Len(Program[sess[s].cmd]))
    BY <2>1, Programs DEF GoodProgram, CallOf
  <2>3. files' \subseteq {"units", "config"}
    BY <1>5, <2>2 DEF EditFiles, GoodCall, TypeInv, TypeOK
  <2>. QED BY <1>5, <2>3, <1>a DEF EditFiles
<1>6. CASE Check(s)
  <2>1. PICK ok \in Answers(CallOf(s).do) : sess' = [sess EXCEPT ![s] = Advance(@, ok)]
    BY <1>6 DEF Check
  <2>2. ok \in BOOLEAN
    BY <1>6 DEF Check, Answers
  <2>. QED BY <1>6, <2>1, <2>2, <1>a DEF Check, TypeInv, TypeOK
<1>7. CASE RunLine(s)
  <2>1. at[s] \in 1 .. 8 /\ at[s] + 1 \in 1 .. 9
    BY <1>0, <1>7, ScriptLength DEF RunLine, Running
  <2>2. kernel' \subseteq Items
    BY <1>0, <1>7, EffectType DEF RunLine
  <2>3. TypeOK'
    BY <1>0, <1>7, <2>1, <2>2 DEF RunLine, TypeInv, TypeOK
  <2>4. RunsScript(s)
    BY <1>0, <2>1 DEF ScriptsInv
  <2>5. SessionsInv' /\ ScriptsInv' /\ UnitsInv'
    BY <1>0, <1>7, <2>4 DEF RunLine, SessionsInv, ScriptsInv, RunsScript, CallOf, UnitsInv, Busy
  <2>. QED BY <2>3, <2>5 DEF TypeInv
<1>8. CASE SkipLine(s)
  <2>1. at[s] \in 1 .. 8 /\ at[s] + 1 \in 1 .. 9
    BY <1>0, <1>8, ScriptLength DEF SkipLine, Running
  <2>2. TypeOK'
    BY <1>0, <1>8, <2>1 DEF SkipLine, TypeInv, TypeOK
  <2>3. RunsScript(s)
    BY <1>0, <2>1 DEF ScriptsInv
  <2>4. SessionsInv' /\ ScriptsInv' /\ UnitsInv'
    BY <1>0, <1>8, <2>3 DEF SkipLine, SessionsInv, ScriptsInv, RunsScript, CallOf, UnitsInv, Busy
  <2>. QED BY <2>2, <2>4 DEF TypeInv
<1>b. ASSUME at[s] # 0, NEW ok \in BOOLEAN, at' = [at EXCEPT ![s] = 0],
             sess' = [sess EXCEPT ![s] = Advance(@, ok)], torn' \in BOOLEAN,
             UNCHANGED <<kernel, state, job, enabled, files, reloaded>>
      PROVE  TypeInv'
  <2>1. sess[s].pc # 0
    BY <1>0, <1>b DEF ScriptsInv, RunsScript
  <2>2. /\ sess' \in [Sessions -> SessionType] /\ SessionsInv'
        /\ \A t \in Sessions \ {s} : sess'[t] = sess[t]
    BY <1>b, <2>1, SessionAdvances
  <2>3. at' \in [Units \cup Sessions -> 0 .. 9]
    BY <1>0, <1>b
  <2>4. ScriptsInv' /\ UnitsInv'
    BY <1>0, <1>b, <2>2 DEF ScriptsInv, RunsScript, CallOf, UnitsInv, Busy
  <2>5. TypeOK'
    BY <1>b, <2>2, <2>3 DEF TypeInv, TypeOK, SessionType
  <2>. QED BY <2>2, <2>4, <2>5 DEF TypeInv
<1>9. CASE FailLine(s)
  <2>1. at[s] # 0 /\ (torn \/ InWindow(s)) \in BOOLEAN
    BY <1>0, <1>9, ScriptLength DEF FailLine, Running
  <2>. QED BY <1>0, <1>9, <2>1, <1>b DEF FailLine
<1>10. CASE RepairScriptEnds(s)
  <2>1. at[s] # 0
    BY <1>10, ScriptTypes DEF RepairScriptEnds
  <2>. QED BY <1>10, <2>1, <1>b DEF RepairScriptEnds, TypeInv, TypeOK
<1>11. CASE Kill(s)
  <2>1. sess' \in [Sessions -> SessionType] /\ SessionsInv'
    BY <1>0, <1>11, IdleGood DEF Kill, SessionsInv, GoodSession
  <2>2. at' \in [Units \cup Sessions -> 0 .. 9] /\ torn' \in BOOLEAN
    BY <1>0, <1>11 DEF Kill
  <2>3. ScriptsInv' /\ UnitsInv'
    BY <1>0, <1>11 DEF Kill, ScriptsInv, RunsScript, CallOf, UnitsInv, Busy
  <2>4. TypeOK'
    BY <1>11, <2>1, <2>2 DEF Kill, TypeInv, TypeOK, SessionType
  <2>. QED BY <2>1, <2>3, <2>4 DEF TypeInv
<1>. QED BY <1>1, <1>2, <1>3, <1>4, <1>5, <1>6, <1>7, <1>8, <1>9, <1>10, <1>11 DEF SessionStep

LEMMA TypeEnvironment ==
  ASSUME TypeInv, Environment
  PROVE  TypeInv'
<1>0. /\ SessionsInv /\ ScriptsInv /\ UnitsInv
      /\ kernel \subseteq Items
  BY DEF TypeInv, TypeOK
<1>1. CASE Reboot
  <2>1. sess' \in [Sessions -> SessionType] /\ SessionsInv'
    BY <1>1, IdleGood DEF Reboot, SessionsInv, GoodSession
  <2>2. at' \in [Units \cup Sessions -> 0 .. 9]
    BY <1>1 DEF Reboot
  <2>3. /\ state' \in [Units -> States] /\ job' \in [Units -> {"none", "start", "stop"}]
    BY <1>1 DEF Reboot, States
  <2>4. kernel' \subseteq Items /\ reloaded' \in BOOLEAN /\ torn' \in BOOLEAN
    BY <1>1 DEF Reboot
  <2>5. TypeOK'
    BY <1>1, <2>1, <2>2, <2>3, <2>4 DEF Reboot, TypeInv, TypeOK, SessionType, States
  <2>6. ScriptsInv' /\ UnitsInv'
    BY <1>1 DEF Reboot, ScriptsInv, UnitsInv, Busy
  <2>. QED BY <2>1, <2>5, <2>6 DEF TypeInv
<1>2. CASE FirewallReload \/ LinkLost
  <2>1. /\ kernel' \subseteq Items /\ reloaded' \in BOOLEAN
        /\ UNCHANGED <<state, job, enabled, at, files, sess, torn>>
    BY <1>0, <1>2 DEF FirewallReload, LinkLost, TypeInv, TypeOK
  <2>2. TypeOK'
    BY <2>1 DEF TypeInv, TypeOK
  <2>. QED BY <1>0, <2>1, <2>2 DEF TypeInv, SessionsInv, ScriptsInv, RunsScript, CallOf, UnitsInv, Busy
<1>. QED BY <1>1, <1>2 DEF Environment

LEMMA TypeNext == TypeInv /\ [Next]_vars => TypeInv'
<1>. SUFFICES ASSUME TypeInv, [Next]_vars PROVE TypeInv'
  OBVIOUS
<1>1. CASE Next
  BY <1>1, TypeUnitStep, TypeSessionStep, TypeEnvironment DEF Next
<1>2. CASE UNCHANGED vars
  BY <1>2 DEF vars, TypeInv, TypeOK, SessionsInv, ScriptsInv, RunsScript, CallOf, UnitsInv, Busy
<1>. QED BY <1>1, <1>2

\* Every variable keeps its type, and no command ever runs off its program.
\* (app.go ManageLink, RepairGuards, LeakTest, Join, Uninstall.)
THEOREM TypeCorrect == Spec => []TypeOK
<1>1. TypeInv => TypeOK
  BY DEF TypeInv
<1>. QED BY TypeInit, TypeNext, <1>1, PTL DEF Spec

----------------------------------------------------------------------------
(***************************************************************************)
(* The link needs the guard.  The invariant is about the jobs: a queued    *)
(* start of the link has a guard that is active or still has its own job,  *)
(* and that job is not a stop.                                             *)
(***************************************************************************)

JobsInv ==
  job["link"] = "start" =>
    job["guard"] = "start" \/ (job["guard"] = "none" /\ state["guard"] = "active")

LinkInv == TypeInv /\ JobsInv /\ LinkNeedsGuard

LEMMA GuardAndLink == {"guard", "link"} \subseteq Units
BY DEF Units

LEMMA LinkInit == Init => LinkInv
BY TypeInit, GuardAndLink DEF Init, LinkInv, JobsInv, LinkNeedsGuard

LEMMA LinkUnitStep ==
  ASSUME LinkInv, NEW u \in Units, UnitStep(u)
  PROVE  JobsInv' /\ LinkNeedsGuard'
<1>. USE GuardAndLink
<1>0. /\ JobsInv /\ LinkNeedsGuard /\ UnitsInv
      /\ state \in [Units -> States] /\ job \in [Units -> {"none", "start", "stop"}]
      /\ at \in [Units \cup Sessions -> 0 .. 9]
  BY DEF LinkInv, TypeInv, TypeOK, States
<1>u. u \notin Sessions
  BY UnitsAndSessions
<1>f. ASSUME UnitFails(u), Busy(u) PROVE JobsInv' /\ LinkNeedsGuard'
  <2>1. CASE u = "guard"
    BY <1>0, <1>f, <2>1 DEF UnitFails, Busy, JobsInv, LinkNeedsGuard
  <2>2. CASE u # "guard"
    BY <1>0, <1>f, <2>2 DEF UnitFails, Busy, JobsInv, LinkNeedsGuard
  <2>. QED BY <2>1, <2>2
<1>1. CASE NothingToDo(u)
  BY <1>0, <1>1 DEF NothingToDo, JobsInv, LinkNeedsGuard, Down
<1>2. CASE BeginStart(u)
  BY <1>0, <1>2 DEF BeginStart, InTurn, JobsInv, LinkNeedsGuard, Down
<1>3. CASE BeginStop(u)
  BY <1>0, <1>3 DEF BeginStop, InTurn, JobsInv, LinkNeedsGuard, Down
<1>4. CASE AbortStart(u)
  BY <1>0, <1>4, <1>f DEF AbortStart, Busy
<1>5. CASE RunLine(u)
  BY <1>0, <1>5 DEF RunLine, JobsInv, LinkNeedsGuard
<1>6. CASE SkipLine(u)
  BY <1>0, <1>6 DEF SkipLine, JobsInv, LinkNeedsGuard
<1>7. CASE FailLine(u)
  <2>1. at[u] # 0
    BY <1>0, <1>7, ScriptLength DEF FailLine, Running
  <2>. QED BY <1>0, <1>7, <2>1, <1>f DEF FailLine, UnitsInv
<1>8. CASE UnitSettles(u)
  <2>1. at[u] # 0
    BY <1>8, ScriptLength DEF UnitSettles
  <2>2. Busy(u)
    BY <1>0, <2>1 DEF UnitsInv
  <2>3. /\ state' = [state EXCEPT ![u] = IF @ = "activating" THEN "active" ELSE "inactive"]
        /\ job' = [job EXCEPT ![u] =
             IF @ = (IF state[u] = "activating" THEN "start" ELSE "stop") THEN "none" ELSE @]
    BY <1>8 DEF UnitSettles
  <2>4. CASE u = "guard"
    BY <1>0, <2>2, <2>3, <2>4 DEF Busy, JobsInv, LinkNeedsGuard
  <2>5. CASE u # "guard"
    BY <1>0, <2>2, <2>3, <2>5 DEF Busy, JobsInv, LinkNeedsGuard
  <2>. QED BY <2>4, <2>5
<1>. QED BY <1>1, <1>2, <1>3, <1>4, <1>5, <1>6, <1>7, <1>8 DEF UnitStep

LEMMA LinkSessionStep ==
  ASSUME LinkInv, NEW s \in Sessions, Invoke(s) \/ SessionStep(s) \/ Kill(s)
  PROVE  JobsInv' /\ LinkNeedsGuard'
<1>. USE GuardAndLink
<1>0. /\ JobsInv /\ LinkNeedsGuard
      /\ job \in [Units -> {"none", "start", "stop"}]
      /\ s \notin Units
  BY UnitsAndSessions DEF LinkInv, TypeInv, TypeOK
<1>1. CASE AskSystemd(s)
  <2>1. PICK u, j : /\ j \in {"start", "stop"}
                    /\ job' = [v \in Units |-> IF v \in Pulled(u, j) THEN j ELSE job[v]]
                    /\ state' = state
    BY <1>1 DEF AskSystemd, Request, JobOf
  <2>. QED BY <1>0, <2>1 DEF Pulled, JobsInv, LinkNeedsGuard
<1>2. CASE ~AskSystemd(s)
  <2>1. UNCHANGED <<state, job>>
    BY <1>0, <1>2 DEF Invoke, SessionStep, Kill, RunScript, Missing, EditFiles, Check,
                      RunLine, SkipLine, FailLine, RepairScriptEnds
  <2>. QED BY <1>0, <2>1 DEF JobsInv, LinkNeedsGuard
<1>. QED BY <1>1, <1>2

LEMMA LinkNext == LinkInv /\ [Next]_vars => LinkInv'
<1>. SUFFICES ASSUME LinkInv, [Next]_vars PROVE LinkInv'
  OBVIOUS
<1>. USE GuardAndLink
<1>1. TypeInv'
  BY TypeNext DEF LinkInv
<1>2. ASSUME Environment PROVE JobsInv' /\ LinkNeedsGuard'
  <2>1. CASE Reboot
    BY <2>1 DEF Reboot, JobsInv, LinkNeedsGuard
  <2>2. CASE FirewallReload \/ LinkLost
    BY <2>2 DEF FirewallReload, LinkLost, LinkInv, JobsInv, LinkNeedsGuard
  <2>. QED BY <1>2, <2>1, <2>2 DEF Environment
<1>3. ASSUME UNCHANGED vars PROVE JobsInv' /\ LinkNeedsGuard'
  BY <1>3 DEF vars, LinkInv, JobsInv, LinkNeedsGuard
<1>4. JobsInv' /\ LinkNeedsGuard'
  BY <1>2, <1>3, LinkUnitStep, LinkSessionStep DEF Next, LinkInv
<1>. QED BY <1>1, <1>4 DEF LinkInv

\* Whatever the operators do and whatever fails, the link is up, starting or
\* stopping only on top of an active guard.
\* (render.go IPIPUnit, WireGuardGuardDropIn, GuardUnit.)
THEOREM LinkNeverAlone == Spec => []LinkNeedsGuard
<1>1. LinkInv => LinkNeedsGuard
  BY DEF LinkInv
<1>. QED BY LinkInit, LinkNext, <1>1, PTL DEF Spec

----------------------------------------------------------------------------
(***************************************************************************)
(* Nothing leaks.  The invariant follows the guard's script: once its      *)
(* start has run a line, the entry the line adds is in the kernel, except  *)
(* that a repair which is in its window, or was cut short there, may have  *)
(* taken a policy rule away, and that a reload may have taken the filter.  *)
(***************************************************************************)

\* The line the guard's start has come to; 9 is the end of its script.
Raised ==
  IF state["guard"] = "active" THEN 9
  ELSE IF state["guard"] = "activating" THEN at["guard"] ELSE 0

PolicyInv ==
  /\ Raised > 1 => "unreachable" \in kernel
  /\ Raised > 4 => "markRule" \in kernel \/ torn \/ \E s \in Sessions : at[s] \in {3, 4}
  /\ Raised > 5 => "srcRule" \in kernel \/ torn \/ \E s \in Sessions : at[s] \in {4, 5}

FilterInv ==
  \/ reloaded
  \/ /\ Raised > 6 => "markReject" \in kernel
     /\ Raised > 7 => "srcReject" \in kernel
     /\ Raised > 8 => "mark6Reject" \in kernel

LeakInv == TypeInv /\ PolicyInv /\ FilterInv

LEMMA RaisedType == TypeOK => Raised \in 0 .. 9
BY GuardAndLink DEF TypeOK, Raised

LEMMA LeakInit == Init => LeakInv
<1>. SUFFICES ASSUME Init PROVE LeakInv
  OBVIOUS
<1>1. Raised = 0
  BY GuardAndLink DEF Init, Raised
<1>. QED BY <1>1, TypeInit DEF LeakInv, PolicyInv, FilterInv

LEMMA LeakInvariant == LeakInv => NoLeak
<1>. SUFFICES ASSUME LeakInv, state["guard"] = "active", NEW p \in Packets,
                     Verdict(kernel, p) = "wan"
              PROVE  reloaded /\ (p = "marked6" \/ RuleWindow)
  BY DEF NoLeak
<1>1. RouteOf(kernel, p) = "wan" /\ RejectOf[p] \notin kernel
  BY DEF Verdict
<1>r. Raised = 9
  BY DEF Raised
<1>2. /\ "unreachable" \in kernel
      /\ "markRule" \in kernel \/ RuleWindow
      /\ "srcRule" \in kernel \/ RuleWindow
  BY <1>r DEF LeakInv, PolicyInv, RuleWindow, InWindow
<1>3. reloaded
  BY <1>r, <1>1 DEF LeakInv, FilterInv, RejectOf, Packets
<1>4. CASE p = "marked"
  BY <1>1, <1>2, <1>3, <1>4 DEF RouteOf, RuleOf
<1>5. CASE p = "sourced"
  BY <1>1, <1>2, <1>3, <1>5 DEF RouteOf, RuleOf
<1>. QED BY <1>3, <1>4, <1>5 DEF Packets

\* A step that raises nothing, removes nothing, and lets a repair leave its
\* window only by tearing it, keeps the invariant.
LEMMA LeakQuiet ==
  ASSUME PolicyInv, FilterInv, Raised \in Nat, Raised' \in Nat, Raised' <= Raised,
         kernel \cap (Policy \cup Rejects) \subseteq kernel',
         \A s \in Sessions : at'[s] = at[s] \/ torn' \/ at[s] \notin {3, 4, 5},
         torn => torn', reloaded => reloaded'
  PROVE  PolicyInv' /\ FilterInv'
<1>1. \A i \in Policy \cup Rejects : i \in kernel => i \in kernel'
  OBVIOUS
<1>2. /\ "unreachable" \in kernel => "unreachable" \in kernel'
      /\ "markRule" \in kernel => "markRule" \in kernel'
      /\ "srcRule" \in kernel => "srcRule" \in kernel'
      /\ "markReject" \in kernel => "markReject" \in kernel'
      /\ "srcReject" \in kernel => "srcReject" \in kernel'
      /\ "mark6Reject" \in kernel => "mark6Reject" \in kernel'
  BY <1>1 DEF Policy, Rejects
<1>3. /\ Raised' > 1 => Raised > 1
      /\ Raised' > 4 => Raised > 4
      /\ Raised' > 5 => Raised > 5
      /\ Raised' > 6 => Raised > 6
      /\ Raised' > 7 => Raised > 7
      /\ Raised' > 8 => Raised > 8
  OBVIOUS
<1>4. (\E s \in Sessions : at[s] \in {3, 4}) =>
        torn' \/ \E s \in Sessions : at'[s] \in {3, 4}
  OBVIOUS
<1>5. (\E s \in Sessions : at[s] \in {4, 5}) =>
        torn' \/ \E s \in Sessions : at'[s] \in {4, 5}
  OBVIOUS
<1>6. PolicyInv'
  <2>1. /\ Raised > 1 => "unreachable" \in kernel
        /\ Raised > 4 => "markRule" \in kernel \/ torn \/ \E s \in Sessions : at[s] \in {3, 4}
        /\ Raised > 5 => "srcRule" \in kernel \/ torn \/ \E s \in Sessions : at[s] \in {4, 5}
    BY DEF PolicyInv
  <2>2. /\ Raised' > 1 => "unreachable" \in kernel'
        /\ Raised' > 4 => "markRule" \in kernel' \/ torn' \/ \E s \in Sessions : at'[s] \in {3, 4}
        /\ Raised' > 5 => "srcRule" \in kernel' \/ torn' \/ \E s \in Sessions : at'[s] \in {4, 5}
    BY <2>1, <1>2, <1>3, <1>4, <1>5
  <2>. QED BY <2>2 DEF PolicyInv
<1>7. FilterInv'
  <2>0. CASE reloaded
    <3>1. reloaded' BY <2>0
    <3>. QED BY <3>1 DEF FilterInv
  <2>a. CASE ~reloaded
    <3>1. /\ Raised > 6 => "markReject" \in kernel
          /\ Raised > 7 => "srcReject" \in kernel
          /\ Raised > 8 => "mark6Reject" \in kernel
      BY <2>a DEF FilterInv
    <3>2. /\ Raised' > 6 => "markReject" \in kernel'
          /\ Raised' > 7 => "srcReject" \in kernel'
          /\ Raised' > 8 => "mark6Reject" \in kernel'
      BY <3>1, <1>2, <1>3
    <3>. QED BY <3>2 DEF FilterInv
  <2>. QED BY <2>0, <2>a
<1>. QED BY <1>6, <1>7

\* What a line of the guard's script gains for the invariant: the guard, or a
\* repair, goes from line i to the next.
LEMMA LineKeeps ==
  ASSUME NEW k, NEW i \in 1 .. 8
  PROVE  LET e == Effect(k, GuardUp[i]) IN
         /\ "unreachable" \in e <=> i = 1 \/ "unreachable" \in k
         /\ "markRule" \in e <=> i = 4 \/ (i # 2 /\ "markRule" \in k)
         /\ "srcRule" \in e <=> i = 5 \/ (i # 3 /\ "srcRule" \in k)
         /\ "markReject" \in e <=> i = 6 \/ "markReject" \in k
         /\ "srcReject" \in e <=> i = 7 \/ "srcReject" \in k
         /\ "mark6Reject" \in e <=> i = 8 \/ "mark6Reject" \in k
<1>. DEFINE e == Effect(k, GuardUp[i])
<1>1. /\ i = 1 => e = k \cup {"unreachable"}
      /\ i = 2 => e = k \ {"markRule"}
      /\ i = 3 => e = k \ {"srcRule"}
      /\ i = 4 => e = k \cup {"markRule"}
      /\ i = 5 => e = k \cup {"srcRule"}
      /\ i = 6 => e = k \cup {"markReject"}
      /\ i = 7 => e = k \cup {"srcReject"}
      /\ i = 8 => e = k \cup {"mark6Reject"}
  BY GuardUpLines
<1>. HIDE DEF e
<1>2. i = 1 \/ i = 2 \/ i = 3 \/ i = 4 \/ i = 5 \/ i = 6 \/ i = 7 \/ i = 8
  OBVIOUS
<1>. DEFINE kept ==
        /\ "unreachable" \in e <=> i = 1 \/ "unreachable" \in k
        /\ "markRule" \in e <=> i = 4 \/ (i # 2 /\ "markRule" \in k)
        /\ "srcRule" \in e <=> i = 5 \/ (i # 3 /\ "srcRule" \in k)
        /\ "markReject" \in e <=> i = 6 \/ "markReject" \in k
        /\ "srcReject" \in e <=> i = 7 \/ "srcReject" \in k
        /\ "mark6Reject" \in e <=> i = 8 \/ "mark6Reject" \in k
<1>3. i = 1 => kept
  BY <1>1
<1>4. i = 2 => kept
  BY <1>1
<1>5. i = 3 => kept
  BY <1>1
<1>6. i = 4 => kept
  BY <1>1
<1>7. i = 5 => kept
  BY <1>1
<1>8. i = 6 => kept
  BY <1>1
<1>9. i = 7 => kept
  BY <1>1
<1>10. i = 8 => kept
  BY <1>1
<1>. QED BY <1>2, <1>3, <1>4, <1>5, <1>6, <1>7, <1>8, <1>9, <1>10 DEF e

\* A line of the guard's own start.
LEMMA LeakGuardLine ==
  ASSUME LeakInv, state["guard"] = "activating", RunLine("guard")
  PROVE  PolicyInv' /\ FilterInv'
<1>. USE GuardAndLink
<1>. DEFINE i == at["guard"]
<1>1. Script("guard") = GuardUp
  BY UnitsAndSessions DEF Script
<1>2. i \in 1 .. 8 /\ kernel' = Effect(kernel, GuardUp[i])
  BY <1>1, GuardUpLines DEF RunLine, Running
<1>3. /\ Raised = i /\ Raised' = i + 1
      /\ \A s \in Sessions : at'[s] = at[s]
      /\ UNCHANGED <<reloaded, torn>>
  BY UnitsAndSessions DEF RunLine, Raised, LeakInv, TypeInv, TypeOK
<1>. HIDE DEF i
<1>4. /\ "unreachable" \in kernel' <=> i = 1 \/ "unreachable" \in kernel
      /\ "markRule" \in kernel' <=> i = 4 \/ (i # 2 /\ "markRule" \in kernel)
      /\ "srcRule" \in kernel' <=> i = 5 \/ (i # 3 /\ "srcRule" \in kernel)
      /\ "markReject" \in kernel' <=> i = 6 \/ "markReject" \in kernel
      /\ "srcReject" \in kernel' <=> i = 7 \/ "srcReject" \in kernel
      /\ "mark6Reject" \in kernel' <=> i = 8 \/ "mark6Reject" \in kernel
  BY <1>2, LineKeeps
<1>5. PolicyInv'
  <2>1. /\ i > 1 => "unreachable" \in kernel
        /\ i > 4 => "markRule" \in kernel \/ torn \/ \E s \in Sessions : at[s] \in {3, 4}
        /\ i > 5 => "srcRule" \in kernel \/ torn \/ \E s \in Sessions : at[s] \in {4, 5}
    BY <1>3 DEF LeakInv, PolicyInv
  <2>2. /\ i + 1 > 1 => i = 1 \/ i > 1
        /\ i + 1 > 4 => i # 2 /\ (i = 4 \/ i > 4)
        /\ i + 1 > 5 => i # 3 /\ (i = 5 \/ i > 5)
    BY <1>2
  <2>3. /\ i + 1 > 1 => "unreachable" \in kernel'
        /\ i + 1 > 4 => "markRule" \in kernel' \/ torn' \/ \E s \in Sessions : at'[s] \in {3, 4}
        /\ i + 1 > 5 => "srcRule" \in kernel' \/ torn' \/ \E s \in Sessions : at'[s] \in {4, 5}
    BY <1>3, <1>4, <2>1, <2>2
  <2>. QED BY <1>3, <2>3 DEF PolicyInv
<1>6. FilterInv'
  <2>1. CASE reloaded
    <3>1. reloaded' BY <1>3, <2>1
    <3>. QED BY <3>1 DEF FilterInv
  <2>2. CASE ~reloaded
    <3>1. /\ i > 6 => "markReject" \in kernel
          /\ i > 7 => "srcReject" \in kernel
          /\ i > 8 => "mark6Reject" \in kernel
      BY <1>3, <2>2 DEF LeakInv, FilterInv
    <3>2. /\ i + 1 > 6 => i = 6 \/ i > 6
          /\ i + 1 > 7 => i = 7 \/ i > 7
          /\ i + 1 > 8 => i = 8 \/ i > 8
      BY <1>2
    <3>3. /\ i + 1 > 6 => "markReject" \in kernel'
          /\ i + 1 > 7 => "srcReject" \in kernel'
          /\ i + 1 > 8 => "mark6Reject" \in kernel'
      BY <1>4, <3>1, <3>2
    <3>. QED BY <1>3, <3>3 DEF FilterInv
  <2>. QED BY <2>1, <2>2
<1>. QED BY <1>5, <1>6

\* A line of a repair.
LEMMA LeakRepairLine ==
  ASSUME LeakInv, NEW s \in Sessions, RunLine(s)
  PROVE  PolicyInv' /\ FilterInv'
<1>. USE GuardAndLink
<1>. DEFINE i == at[s]
<1>1. Script(s) = GuardUp
  BY DEF Script
<1>2. i \in 1 .. 8 /\ kernel' = Effect(kernel, GuardUp[i])
  BY <1>1, GuardUpLines DEF RunLine, Running
<1>3. /\ Raised' = Raised /\ Raised \in Nat
      /\ at'[s] = i + 1
      /\ \A t \in Sessions \ {s} : at'[t] = at[t]
      /\ UNCHANGED <<reloaded, torn>>
  BY UnitsAndSessions, RaisedType DEF RunLine, Raised, LeakInv, TypeInv, TypeOK
<1>. HIDE DEF i
<1>4. /\ "unreachable" \in kernel' <=> i = 1 \/ "unreachable" \in kernel
      /\ "markRule" \in kernel' <=> i = 4 \/ (i # 2 /\ "markRule" \in kernel)
      /\ "srcRule" \in kernel' <=> i = 5 \/ (i # 3 /\ "srcRule" \in kernel)
      /\ "markReject" \in kernel' <=> i = 6 \/ "markReject" \in kernel
      /\ "srcReject" \in kernel' <=> i = 7 \/ "srcReject" \in kernel
      /\ "mark6Reject" \in kernel' <=> i = 8 \/ "mark6Reject" \in kernel
  BY <1>2, LineKeeps
<1>5. PolicyInv'
  <2>1. /\ Raised > 1 => "unreachable" \in kernel
        /\ Raised > 4 => "markRule" \in kernel \/ torn \/ \E t \in Sessions : at[t] \in {3, 4}
        /\ Raised > 5 => "srcRule" \in kernel \/ torn \/ \E t \in Sessions : at[t] \in {4, 5}
    BY DEF LeakInv, PolicyInv
  <2>2. /\ "markRule" \in kernel => "markRule" \in kernel' \/ at'[s] \in {3, 4}
        /\ "srcRule" \in kernel => "srcRule" \in kernel' \/ at'[s] \in {4, 5}
    BY <1>2, <1>3, <1>4
  <2>3. ASSUME NEW t \in Sessions, at[t] \in {3, 4}
        PROVE  "markRule" \in kernel' \/ \E r \in Sessions : at'[r] \in {3, 4}
    <3>1. CASE t # s
      BY <1>3, <2>3, <3>1
    <3>2. CASE t = s /\ i = 3
      BY <1>3, <3>2
    <3>3. CASE t = s /\ i = 4
      BY <1>4, <3>3
    <3>. QED BY <2>3, <3>1, <3>2, <3>3 DEF i
  <2>4. ASSUME NEW t \in Sessions, at[t] \in {4, 5}
        PROVE  "srcRule" \in kernel' \/ \E r \in Sessions : at'[r] \in {4, 5}
    <3>1. CASE t # s
      BY <1>3, <2>4, <3>1
    <3>2. CASE t = s /\ i = 4
      BY <1>3, <3>2
    <3>3. CASE t = s /\ i = 5
      BY <1>4, <3>3
    <3>. QED BY <2>4, <3>1, <3>2, <3>3 DEF i
  <2>5. /\ Raised' > 1 => "unreachable" \in kernel'
        /\ Raised' > 4 => "markRule" \in kernel' \/ torn' \/ \E t \in Sessions : at'[t] \in {3, 4}
        /\ Raised' > 5 => "srcRule" \in kernel' \/ torn' \/ \E t \in Sessions : at'[t] \in {4, 5}
    BY <1>3, <1>4, <2>1, <2>2, <2>3, <2>4
  <2>. QED BY <2>5 DEF PolicyInv
<1>6. FilterInv'
  <2>1. CASE reloaded
    <3>1. reloaded' BY <1>3, <2>1
    <3>. QED BY <3>1 DEF FilterInv
  <2>2. CASE ~reloaded
    <3>1. /\ Raised > 6 => "markReject" \in kernel
          /\ Raised > 7 => "srcReject" \in kernel
          /\ Raised > 8 => "mark6Reject" \in kernel
      BY <2>2 DEF LeakInv, FilterInv
    <3>2. /\ Raised' > 6 => "markReject" \in kernel'
          /\ Raised' > 7 => "srcReject" \in kernel'
          /\ Raised' > 8 => "mark6Reject" \in kernel'
      BY <1>3, <1>4, <3>1
    <3>. QED BY <3>2 DEF FilterInv
  <2>. QED BY <2>1, <2>2
<1>. QED BY <1>5, <1>6

LEMMA LeakUnitStep ==
  ASSUME LeakInv, NEW u \in Units, UnitStep(u)
  PROVE  PolicyInv' /\ FilterInv'
<1>. USE GuardAndLink
<1>0. /\ TypeInv /\ TypeInv' /\ UnitsInv /\ PolicyInv /\ FilterInv
      /\ Raised \in 0 .. 9 /\ Raised' \in 0 .. 9
  <2>1. TypeInv'
    BY TypeUnitStep DEF LeakInv
  <2>2. TypeOK /\ TypeOK' /\ UnitsInv
    BY <2>1 DEF LeakInv, TypeInv
  <2>3. Raised' \in 0 .. 9
    BY <2>2, GuardAndLink DEF TypeOK, Raised
  <2>. QED BY <2>1, <2>2, <2>3, RaisedType DEF LeakInv
<1>t. /\ state \in [Units -> States] /\ at \in [Units \cup Sessions -> 0 .. 9]
      /\ u \notin Sessions
  BY <1>0, UnitsAndSessions DEF TypeInv, TypeOK, States
<1>r. Raised \in Nat /\ Raised' \in Nat
  BY <1>0
\* A step that does not carry the guard's start on.
<1>q. ASSUME Raised' <= Raised,
             kernel \cap (Policy \cup Rejects) \subseteq kernel',
             \A s \in Sessions : at'[s] = at[s], UNCHANGED <<reloaded, torn>>
      PROVE  PolicyInv' /\ FilterInv'
  BY <1>0, <1>r, <1>q, LeakQuiet
\* A step that leaves the guard neither starting nor active.
<1>d. ASSUME state'["guard"] \notin {"activating", "active"}
      PROVE  PolicyInv' /\ FilterInv'
  <2>1. Raised' = 0
    BY <1>d DEF Raised
  <2>2. PolicyInv'
    BY <2>1 DEF PolicyInv
  <2>3. FilterInv'
    BY <2>1 DEF FilterInv
  <2>. QED BY <2>2, <2>3
<1>f. ASSUME UnitFails(u), Busy(u)
      PROVE  PolicyInv' /\ FilterInv'
  <2>1. CASE u = "guard"
    <3>1. state'["guard"] = "failed"
      BY <1>t, <1>f, <2>1 DEF UnitFails
    <3>. QED BY <3>1, <1>d
  <2>2. CASE u # "guard"
    <3>1. Raised' = Raised /\ \A s \in Sessions : at'[s] = at[s]
      BY <1>t, <1>f, <2>2 DEF UnitFails, Raised
    <3>2. kernel \cap (Policy \cup Rejects) \subseteq kernel'
      BY <1>f DEF UnitFails, Undone, Policy, Rejects
    <3>. QED BY <1>f, <1>r, <3>1, <3>2, <1>q DEF UnitFails
  <2>. QED BY <2>1, <2>2
<1>1. CASE NothingToDo(u)
  <2>1. Raised' = Raised
    BY <1>1 DEF NothingToDo, Raised
  <2>. QED BY <1>1, <1>r, <2>1, <1>q DEF NothingToDo
<1>2. CASE BeginStart(u)
  <2>2. CASE u = "guard"
    <3>0. Raised' = 1
      BY <1>t, <1>2, <2>2 DEF BeginStart, Raised
    <3>1. PolicyInv'
      BY <3>0 DEF PolicyInv
    <3>2. FilterInv'
      BY <3>0 DEF FilterInv
    <3>. QED BY <3>1, <3>2
  <2>3. CASE u # "guard"
    <3>1. Raised' = Raised /\ \A s \in Sessions : at'[s] = at[s]
      BY <1>t, <1>2, <2>3 DEF BeginStart, Raised
    <3>. QED BY <1>2, <1>r, <3>1, <1>q DEF BeginStart
  <2>. QED BY <2>2, <2>3
<1>3. CASE BeginStop(u)
  <2>1. CASE u = "guard"
    <3>1. state'["guard"] = "deactivating"
      BY <1>t, <1>3, <2>1 DEF BeginStop
    <3>. QED BY <3>1, <1>d
  <2>2. CASE u # "guard"
    <3>1. Raised' = Raised /\ \A s \in Sessions : at'[s] = at[s]
      BY <1>t, <1>3, <2>2 DEF BeginStop, Raised
    <3>. QED BY <1>3, <1>r, <3>1, <1>q DEF BeginStop
  <2>. QED BY <2>1, <2>2
<1>4. CASE AbortStart(u)
  BY <1>4, <1>f DEF AbortStart, Busy
<1>5. CASE RunLine(u)
  <2>1. CASE u = "guard" /\ state["guard"] = "activating"
    BY <1>5, <2>1, LeakGuardLine
  <2>2. CASE u = "guard" /\ state["guard"] # "activating"
    <3>1. at["guard"] # 0
      BY <1>t, <1>5, <2>2, ScriptLength DEF RunLine, Running
    <3>2. state'["guard"] = "deactivating"
      BY <1>0, <1>5, <2>2, <3>1 DEF RunLine, UnitsInv, Busy
    <3>. QED BY <3>2, <1>d
  <2>3. CASE u # "guard"
    <3>1. Raised' = Raised /\ \A s \in Sessions : at'[s] = at[s]
      BY <1>t, <1>5, <2>3 DEF RunLine, Raised
    <3>2. Script(u) \in Seq(LinkLine)
      <4>1. u \in {"link", "ara"}
        BY <2>3 DEF Units
      <4>2. Script(u) \in {LinkUp, LinkDown, << >>}
        BY <1>t, <4>1 DEF Script
      <4>3. << >> \in Seq(LinkLine)
        OBVIOUS
      <4>. QED BY <4>2, <4>3, ScriptTypes, Zenon
    <3>3. Script(u)[at[u]] \in LinkLine
      BY <1>5, <3>2, ElementOfSeq DEF RunLine, Running
    <3>4. kernel \cap (Policy \cup Rejects) \subseteq kernel'
      BY <1>5, <3>3, LinkLineEffect DEF RunLine
    <3>. QED BY <1>5, <1>r, <3>1, <3>4, <1>q DEF RunLine
  <2>. QED BY <2>1, <2>2, <2>3
<1>6. CASE SkipLine(u)
  <2>1. CASE u = "guard" /\ state["guard"] = "activating"
    <3>1. Script(u) = GuardUp
      BY <1>t, <2>1 DEF Script
    <3>2. FALSE
      BY <1>6, <3>1, GuardUpLines, GuardUpNotSkipped DEF SkipLine, Running
    <3>. QED BY <3>2
  <2>2. CASE u = "guard" /\ state["guard"] # "activating"
    <3>1. at["guard"] # 0
      BY <1>t, <1>6, <2>2, ScriptLength DEF SkipLine, Running
    <3>2. state'["guard"] = "deactivating"
      BY <1>0, <1>6, <2>2, <3>1 DEF SkipLine, UnitsInv, Busy
    <3>. QED BY <3>2, <1>d
  <2>3. CASE u # "guard"
    <3>1. Raised' = Raised /\ \A s \in Sessions : at'[s] = at[s]
      BY <1>t, <1>6, <2>3 DEF SkipLine, Raised
    <3>. QED BY <1>6, <1>r, <3>1, <1>q DEF SkipLine
  <2>. QED BY <2>1, <2>2, <2>3
<1>7. CASE FailLine(u)
  <2>1. at[u] # 0
    BY <1>t, <1>7, ScriptLength DEF FailLine, Running
  <2>. QED BY <1>0, <1>7, <2>1, <1>f DEF FailLine, UnitsInv
<1>8. CASE UnitSettles(u)
  <2>1. at[u] # 0
    BY <1>8, ScriptLength DEF UnitSettles
  <2>2. Busy(u)
    BY <1>0, <2>1 DEF UnitsInv
  <2>3. CASE u = "guard" /\ state["guard"] = "activating"
    <3>1. Script(u) = GuardUp
      BY <1>t, <2>3 DEF Script
    <3>0. Len(Script(u)) = 8
      BY <3>1, GuardUpLines, Zenon
    <3>a. at[u] = Len(Script(u)) + 1
      BY <1>8 DEF UnitSettles
    <3>2. at["guard"] = 9
      BY <2>3, <3>0, <3>a
    <3>3. Raised = 9 /\ Raised' <= 9 /\ \A s \in Sessions : at'[s] = at[s]
      BY <1>0, <1>t, <1>8, <2>3, <3>2 DEF UnitSettles, Raised
    <3>. QED BY <1>8, <1>r, <3>3, <1>q DEF UnitSettles
  <2>4. CASE u = "guard" /\ state["guard"] # "activating"
    <3>1. state'["guard"] = "inactive"
      BY <1>t, <1>8, <2>4 DEF UnitSettles
    <3>. QED BY <3>1, <1>d
  <2>5. CASE u # "guard"
    <3>1. Raised' = Raised /\ \A s \in Sessions : at'[s] = at[s]
      BY <1>t, <1>8, <2>5 DEF UnitSettles, Raised
    <3>. QED BY <1>8, <1>r, <3>1, <1>q DEF UnitSettles
  <2>. QED BY <2>3, <2>4, <2>5
<1>. QED BY <1>1, <1>2, <1>3, <1>4, <1>5, <1>6, <1>7, <1>8 DEF UnitStep

LEMMA LeakSessionStep ==
  ASSUME LeakInv, NEW s \in Sessions, Invoke(s) \/ SessionStep(s) \/ Kill(s)
  PROVE  PolicyInv' /\ FilterInv'
<1>. USE GuardAndLink
<1>0. /\ UnitsInv /\ ScriptsInv /\ PolicyInv /\ FilterInv /\ Raised \in Nat
      /\ at \in [Units \cup Sessions -> 0 .. 9]
      /\ s \notin Units
  BY RaisedType, UnitsAndSessions DEF LeakInv, TypeInv, TypeOK
\* A step after which every repair outside s is where it was, and s is not cut
\* short in its window.
<1>q. ASSUME UNCHANGED <<state, kernel, reloaded>>,
             at'["guard"] = at["guard"],
             \A t \in Sessions : at'[t] = at[t] \/ torn' \/ at[t] \notin {3, 4, 5},
             torn => torn'
      PROVE  PolicyInv' /\ FilterInv'
  <2>1. Raised' = Raised
    BY <1>q DEF Raised
  <2>. QED BY <1>0, <1>q, <2>1, LeakQuiet
<1>1. CASE RunLine(s)
  BY <1>1, LeakRepairLine
<1>2. CASE Invoke(s) \/ Missing(s) \/ EditFiles(s) \/ Check(s)
  <2>1. UNCHANGED <<state, kernel, reloaded, at, torn>>
    BY <1>2 DEF Invoke, Missing, EditFiles, Check
  <2>. QED BY <2>1, <1>q
<1>3. CASE AskSystemd(s)
  <2>1. UNCHANGED <<state, kernel, reloaded, at, torn>>
    BY <1>3 DEF AskSystemd
  <2>. QED BY <2>1, <1>q
<1>4. CASE RunScript(s)
  <2>1. at[s] = 0
    BY <1>0, <1>4 DEF RunScript, AtCall, ScriptsInv, RunsScript
  <2>2. /\ UNCHANGED <<state, kernel, reloaded, torn>>
        /\ at' = [at EXCEPT ![s] = 1]
    BY <1>4 DEF RunScript
  <2>. QED BY <1>0, <2>1, <2>2, <1>q
<1>5. CASE SkipLine(s)
  <2>1. Script(s) = GuardUp
    BY DEF Script
  <2>2. FALSE
    BY <1>5, <2>1, GuardUpLines, GuardUpNotSkipped DEF SkipLine, Running
  <2>. QED BY <2>2
<1>c. ASSUME UNCHANGED <<state, kernel, reloaded>>, at' = [at EXCEPT ![s] = 0],
             torn' = (torn \/ InWindow(s))
      PROVE  PolicyInv' /\ FilterInv'
  <2>a. at[s] \in {3, 4, 5} => InWindow(s)
    BY DEF InWindow
  <2>b. InWindow(s) => torn'
    BY <1>c
  <2>1. \A t \in Sessions : at'[t] = at[t] \/ torn' \/ at[t] \notin {3, 4, 5}
    BY <1>0, <1>c, <2>a, <2>b
  <2>2. (torn => torn') /\ at'["guard"] = at["guard"]
    BY <1>0, <1>c
  <2>. QED BY <1>c, <2>1, <2>2, <1>q
<1>6. CASE FailLine(s)
  BY <1>0, <1>6, <1>c DEF FailLine
<1>7. CASE Kill(s)
  BY <1>7, <1>c DEF Kill
<1>8. CASE RepairScriptEnds(s)
  <2>1. at[s] = 9 /\ at' = [at EXCEPT ![s] = 0]
    BY <1>8, GuardUpLines DEF RepairScriptEnds
  <2>2. UNCHANGED <<state, kernel, reloaded, torn>>
    BY <1>8 DEF RepairScriptEnds
  <2>. QED BY <1>0, <2>1, <2>2, <1>q
<1>. QED BY <1>1, <1>2, <1>3, <1>4, <1>5, <1>6, <1>7, <1>8 DEF SessionStep

LEMMA LeakEnvironment ==
  ASSUME LeakInv, Environment
  PROVE  PolicyInv' /\ FilterInv'
<1>. USE GuardAndLink
<1>0. PolicyInv /\ FilterInv /\ Raised \in Nat
  BY RaisedType DEF LeakInv, TypeInv
<1>1. CASE Reboot
  <2>1. Raised' = 0
    BY <1>1 DEF Reboot, Raised
  <2>2. PolicyInv'
    BY <2>1 DEF PolicyInv
  <2>3. FilterInv'
    BY <2>1 DEF FilterInv
  <2>. QED BY <2>2, <2>3
<1>2. CASE FirewallReload
  <2>1. /\ Raised' = Raised /\ at' = at /\ torn' = torn /\ reloaded'
        /\ kernel' = kernel \ Rejects
    BY <1>2 DEF FirewallReload, Raised
  <2>2. FilterInv'
    BY <2>1 DEF FilterInv
  <2>3. /\ Raised > 1 => "unreachable" \in kernel
        /\ Raised > 4 => "markRule" \in kernel \/ torn \/ \E s \in Sessions : at[s] \in {3, 4}
        /\ Raised > 5 => "srcRule" \in kernel \/ torn \/ \E s \in Sessions : at[s] \in {4, 5}
    BY <1>0 DEF PolicyInv
  <2>4. /\ Raised' > 1 => "unreachable" \in kernel'
        /\ Raised' > 4 => "markRule" \in kernel' \/ torn' \/ \E s \in Sessions : at'[s] \in {3, 4}
        /\ Raised' > 5 => "srcRule" \in kernel' \/ torn' \/ \E s \in Sessions : at'[s] \in {4, 5}
    BY <2>1, <2>3 DEF Rejects
  <2>5. PolicyInv'
    BY <2>4 DEF PolicyInv
  <2>. QED BY <2>2, <2>5
<1>3. CASE LinkLost
  <2>1. /\ Raised' = Raised /\ UNCHANGED <<at, torn, reloaded>>
        /\ kernel \cap (Policy \cup Rejects) \subseteq kernel'
    BY <1>3 DEF LinkLost, Raised, Policy, Rejects
  <2>. QED BY <1>0, <2>1, LeakQuiet
<1>. QED BY <1>1, <1>2, <1>3 DEF Environment

LEMMA LeakNext == LeakInv /\ [Next]_vars => LeakInv'
<1>. SUFFICES ASSUME LeakInv, [Next]_vars PROVE LeakInv'
  OBVIOUS
<1>1. TypeInv'
  BY TypeNext DEF LeakInv
<1>2. ASSUME UNCHANGED vars PROVE PolicyInv' /\ FilterInv'
  <2>1. Raised' = Raised /\ UNCHANGED <<kernel, at, torn, reloaded>>
    BY <1>2 DEF vars, Raised
  <2>2. PolicyInv /\ FilterInv /\ Raised \in Nat
    BY RaisedType DEF LeakInv, TypeInv
  <2>. QED BY <2>1, <2>2, LeakQuiet
<1>3. PolicyInv' /\ FilterInv'
  BY <1>2, LeakUnitStep, LeakSessionStep, LeakEnvironment DEF Next
<1>. QED BY <1>1, <1>3 DEF LeakInv

\* While the guard is active no packet of the edge can leave by the WAN, except
\* one that has lost both layers: the packet filter to a reload and its policy
\* rule to a repair (IPv6, which has the filter only, to a reload).
\* (render.go GuardScript; app.go RepairGuards, ManageLink, LeakTest.)
THEOREM NothingLeaks == Spec => []NoLeak
BY LeakInit, LeakNext, LeakInvariant, PTL DEF Spec

----------------------------------------------------------------------------
(***************************************************************************)
(* EgressGuard implements FailClosed: the initial state maps to the        *)
(* initial state, and each step to a step of the abstract guard or to      *)
(* none.                                                                   *)
(***************************************************************************)

\* A queued stop of the guard comes from a disable, and the guard is not
\* enabled again before that job is replaced.
StopInv == job["guard"] = "stop" => "guard" \notin enabled

Guarded == LinkInv /\ LeakInv /\ StopInv

----------------------------------------------------------------------------
(***************************************************************************)
(* The invariant.                                                          *)
(***************************************************************************)

\* What a step of a unit does to what the abstract guard can see.
LEMMA UnitEffect ==
  ASSUME TypeInv, NEW u \in Units, UnitStep(u)
  PROVE  /\ UNCHANGED <<enabled, files, reloaded, torn>>
         /\ \A s \in Sessions : at'[s] = at[s]
         /\ \A v \in Units : job'[v] \in {job[v], "none"}
         /\ \/ state' = state
            \/ /\ Down(u) /\ kernel' = kernel
               /\ job[u] = "start" /\ InTurn(u)
               /\ state' = [state EXCEPT ![u] = "activating"]
            \/ /\ state[u] = "active" /\ kernel' = kernel
               /\ job[u] = "stop" /\ InTurn(u)
               /\ state' = [state EXCEPT ![u] = "deactivating"]
            \/ /\ Busy(u)
               /\ state' = [state EXCEPT ![u] = "failed"]
            \/ /\ Busy(u) /\ kernel' = kernel
               /\ state' = [state EXCEPT ![u] = IF @ = "activating" THEN "active" ELSE "inactive"]
<1>0. /\ UnitsInv /\ job \in [Units -> {"none", "start", "stop"}]
      /\ at \in [Units \cup Sessions -> 0 .. 9] /\ u \notin Sessions
  BY UnitsAndSessions DEF TypeInv, TypeOK
<1>1. CASE NothingToDo(u)
  BY <1>0, <1>1 DEF NothingToDo
<1>2. CASE BeginStart(u)
  BY <1>0, <1>2 DEF BeginStart
<1>3. CASE BeginStop(u)
  BY <1>0, <1>3 DEF BeginStop
<1>4. CASE RunLine(u) \/ SkipLine(u)
  BY <1>0, <1>4 DEF RunLine, SkipLine
<1>f. ASSUME UnitFails(u)
      PROVE  /\ UNCHANGED <<enabled, files, reloaded, torn>>
             /\ \A s \in Sessions : at'[s] = at[s]
             /\ \A v \in Units : job'[v] \in {job[v], "none"}
             /\ state' = [state EXCEPT ![u] = "failed"]
  BY <1>0, <1>f DEF UnitFails
<1>5. CASE AbortStart(u)
  BY <1>5, <1>f DEF AbortStart, Busy
<1>6. CASE FailLine(u)
  <2>1. at[u] # 0 /\ UnitFails(u)
    BY <1>6, ScriptLength DEF FailLine, Running
  <2>. QED BY <1>0, <2>1, <1>f DEF UnitsInv
<1>7. CASE UnitSettles(u)
  <2>1. at[u] # 0
    BY <1>7, ScriptLength DEF UnitSettles
  <2>2. Busy(u)
    BY <1>0, <2>1 DEF UnitsInv
  <2>3. /\ UNCHANGED <<kernel, enabled, files, reloaded, torn>>
        /\ at' = [at EXCEPT ![u] = 0]
        /\ state' = [state EXCEPT ![u] = IF @ = "activating" THEN "active" ELSE "inactive"]
        /\ \E j : job' = [job EXCEPT ![u] = IF @ = j THEN "none" ELSE @]
    BY <1>7 DEF UnitSettles
  <2>. QED BY <1>0, <2>2, <2>3
<1>. QED BY <1>1, <1>2, <1>3, <1>4, <1>5, <1>6, <1>7 DEF UnitStep

\* What the calls of a session ask systemd for: no program stops the guard.
LEMMA StopAsk ==
  ASSUME TypeInv, StopInv, NEW s \in Sessions, AskSystemd(s)
  PROVE  StopInv'
<1>. DEFINE c == CallOf(s)
<1>1. GoodCall(c, Len(Program[sess[s].cmd]))
  <2>1. GoodSession(sess[s]) /\ sess[s].pc # 0
    BY DEF TypeInv, SessionsInv, AskSystemd, AtCall
  <2>. QED BY <2>1, Programs DEF GoodSession, GoodProgram, CallOf
<1>2. c.do \in {"enable", "disable", "start", "stop"}
  BY DEF AskSystemd, JobOf
<1>3. job' = [v \in Units |-> IF v \in Pulled(c.unit, JobOf[c.do]) THEN JobOf[c.do] ELSE job[v]]
  BY DEF AskSystemd, Request
<1>4. enabled' = CASE c.do = "enable"  -> enabled \cup {c.unit}
                   [] c.do = "disable" -> enabled \ {c.unit}
                   [] OTHER            -> enabled
  BY DEF AskSystemd
<1>5. c.do = "stop" => c.unit # "guard"
  BY <1>1 DEF GoodCall
<1>. HIDE DEF c
<1>6. CASE c.do \in {"enable", "start"}
  BY <1>3, <1>4, <1>6, GuardAndLink DEF JobOf, Pulled, StopInv
<1>7. CASE c.do \in {"disable", "stop"}
  BY <1>3, <1>4, <1>5, <1>7, GuardAndLink DEF JobOf, Pulled, StopInv
<1>. QED BY <1>2, <1>6, <1>7

LEMMA StopNext ==
  ASSUME TypeInv, StopInv, [Next]_vars
  PROVE  StopInv'
<1>. USE GuardAndLink
<1>1. ASSUME NEW u \in Units, UnitStep(u) PROVE StopInv'
  <2>1. enabled' = enabled /\ job'["guard"] \in {job["guard"], "none"}
    BY <1>1, UnitEffect
  <2>. QED BY <2>1 DEF StopInv
<1>2. ASSUME NEW s \in Sessions, Invoke(s) \/ SessionStep(s) \/ Kill(s) PROVE StopInv'
  <2>1. CASE AskSystemd(s)
    BY <2>1, StopAsk
  <2>2. CASE ~AskSystemd(s)
    <3>1. UNCHANGED <<job, enabled>>
      BY <1>2, <2>2, UnitsAndSessions
         DEF Invoke, SessionStep, Kill, RunScript, Missing, EditFiles, Check,
             RunLine, SkipLine, FailLine, RepairScriptEnds
    <3>. QED BY <3>1 DEF StopInv
  <2>. QED BY <2>1, <2>2
<1>3. ASSUME Environment PROVE StopInv'
  BY <1>3 DEF Environment, Reboot, FirewallReload, LinkLost, StopInv
<1>4. ASSUME UNCHANGED vars PROVE StopInv'
  BY <1>4 DEF vars, StopInv
<1>. QED BY <1>1, <1>2, <1>3, <1>4 DEF Next

LEMMA GuardedInit == Init => Guarded
BY LinkInit, LeakInit, GuardAndLink DEF Guarded, Init, StopInv

LEMMA GuardedNext == Guarded /\ [Next]_vars => Guarded'
BY LinkNext, LeakNext, StopNext DEF Guarded, LinkInv

----------------------------------------------------------------------------
(***************************************************************************)
(* The steps.                                                              *)
(***************************************************************************)

Armed == state["guard"] = "active"

\* NoLeak is the abstract promise of an armed guard.
LEMMA HeldIsNoLeak ==
  /\ Armed => (NoLeak <=> FC!Held)
  /\ Armed' => (NoLeak' <=> FC!Held')
BY DEF Armed, NoLeak, FC!Held, Exposed

\* A step that neither arms or disarms the guard nor raises or lowers the link
\* is an edit of the kernel.
LEMMA AsEdit ==
  ASSUME NoLeak', UNCHANGED <<enabled, reloaded, Armed, LinkRuns>>
  PROVE  FC!Edit
<1>1. Armed => FC!Held'
  BY HeldIsNoLeak
<1>. QED BY <1>1 DEF FC!Edit, Armed

LEMMA UnitImplements ==
  ASSUME Guarded, Guarded', NoLeak', NEW u \in Units, UnitStep(u)
  PROVE  [FC!Next]_FC!vars
<1>. USE GuardAndLink
<1>0. /\ TypeInv /\ LinkNeedsGuard /\ LinkNeedsGuard' /\ StopInv
      /\ state \in [Units -> States]
  BY DEF Guarded, LinkInv, TypeInv, TypeOK, States
<1>1. UNCHANGED <<enabled, reloaded, RuleWindow>>
  BY <1>0, UnitEffect DEF RuleWindow, InWindow
<1>2. CASE u = "guard"
  <2>1. UNCHANGED LinkRuns
    BY <1>0, <1>2, UnitEffect DEF LinkRuns
  <2>2. CASE UNCHANGED Armed
    BY <1>1, <2>1, <2>2, AsEdit DEF FC!Next
  <2>3. CASE ~Armed /\ Armed'
    <3>1. state["guard"] = "activating" /\ kernel' = kernel
      BY <1>0, <1>2, <2>3, UnitEffect DEF Armed, States, Down
    <3>2. ~LinkRuns
      BY <1>0, <3>1 DEF LinkNeedsGuard, LinkRuns
    <3>3. FC!Held'
      BY <2>3, HeldIsNoLeak
    <3>4. UNCHANGED Exposed
      BY <3>1 DEF Exposed
    <3>5. FC!Held
      BY <1>1, <3>3, <3>4 DEF FC!Held
    <3>6. FC!Arm
      BY <1>1, <2>1, <2>3, <3>2, <3>4, <3>5 DEF FC!Arm, Armed
    <3>. QED BY <3>6 DEF FC!Next
  <2>4. CASE Armed /\ ~Armed'
    <3>1. job["guard"] = "stop" /\ InTurn("guard") /\ kernel' = kernel
      BY <1>0, <1>2, <2>4, UnitEffect DEF Armed, Down, Busy
    <3>2. ~LinkRuns /\ "guard" \notin enabled
      BY <1>0, <3>1 DEF InTurn, Down, LinkRuns, StopInv
    <3>3. UNCHANGED Exposed
      BY <3>1 DEF Exposed
    <3>4. FC!Disarm
      BY <1>1, <2>1, <2>4, <3>2, <3>3 DEF FC!Disarm, Armed
    <3>. QED BY <3>4 DEF FC!Next
  <2>. QED BY <2>2, <2>3, <2>4 DEF Armed
<1>3. CASE u = "link"
  <2>1. UNCHANGED Armed
    BY <1>0, <1>3, UnitEffect DEF Armed
  <2>2. CASE UNCHANGED LinkRuns
    BY <1>1, <2>1, <2>2, AsEdit DEF FC!Next
  <2>3. CASE ~LinkRuns /\ LinkRuns'
    <3>1. kernel' = kernel
      BY <1>0, <1>3, <2>3, UnitEffect DEF LinkRuns, Busy, Down
    <3>2. Armed
      BY <1>0, <2>1, <2>3 DEF LinkNeedsGuard, LinkRuns, Armed
    <3>3. UNCHANGED Exposed
      BY <3>1 DEF Exposed
    <3>4. FC!Raise
      BY <1>1, <2>1, <2>3, <3>2, <3>3 DEF FC!Raise, Armed
    <3>. QED BY <3>4 DEF FC!Next
  <2>4. CASE LinkRuns /\ ~LinkRuns'
    <3>1. Armed /\ Armed'
      BY <1>0, <2>1, <2>4 DEF LinkNeedsGuard, LinkRuns, Armed
    <3>2. FC!Held'
      BY <3>1, HeldIsNoLeak
    <3>3. FC!Lower
      BY <1>1, <2>4, <3>1, <3>2 DEF FC!Lower, Armed
    <3>. QED BY <3>3 DEF FC!Next
  <2>. QED BY <2>2, <2>3, <2>4 DEF LinkRuns
<1>4. CASE u \notin {"guard", "link"}
  <2>1. UNCHANGED <<Armed, LinkRuns>>
    BY <1>0, <1>4, UnitEffect DEF Armed, LinkRuns
  <2>. QED BY <1>1, <2>1, AsEdit DEF FC!Next
<1>. QED BY <1>2, <1>3, <1>4

\* A session decides, or edits the kernel with `hamara repair`.
LEMMA SessionImplements ==
  ASSUME NoLeak', NEW s \in Sessions, s \notin Units,
         Invoke(s) \/ SessionStep(s) \/ Kill(s)
  PROVE  [FC!Next]_FC!vars
<1>1. CASE AskSystemd(s)
  <2>1. UNCHANGED <<kernel, state, at, reloaded, torn>>
    BY <1>1 DEF AskSystemd, Request
  <2>2. UNCHANGED <<Armed, LinkRuns, Exposed, RuleWindow, reloaded>>
    BY <2>1 DEF Armed, LinkRuns, Exposed, RuleWindow, InWindow
  <2>3. CASE ("guard" \in enabled)' = ("guard" \in enabled)
    BY <2>2, <2>3 DEF FC!vars, Armed
  <2>4. CASE ("guard" \in enabled)' = ~("guard" \in enabled)
    BY <2>2, <2>4 DEF FC!Next, FC!Decide, Armed
  <2>. QED BY <2>3, <2>4
<1>2. CASE ~AskSystemd(s)
  <2>1. UNCHANGED <<enabled, state, reloaded>>
    BY <1>2 DEF Invoke, SessionStep, Kill, RunScript, Missing, EditFiles, Check,
                RunLine, SkipLine, FailLine, RepairScriptEnds
  <2>2. UNCHANGED <<Armed, LinkRuns>>
    BY <2>1 DEF Armed, LinkRuns
  <2>. QED BY <2>1, <2>2, AsEdit DEF FC!Next
<1>. QED BY <1>1, <1>2

LEMMA EnvironmentImplements ==
  ASSUME TypeInv, TypeInv', NoLeak', Environment
  PROVE  [FC!Next]_FC!vars
<1>. USE GuardAndLink
<1>1. CASE Reboot
  <2>1. /\ kernel' = {} /\ enabled' = enabled /\ ~reloaded'
        /\ ~Armed' /\ ~LinkRuns' /\ ~RuleWindow'
    BY <1>1 DEF Reboot, Armed, LinkRuns, RuleWindow, InWindow
  <2>2. Exposed' = Packets
    BY <2>1 DEF Exposed, Verdict, RouteOf, RuleOf, Packets
  <2>3. FC!Reboot
    BY <2>1, <2>2 DEF FC!Reboot, Armed
  <2>. QED BY <2>3 DEF FC!Next
<1>2. CASE FirewallReload
  <2>1. reloaded' /\ UNCHANGED <<enabled, Armed, LinkRuns, RuleWindow>>
    BY <1>2 DEF FirewallReload, Armed, LinkRuns, RuleWindow, InWindow
  <2>2. FC!Flush
    BY <2>1, HeldIsNoLeak DEF FC!Flush, Armed
  <2>. QED BY <2>2 DEF FC!Next
<1>3. CASE LinkLost
  <2>1. UNCHANGED <<enabled, reloaded, Armed, LinkRuns>>
    BY <1>3 DEF LinkLost, Armed, LinkRuns
  <2>. QED BY <2>1, AsEdit DEF FC!Next
<1>. QED BY <1>1, <1>2, <1>3 DEF Environment

LEMMA InitImplements == Init => FC!Init
BY GuardAndLink DEF Init, FC!Init, LinkRuns, Exposed, Verdict, RouteOf, RuleOf,
   Packets, RuleWindow, InWindow

LEMMA NextImplements == Guarded /\ Guarded' /\ [Next]_vars => [FC!Next]_FC!vars
<1>. SUFFICES ASSUME Guarded, Guarded', [Next]_vars PROVE [FC!Next]_FC!vars
  OBVIOUS
<1>1. NoLeak'
  <2>1. LeakInv'
    BY DEF Guarded
  <2>. QED BY <2>1, LeakInvariant, PTL
<1>2. ASSUME UNCHANGED vars PROVE UNCHANGED FC!vars
  BY <1>2 DEF vars, FC!vars, LinkRuns, Exposed, RuleWindow, InWindow
<1>3. TypeInv /\ TypeInv'
  BY DEF Guarded, LinkInv
<1>. QED BY <1>1, <1>2, <1>3, UnitImplements, SessionImplements, EnvironmentImplements,
            UnitsAndSessions DEF Next

\* The edge implements the abstract guard: whatever the operators, the units
\* and the faults do, the guard is armed only when its layers hold, disarmed
\* only when disabled and with the link down, and never changes with the link.
\* (GuardScript, GuardUnit, the drop-in, managedLinkUnits, Uninstall.)
THEOREM Implements == Spec => FailsClosed
BY InitImplements, GuardedInit, GuardedNext, NextImplements, PTL
   DEF Spec, FailsClosed, FC!Spec

----------------------------------------------------------------------------
(***************************************************************************)
(* The abstract guard is enough: it promises what the edge must.           *)
(***************************************************************************)

AbstractInv ==
  /\ Armed => FC!Held
  /\ LinkRuns => Armed

LEMMA AbstractInit == FC!Init => AbstractInv
BY DEF FC!Init, AbstractInv, Armed

LEMMA AbstractNext == AbstractInv /\ [FC!Next]_FC!vars => AbstractInv'
<1>. SUFFICES ASSUME AbstractInv, [FC!Next]_FC!vars PROVE AbstractInv'
  OBVIOUS
<1>. USE DEF AbstractInv, Armed
<1>1. CASE UNCHANGED FC!vars
  BY <1>1 DEF FC!vars, FC!Held
<1>2. CASE FC!Decide \/ FC!Raise \/ FC!Disarm
  BY <1>2 DEF FC!Decide, FC!Raise, FC!Disarm, FC!Held
<1>3. CASE FC!Arm
  BY <1>3 DEF FC!Arm, FC!Held
<1>4. CASE FC!Lower \/ FC!Edit \/ FC!Flush
  BY <1>4 DEF FC!Lower, FC!Edit, FC!Flush
<1>5. CASE FC!Reboot
  BY <1>5 DEF FC!Reboot
<1>. QED BY <1>1, <1>2, <1>3, <1>4, <1>5 DEF FC!Next

\* Any system that implements the abstract guard keeps traffic off the WAN
\* while the guard is armed, and runs its link over an armed guard only.
THEOREM FailingClosedIsSafe == FailsClosed => [](NoLeak /\ LinkNeedsGuard)
<1>1. AbstractInv => NoLeak /\ LinkNeedsGuard
  BY HeldIsNoLeak DEF AbstractInv, Armed, NoLeak, LinkNeedsGuard, LinkRuns
<1>. QED BY AbstractInit, AbstractNext, <1>1, PTL DEF FailsClosed, FC!Spec

----------------------------------------------------------------------------
(***************************************************************************)
(* Who may take the guard down.                                            *)
(***************************************************************************)

\* Of the units' steps only the one that begins a queued stop of the guard
\* ends its being active, and a guard with such a job is disabled.
LEMMA Disarming ==
  ASSUME Guarded, [Next]_vars,
         state["guard"] = "active", state'["guard"] # "active"
  PROVE  "guard" \notin enabled \/ kernel' = {}
<1>. USE GuardAndLink
<1>0. TypeInv /\ StopInv /\ state \in [Units -> States]
  BY DEF Guarded, LinkInv, TypeInv, TypeOK, States
<1>1. ASSUME NEW u \in Units, UnitStep(u) PROVE "guard" \notin enabled
  <2>1. job["guard"] = "stop"
    BY <1>0, <1>1, UnitEffect DEF Down, Busy
  <2>. QED BY <1>0, <2>1 DEF StopInv
<1>2. ASSUME NEW s \in Sessions, Invoke(s) \/ SessionStep(s) \/ Kill(s) PROVE state' = state
  <2>1. s \notin Units
    BY UnitsAndSessions
  <2>. QED BY <1>2, <2>1
           DEF Invoke, SessionStep, Kill, AskSystemd, Request, RunScript, Missing, EditFiles,
               Check, RunLine, SkipLine, FailLine, RepairScriptEnds
<1>3. ASSUME Environment PROVE state' = state \/ kernel' = {}
  BY <1>3 DEF Environment, Reboot, FirewallReload, LinkLost
<1>4. ASSUME UNCHANGED vars PROVE state' = state
  BY <1>4 DEF vars
<1>. QED BY <1>1, <1>2, <1>3, <1>4 DEF Next

\* No stop, restart, repair, leak test, failure or race of theirs takes an
\* active guard down: only a command that disabled it, or a reboot, does.
\* (app.go ManageLink, LeakTest, RepairGuards, Uninstall.)
THEOREM StaysArmed == Spec => DisarmedOnlyByDisable
<1>1. Guarded /\ [Next]_vars =>
        [state["guard"] = "active" /\ state'["guard"] # "active"
           => "guard" \notin enabled \/ kernel' = {}]_vars
  BY Disarming
<1>. QED BY <1>1, GuardedInit, GuardedNext, PTL DEF Spec, DisarmedOnlyByDisable


=============================================================================
