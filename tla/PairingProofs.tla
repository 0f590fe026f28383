--------------------------- MODULE PairingProofs ---------------------------
(***************************************************************************)
(* Proofs about Pairing, first part: what a command has left to do.        *)
(*                                                                         *)
(* A host's command is a list of steps.  Typed says, besides the types,    *)
(* that the list holds only steps of its command, in the order of their    *)
(* Rank, so that the step at its head tells which steps are behind and     *)
(* which are still ahead (AtHead).  Each action has a lemma that says what *)
(* becomes of the list (Moved, Begun) and that Typed is kept; the safety   *)
(* proofs go by these, with Left(h) for the set of the steps of the list.  *)
(***************************************************************************)
EXTENDS Pairing, TLAPS

----------------------------------------------------------------------------
(***************************************************************************)
(* The shape of the state, with what a running command has left to do.     *)
(***************************************************************************)

StepNames ==
  {"down", "unlink", "revoke", "wipe", "check", "probe", "keys", "mtls", "link",
   "authorize", "save", "activate", "restart", "token", "scrub", "print"}

\* The place of a step in its command: accept alone saves last.
Rank(cmd, step) ==
  CASE step = "down"     -> 1
    [] step = "unlink"   -> 2
    [] step = "revoke"   -> 3
    [] step = "wipe"     -> 4
    [] step \in {"check", "probe"}       -> 5
    [] step = "keys"     -> 6
    [] step = "mtls"     -> 7
    [] step \in {"link", "authorize"}    -> 8
    [] step = "save"     -> IF cmd = "accept" THEN 11 ELSE 9
    [] step \in {"activate", "restart"}  -> 10
    [] step = "token"    -> 12
    [] step = "scrub"    -> 13
    [] step = "print"    -> 14

\* The steps a command of h may have.
StepsOf(h, cmd) ==
  CASE cmd = "init" /\ h = Gateway ->
         {"down", "unlink", "revoke", "wipe", "check", "keys", "link", "save", "activate",
          "token", "print"} \cup (IF mode = "ara" THEN {"mtls", "scrub"} ELSE {})
    [] cmd = "join" /\ h # Gateway ->
         {"check", "keys", "link", "save", "activate", "token", "print"}
    [] cmd = "accept" /\ h = Gateway ->
         {"save"} \cup (CASE WG            -> {"link", "restart"}
                          [] mode = "ipip" -> {"link", "activate"}
                          [] mode = "ssh"  -> {"authorize"})
    [] cmd = "uninstall"             -> {"down", "unlink", "revoke", "wipe"}
    [] cmd = "doctor" /\ h # Gateway -> {"probe", "save"}
    [] OTHER                         -> {}

UninstallSet == {"down", "unlink", "revoke", "wipe"}

InitSet ==
  {"save", "token", "print"}
  \cup (IF mode = "ssh" THEN {} ELSE {"check"})
  \cup (IF WG THEN {"keys", "link", "activate"} ELSE {})
  \cup (IF mode = "ara" THEN {"mtls", "scrub"} ELSE {})

JoinSet ==
  {"link", "save", "activate", "token", "print"}
  \cup (IF mode = "ssh" THEN {} ELSE {"check"})
  \cup (IF mode = "ipip" THEN {} ELSE {"keys"})

AcceptSet ==
  CASE WG            -> {"link", "restart", "save"}
    [] mode = "ipip" -> {"link", "activate", "save"}
    [] mode = "ssh"  -> {"authorize", "save"}

Left(h) == {proc[h].left[i] : i \in 1 .. Len(proc[h].left)}

Ids      == 1 .. minted
Configs  == {NoConfig} \cup [id : Ids, state : {"pending", "ready"}, peer : Names]
KeyPairs == {NoSecrets} \cup [key : Ids, psk : Names]
Spoken   == [kind : {"offer", "response"}, id : Ids, key : Hosts \cup Ids, psk : Names]
Runs     == [cmd : {"none", "init", "join", "accept", "uninstall", "doctor"},
             left : Seq(StepNames), cfg : Configs, new : KeyPairs]

\* What h runs is a command of its own, with the steps in their order.
Orderly(h) ==
  LET left == proc[h].left IN
  /\ proc[h].cmd = "none" => proc[h] = Free
  /\ \A i \in 1 .. Len(left) : left[i] \in StepsOf(h, proc[h].cmd)
  /\ \A i, j \in 1 .. Len(left) : i < j => Rank(proc[h].cmd, left[i]) < Rank(proc[h].cmd, left[j])

Makes(h) == proc[h].cmd \in {"init", "join"}

\* Where keys are made, init and join go by the ones they have written, and
\* init begins when all of the uninstalling is done.
Keyed(h) ==
  Makes(h) =>
    /\ proc[h].new # NoSecrets /\ proc[h].cfg # NoConfig
    /\ "wipe" \in Left(h) => InitSet \subseteq Left(h)
    /\ "keys" \notin Left(h) => Identity(h) \in Hosts \cup Ids
    /\ "token" \notin Left(h) => token[h] \in Spoken

Typed ==
  /\ TypeOK
  /\ config \in [Hosts -> Configs]
  /\ secrets \in [Hosts -> KeyPairs]
  /\ token \in [Hosts -> Spoken \cup {None}]
  /\ tokens \subseteq Spoken
  /\ proc \in [Hosts -> Runs]
  /\ \A h \in Hosts : Orderly(h)
  /\ \A h \in Hosts : Keyed(h)

----------------------------------------------------------------------------
(***************************************************************************)
(* How the steps of a command are used up.                                 *)
(***************************************************************************)

\* h has returned, or has done the step and keeps the rest for later.
Moved(h, step) ==
  /\ proc' \in [Hosts -> Runs]
  /\ \A g \in Hosts \ {h} : proc'[g] = proc[g] /\ Left(g)' = Left(g)
  /\ Orderly(h)'
  /\ \/ proc'[h] = Free /\ Left(h)' = {}
     \/ /\ proc'[h].cmd = proc[h].cmd /\ proc'[h].cfg = proc[h].cfg
        /\ proc'[h].new = proc[h].new
        /\ Left(h)' = Left(h) \ {step}

LEMMA FreeRuns == Free \in Runs /\ Free.cmd = "none" /\ Free.left = << >> /\ Free.cfg = NoConfig
  BY DEF Free, Runs, Configs, KeyPairs

LEMMA FreeIsOrderly ==
  ASSUME NEW h \in Hosts, proc[h] = Free
  PROVE  Orderly(h) /\ Left(h) = {}
  BY FreeRuns DEF Orderly, Left

\* The step at the head is one of the command's, and comes before all the others.
LEMMA AtHead ==
  ASSUME Typed, NEW h \in Hosts, NEW step, At(h, step)
  PROVE  /\ step \in Left(h) /\ step \in StepsOf(h, proc[h].cmd)
         /\ proc[h] # Free /\ proc[h].cmd # "none"
         /\ \A t \in Left(h) : t = step \/ Rank(proc[h].cmd, step) < Rank(proc[h].cmd, t)
<1> DEFINE left == proc[h].left
<1>1. left \in Seq(StepNames) /\ left # << >> /\ left[1] = step /\ Len(left) \in Nat /\ 1 <= Len(left)
  BY DEF Typed, At, Runs
<1>2. Orderly(h)
  BY DEF Typed
<1>3. proc[h] # Free
  BY <1>1, FreeRuns
<1>4. \A i \in 1 .. Len(left) : i = 1 \/ 1 < i
  BY <1>1
<1> QED
  BY <1>1, <1>2, <1>3, <1>4 DEF Orderly, Left

LEMMA ReturnMoves ==
  ASSUME Typed, NEW h \in Hosts, Return(h), NEW step
  PROVE  Moved(h, step) /\ proc'[h] = Free /\ Left(h)' = {}
<1>1. proc' \in [Hosts -> Runs] /\ proc'[h] = Free /\ \A g \in Hosts \ {h} : proc'[g] = proc[g]
  BY FreeRuns DEF Typed, Return
<1>2. Left(h)' = {} /\ Orderly(h)'
  BY <1>1, FreeRuns DEF Left, Orderly
<1> QED
  BY <1>1, <1>2 DEF Moved, Left

LEMMA RankIsNat ==
  ASSUME NEW cmd, NEW step \in StepNames
  PROVE  Rank(cmd, step) \in Nat
  BY DEF StepNames, Rank

LEMMA DoneMoves ==
  ASSUME Typed, mode' = mode, NEW h \in Hosts, NEW step, At(h, step), Done(h)
  PROVE  Moved(h, step)
<1> DEFINE left == proc[h].left  rest == Tail(left)
<1>1. left \in Seq(StepNames) /\ left # << >> /\ left[1] = step /\ Len(left) \in Nat /\ 1 <= Len(left)
  BY DEF Typed, At, Runs
<1>2. proc \in [Hosts -> Runs] /\ Orderly(h)
  BY DEF Typed
<1>3. /\ rest \in Seq(StepNames) /\ Len(rest) = Len(left) - 1
      /\ \A i \in 1 .. Len(left) - 1 : rest[i] = left[i + 1] /\ i + 1 \in 1 .. Len(left)
  BY <1>1
<1>4. CASE rest = << >>
  <2>1. proc' \in [Hosts -> Runs] /\ proc'[h] = Free /\ \A g \in Hosts \ {h} : proc'[g] = proc[g]
    BY <1>2, <1>4, FreeRuns DEF Done
  <2>2. Left(h)' = {} /\ Orderly(h)'
    BY <2>1, FreeRuns DEF Left, Orderly
  <2> QED
    BY <2>1, <2>2 DEF Moved, Left
<1>5. CASE rest # << >>
  <2>1. PICK r : r = [proc[h] EXCEPT !.left = rest]
    OBVIOUS
  <2>2. proc' \in [Hosts -> Runs] /\ proc'[h] = r /\ \A g \in Hosts \ {h} : proc'[g] = proc[g]
    <3>1. r \in Runs
      BY <2>1, <1>2, <1>3 DEF Runs
    <3> QED
      BY <1>2, <1>5, <2>1, <3>1 DEF Done
  <2>3. r.cmd = proc[h].cmd /\ r.cfg = proc[h].cfg /\ r.new = proc[h].new /\ r.left = rest
    <3>1. proc[h] \in [cmd : {"none", "init", "join", "accept", "uninstall", "doctor"},
                       left : Seq(StepNames), cfg : Configs, new : KeyPairs]
      BY <1>2 DEF Runs
    <3> QED
      BY <2>1, <3>1
  <2>4. proc[h].cmd # "none"
    BY <1>1, <1>2, FreeRuns DEF Orderly
  <2>5. \A i \in 1 .. Len(left) : Rank(r.cmd, left[i]) \in Nat
    BY <1>1, RankIsNat
  <2>6. Orderly(h)'
    <3>1. \A i \in 1 .. Len(rest) : rest[i] \in StepsOf(h, r.cmd)
      BY <1>1, <1>2, <1>3, <2>3 DEF Orderly
    <3>2. \A i, j \in 1 .. Len(rest) : i < j => Rank(r.cmd, rest[i]) < Rank(r.cmd, rest[j])
      BY <1>1, <1>2, <1>3, <2>3 DEF Orderly
    <3>3. StepsOf(h, r.cmd)' = StepsOf(h, r.cmd)
      BY DEF StepsOf, WG
    <3> QED
      BY <2>2, <2>3, <2>4, <3>1, <3>2, <3>3 DEF Orderly
  <2>7. Left(h)' = Left(h) \ {step}
    <3>1. Left(h)' = {rest[i] : i \in 1 .. Len(rest)}
      BY <2>2, <2>3 DEF Left
    <3>2. \A i \in 1 .. Len(left) - 1 : rest[i] # step
      <4> TAKE i \in 1 .. Len(left) - 1
      <4>1. i + 1 \in 1 .. Len(left) /\ 1 \in 1 .. Len(left) /\ 1 < i + 1 /\ rest[i] = left[i + 1]
        BY <1>1, <1>3
      <4>2. Rank(r.cmd, left[1]) < Rank(r.cmd, left[i + 1])
        BY <4>1, <1>2, <2>3 DEF Orderly
      <4> QED
        BY <4>1, <4>2, <1>1, <2>5
    <3>3. \A j \in 1 .. Len(left) : j = 1 \/ (j - 1 \in 1 .. Len(rest) /\ rest[j - 1] = left[j])
      BY <1>1, <1>3
    <3>4. \A i \in 1 .. Len(rest) : rest[i] \in Left(h)
      BY <1>1, <1>3 DEF Left
    <3>5. \A x \in Left(h) : x = step \/ x \in Left(h)'
      <4> TAKE x \in Left(h)
      <4>1. PICK j \in 1 .. Len(left) : x = left[j]
        BY DEF Left
      <4>2. CASE j = 1
        BY <1>1, <4>1, <4>2
      <4>3. CASE j # 1
        <5>1. j - 1 \in 1 .. Len(rest) /\ rest[j - 1] = x
          BY <3>3, <4>1, <4>3
        <5> QED
          BY <3>1, <5>1
      <4> QED
        BY <4>2, <4>3
    <3>6. \A x \in Left(h)' : x \in Left(h) /\ x # step
      BY <1>3, <3>1, <3>2, <3>4
    <3> QED
      BY <3>5, <3>6
  <2>8. \A g \in Hosts \ {h} : proc'[g] = proc[g] /\ Left(g)' = Left(g)
    BY <2>2 DEF Left
  <2>9. /\ proc'[h].cmd = proc[h].cmd /\ proc'[h].cfg = proc[h].cfg
        /\ proc'[h].new = proc[h].new
    BY <2>2, <2>3
  <2> QED
    BY <2>2, <2>6, <2>7, <2>8, <2>9 DEF Moved
<1> QED
  BY <1>4, <1>5

----------------------------------------------------------------------------
(***************************************************************************)
(* The lists of steps that commands begin with.                            *)
(***************************************************************************)

\* s lists steps of cmd in their order, and S is the set of them.
Lists(h, cmd, s, S) ==
  /\ s \in Seq(StepNames) /\ s # << >>
  /\ S = {s[i] : i \in 1 .. Len(s)}
  /\ \A i \in 1 .. Len(s) : s[i] \in StepsOf(h, cmd)
  /\ \A i, j \in 1 .. Len(s) : i < j => Rank(cmd, s[i]) < Rank(cmd, s[j])

LEMMA InitList ==
  ASSUME Typed
  PROVE  Lists(Gateway, "init", InitSteps, InitSet)
<1>1. mode \in {"ara", "wireguard", "ipip", "ssh"}
  BY ModesAssumption DEF Typed, TypeOK
<1>2. CASE mode = "ara"
  <2>1. InitSteps = <<"check", "keys", "mtls", "link", "save", "activate", "token", "scrub", "print">>
    BY <1>2 DEF InitSteps
  <2>2. /\ InitSet = {"check", "keys", "mtls", "link", "save", "activate", "token", "scrub", "print"}
        /\ InitSet \subseteq StepsOf(Gateway, "init")
    BY <1>2 DEF InitSet, WG, StepsOf
  <2> QED
    BY <2>1, <2>2 DEF Lists, Rank, StepNames
<1>3. CASE mode = "wireguard"
  <2>1. InitSteps = <<"check", "keys", "link", "save", "activate", "token", "print">>
    BY <1>3 DEF InitSteps
  <2>2. /\ InitSet = {"check", "keys", "link", "save", "activate", "token", "print"}
        /\ InitSet \subseteq StepsOf(Gateway, "init")
    BY <1>3 DEF InitSet, WG, StepsOf
  <2> QED
    BY <2>1, <2>2 DEF Lists, Rank, StepNames
<1>4. CASE mode = "ipip"
  <2>1. InitSteps = <<"check", "save", "token", "print">>
    BY <1>4 DEF InitSteps
  <2>2. /\ InitSet = {"check", "save", "token", "print"}
        /\ InitSet \subseteq StepsOf(Gateway, "init")
    BY <1>4 DEF InitSet, WG, StepsOf
  <2> QED
    BY <2>1, <2>2 DEF Lists, Rank, StepNames
<1>5. CASE mode = "ssh"
  <2>1. InitSteps = <<"save", "token", "print">>
    BY <1>5 DEF InitSteps
  <2>2. InitSet = {"save", "token", "print"} /\ InitSet \subseteq StepsOf(Gateway, "init")
    BY <1>5 DEF InitSet, WG, StepsOf
  <2> QED
    BY <2>1, <2>2 DEF Lists, Rank, StepNames
<1> QED
  BY <1>1, <1>2, <1>3, <1>4, <1>5

LEMMA JoinList ==
  ASSUME Typed, NEW e \in Edges
  PROVE  Lists(e, "join", JoinSteps, JoinSet)
<1>1. mode \in {"ara", "wireguard", "ipip", "ssh"}
  BY ModesAssumption DEF Typed, TypeOK
<1>2. StepsOf(e, "join") = {"check", "keys", "link", "save", "activate", "token", "print"}
  BY HostsAssumption DEF StepsOf
<1>3. CASE WG
  <2>1. /\ JoinSteps = <<"check", "keys", "link", "save", "activate", "token", "print">>
        /\ JoinSet = {"check", "keys", "link", "save", "activate", "token", "print"}
    BY <1>3 DEF JoinSteps, JoinSet, WG
  <2> QED
    BY <1>2, <2>1 DEF Lists, Rank, StepNames
<1>4. CASE mode = "ipip"
  <2>1. /\ JoinSteps = <<"check", "link", "save", "activate", "token", "print">>
        /\ JoinSet = {"check", "link", "save", "activate", "token", "print"}
    BY <1>4 DEF JoinSteps, JoinSet, WG
  <2> QED
    BY <1>2, <2>1 DEF Lists, Rank, StepNames
<1>5. CASE mode = "ssh"
  <2>1. /\ JoinSteps = <<"keys", "link", "save", "activate", "token", "print">>
        /\ JoinSet = {"keys", "link", "save", "activate", "token", "print"}
    BY <1>5 DEF JoinSteps, JoinSet, WG
  <2> QED
    BY <1>2, <2>1 DEF Lists, Rank, StepNames
<1> QED
  BY <1>1, <1>3, <1>4, <1>5 DEF WG

LEMMA AcceptList ==
  ASSUME Typed
  PROVE  Lists(Gateway, "accept", AcceptSteps, AcceptSet)
<1>1. mode \in {"ara", "wireguard", "ipip", "ssh"}
  BY ModesAssumption DEF Typed, TypeOK
<1>2. CASE WG
  <2>1. /\ AcceptSteps = <<"link", "restart", "save">> /\ AcceptSet = {"link", "restart", "save"}
        /\ StepsOf(Gateway, "accept") = {"save"} \cup {"link", "restart"}
    BY <1>2 DEF AcceptSteps, AcceptSet, StepsOf, WG
  <2> QED
    BY <2>1 DEF Lists, Rank, StepNames
<1>3. CASE mode = "ipip"
  <2>1. /\ AcceptSteps = <<"link", "activate", "save">> /\ AcceptSet = {"link", "activate", "save"}
        /\ StepsOf(Gateway, "accept") = {"save"} \cup {"link", "activate"}
    BY <1>3 DEF AcceptSteps, AcceptSet, StepsOf, WG
  <2> QED
    BY <2>1 DEF Lists, Rank, StepNames
<1>4. CASE mode = "ssh"
  <2>1. /\ AcceptSteps = <<"authorize", "save">> /\ AcceptSet = {"authorize", "save"}
        /\ StepsOf(Gateway, "accept") = {"save"} \cup {"authorize"}
    BY <1>4 DEF AcceptSteps, AcceptSet, StepsOf, WG
  <2> QED
    BY <2>1 DEF Lists, Rank, StepNames
<1> QED
  BY <1>1, <1>2, <1>3, <1>4 DEF WG

LEMMA UninstallList ==
  ASSUME NEW h \in Hosts
  PROVE  Lists(h, "uninstall", UninstallSteps, UninstallSet)
<1>1. StepsOf(h, "uninstall") = UninstallSet
  BY DEF StepsOf, UninstallSet
<1> QED
  BY <1>1 DEF UninstallSteps, UninstallSet, Lists, Rank, StepNames

LEMMA DoctorList ==
  ASSUME NEW e \in Edges
  PROVE  Lists(e, "doctor", <<"probe", "save">>, {"probe", "save"})
<1>1. StepsOf(e, "doctor") = {"probe", "save"}
  BY HostsAssumption DEF StepsOf
<1> QED
  BY <1>1 DEF Lists, Rank, StepNames

LEMMA Concatenation ==
  ASSUME NEW S, NEW u \in Seq(S), NEW s \in Seq(S)
  PROVE  /\ u \o s \in Seq(S) /\ Len(u \o s) = Len(u) + Len(s)
         /\ \A i \in 1 .. Len(u) : (u \o s)[i] = u[i]
         /\ \A i \in 1 .. Len(s) : (u \o s)[Len(u) + i] = s[i]
         /\ \A i \in 1 .. Len(u \o s) :
              i \in 1 .. Len(u) \/ \E j \in 1 .. Len(s) : i = Len(u) + j
<1>1. u \o s \in Seq(S) /\ Len(u \o s) = Len(u) + Len(s) /\ Len(u) \in Nat /\ Len(s) \in Nat
  OBVIOUS
<1>2. \A i \in 1 .. Len(u) : (u \o s)[i] = u[i]
  OBVIOUS
<1>3. \A i \in 1 .. Len(s) : (u \o s)[Len(u) + i] = s[i]
  OBVIOUS
<1>4. ASSUME NEW i \in 1 .. Len(u \o s)
      PROVE  i \in 1 .. Len(u) \/ \E j \in 1 .. Len(s) : i = Len(u) + j
  <2>1. CASE i <= Len(u)
    BY <1>1, <2>1
  <2>2. CASE ~(i <= Len(u))
    <3>1. i - Len(u) \in 1 .. Len(s) /\ i = Len(u) + (i - Len(u))
      BY <1>1, <2>2
    <3> QED
      BY <3>1
  <2> QED
    BY <2>1, <2>2
<1> QED
  BY <1>1, <1>2, <1>3, <1>4

\* One list after another is a list, when its steps come later.
LEMMA ListAfterList ==
  ASSUME NEW h, NEW cmd, NEW u, NEW s, NEW U, NEW S, Lists(h, cmd, u, U), Lists(h, cmd, s, S),
         \A x \in U, y \in S : Rank(cmd, x) < Rank(cmd, y)
  PROVE  Lists(h, cmd, u \o s, U \cup S)
<1>1. u \in Seq(StepNames) /\ s \in Seq(StepNames) /\ s # << >> /\ Len(u) \in Nat /\ Len(s) \in Nat
  BY DEF Lists
<1> DEFINE us == u \o s
<1>2. /\ us \in Seq(StepNames) /\ Len(us) = Len(u) + Len(s)
      /\ \A i \in 1 .. Len(u) : us[i] = u[i]
      /\ \A i \in 1 .. Len(s) : us[Len(u) + i] = s[i]
      /\ \A i \in 1 .. Len(us) : i \in 1 .. Len(u) \/ \E j \in 1 .. Len(s) : i = Len(u) + j
  BY <1>1, Concatenation
<1> HIDE DEF us
<1>3. us # << >>
  BY <1>1, <1>2
<1>4. \A i \in 1 .. Len(us) : us[i] \in StepsOf(h, cmd)
  BY <1>2 DEF Lists
<1>5. ASSUME NEW i \in 1 .. Len(us), NEW j \in 1 .. Len(us), i < j
      PROVE  Rank(cmd, us[i]) < Rank(cmd, us[j])
  <2>1. CASE i \in 1 .. Len(u) /\ j \in 1 .. Len(u)
    <3>1. us[i] = u[i] /\ us[j] = u[j]
      BY <1>2, <2>1
    <3> QED
      BY <1>5, <2>1, <3>1 DEF Lists
  <2>2. CASE i \in 1 .. Len(u) /\ j \notin 1 .. Len(u)
    <3>1. PICK l \in 1 .. Len(s) : j = Len(u) + l
      BY <1>2, <2>2
    <3>2. us[i] = u[i] /\ us[j] = s[l]
      BY <1>2, <2>2, <3>1
    <3>3. u[i] \in U /\ s[l] \in S
      BY <2>2 DEF Lists
    <3> QED
      BY <3>2, <3>3
  <2>3. CASE i \notin 1 .. Len(u)
    <3>1. j \notin 1 .. Len(u)
      BY <1>1, <1>2, <1>5, <2>3
    <3>2. PICK k \in 1 .. Len(s) : i = Len(u) + k
      BY <1>2, <2>3
    <3>3. PICK l \in 1 .. Len(s) : j = Len(u) + l
      BY <1>2, <3>1
    <3>4. k < l
      BY <1>1, <1>5, <3>2, <3>3
    <3>5. us[i] = s[k] /\ us[j] = s[l]
      BY <1>2, <3>2, <3>3
    <3> QED
      BY <3>4, <3>5 DEF Lists
  <2> QED
    BY <2>1, <2>2, <2>3
<1>6. U \cup S = {us[i] : i \in 1 .. Len(us)}
  <2>1. \A i \in 1 .. Len(u) : i \in 1 .. Len(us)
    BY <1>1, <1>2
  <2>2. \A i \in 1 .. Len(s) : Len(u) + i \in 1 .. Len(us)
    BY <1>1, <1>2
  <2>3. ASSUME NEW i \in 1 .. Len(us) PROVE us[i] \in U \cup S
    BY <1>2 DEF Lists
  <2>4. ASSUME NEW x \in U PROVE \E i \in 1 .. Len(us) : x = us[i]
    BY <1>2, <2>1 DEF Lists
  <2>5. ASSUME NEW x \in S PROVE \E i \in 1 .. Len(us) : x = us[i]
    BY <1>2, <2>2 DEF Lists
  <2> QED
    BY <2>3, <2>4, <2>5
<1> QED
  BY <1>2, <1>3, <1>4, <1>5, <1>6 DEF Lists, us

\* init --force: everything that uninstall does, and then what init does.
LEMMA ForcedInitList ==
  ASSUME Typed
  PROVE  Lists(Gateway, "init", UninstallSteps \o InitSteps, UninstallSet \cup InitSet)
<1>1. Lists(Gateway, "init", UninstallSteps, UninstallSet)
  BY DEF UninstallSteps, UninstallSet, Lists, Rank, StepNames, StepsOf
<1>2. InitSet \subseteq {"check", "keys", "mtls", "link", "save", "activate", "token", "scrub", "print"}
  BY DEF InitSet
<1>3. ASSUME NEW cmd,
             NEW x \in {"down", "unlink", "revoke", "wipe"},
             NEW y \in {"check", "keys", "mtls", "link", "save", "activate", "token", "scrub", "print"}
      PROVE  Rank(cmd, x) < Rank(cmd, y)
  BY DEF Rank
<1>4. \A x \in UninstallSet, y \in InitSet : Rank("init", x) < Rank("init", y)
  BY <1>2, <1>3 DEF UninstallSet
<1> QED
  BY <1>1, <1>4, InitList, ListAfterList

----------------------------------------------------------------------------
(***************************************************************************)
(* Type correctness.                                                       *)
(***************************************************************************)

\* h has begun cmd, with the steps of S before it.
Begun(h, cmd, S, cfg, new) ==
  /\ \A g \in Hosts \ {h} : proc'[g] = proc[g] /\ Left(g)' = Left(g)
  /\ proc'[h].cmd = cmd /\ proc'[h].cfg = cfg /\ proc'[h].new = new
  /\ Left(h)' = S /\ Orderly(h)'

LEMMA BeginMoves ==
  ASSUME Typed, mode' = mode, NEW h \in Hosts,
         NEW cmd \in {"init", "join", "accept", "uninstall", "doctor"}, NEW s, NEW S,
         Lists(h, cmd, s, S), NEW cfg, NEW new, Begin(h, cmd, s, cfg, new)
  PROVE  Begun(h, cmd, S, cfg, new) /\ DOMAIN proc' = Hosts /\ proc'[h].left \in Seq(StepNames)
<1> DEFINE p == [cmd |-> cmd, left |-> s, cfg |-> cfg, new |-> new]
<1>1. proc \in [Hosts -> Runs]
  BY DEF Typed
<1>2. DOMAIN proc' = Hosts /\ proc'[h] = p /\ \A g \in Hosts \ {h} : proc'[g] = proc[g]
  BY <1>1 DEF Begin
<1>3. Left(h)' = S
  BY <1>2 DEF Left, Lists
<1>4. StepsOf(h, cmd)' = StepsOf(h, cmd)
  BY DEF StepsOf, WG
<1>5. Orderly(h)'
  BY <1>2, <1>4 DEF Orderly, Lists
<1> QED
  BY <1>2, <1>3, <1>5 DEF Begun, Left, Lists

\* Identities are only added.
LEMMA MoreIds ==
  ASSUME Typed, minted' \in {minted, minted + 1}
  PROVE  /\ Ids \subseteq Ids' /\ Configs \subseteq Configs' /\ KeyPairs \subseteq KeyPairs'
         /\ Spoken \subseteq Spoken' /\ Runs \subseteq Runs'
<1>1. minted \in Nat
  BY MintedAssumption DEF Typed, TypeOK
<1>2. Ids \subseteq Ids'
  BY <1>1 DEF Ids
<1>3. Configs \subseteq Configs' /\ KeyPairs \subseteq KeyPairs' /\ Spoken \subseteq Spoken'
  BY <1>2 DEF Configs, KeyPairs, Spoken
<1>4. Runs \subseteq Runs'
  BY <1>3 DEF Runs
<1> QED
  BY <1>2, <1>3, <1>4

\* The records that the state is made of.
LEMMA Records ==
  ASSUME Typed
  PROVE  /\ minted \in Nat /\ minted <= MaxMinted /\ Ids \subseteq Names
         /\ Configs \subseteq [id : Names, state : {"none", "pending", "ready"}, peer : Names]
         /\ KeyPairs \subseteq [key : Names, psk : Names]
         /\ Spoken \subseteq Tokens
         /\ NoConfig.id = None /\ NoConfig.peer = None /\ NoConfig.state = "none"
         /\ NoSecrets.key = None /\ NoSecrets.psk = None
         /\ NoLink.own = None /\ NoLink.psk = None /\ NoLink.peer = None
         /\ None \notin Ids /\ Hosts \subseteq Names /\ None \in Names
         /\ \A c \in Configs : c = NoConfig \/ (c.id \in Ids /\ c.state # "none")
         /\ \A k \in KeyPairs : k = NoSecrets \/ k.key \in Ids
<1>1. minted \in Nat /\ minted <= MaxMinted
  BY MintedAssumption DEF Typed, TypeOK
<1>2. Ids \subseteq Names /\ None \notin Ids /\ Hosts \subseteq Names /\ None \in Names
  BY <1>1, MintedAssumption, NoneAssumption DEF Ids, Names
<1>3. /\ NoConfig.id = None /\ NoConfig.peer = None /\ NoConfig.state = "none"
      /\ NoSecrets.key = None /\ NoSecrets.psk = None
      /\ NoLink.own = None /\ NoLink.psk = None /\ NoLink.peer = None
  BY DEF NoConfig, NoSecrets, NoLink
<1>4. /\ Configs \subseteq [id : Names, state : {"none", "pending", "ready"}, peer : Names]
      /\ \A c \in Configs : c = NoConfig \/ (c.id \in Ids /\ c.state # "none")
  BY <1>2 DEF Configs, NoConfig
<1>5. /\ KeyPairs \subseteq [key : Names, psk : Names]
      /\ \A k \in KeyPairs : k = NoSecrets \/ k.key \in Ids
  BY <1>2 DEF KeyPairs, NoSecrets
<1>6. Spoken \subseteq Tokens
  BY <1>2 DEF Spoken, Tokens
<1> QED
  BY <1>1, <1>2, <1>3, <1>4, <1>5, <1>6

\* Whose steps they are.
LEMMA Owners ==
  ASSUME Typed, NEW h \in Hosts, NEW cmd, NEW step \in StepsOf(h, cmd)
  PROVE  /\ step \in StepNames
         /\ cmd = "init" => h = Gateway
         /\ cmd = "join" => h # Gateway
         /\ cmd = "accept" => h = Gateway
         /\ cmd = "doctor" => h # Gateway
         /\ step \in {"check", "keys", "token", "print"} => cmd \in {"init", "join"}
         /\ step \in {"down", "unlink", "revoke", "wipe"} => cmd \in {"init", "uninstall"}
         /\ step = "probe" => cmd = "doctor"
         /\ step \in {"mtls", "scrub"} => cmd = "init" /\ mode = "ara"
         /\ step = "link" => cmd \in {"init", "join"} \/ (cmd = "accept" /\ mode # "ssh")
         /\ step = "authorize" => cmd = "accept" /\ mode = "ssh"
         /\ step = "activate" => cmd \in {"init", "join"} \/ (cmd = "accept" /\ mode = "ipip")
         /\ step = "restart" => cmd = "accept" /\ WG
         /\ step = "save" => cmd \in {"init", "join", "accept", "doctor"}
<1>1. mode \in {"ara", "wireguard", "ipip", "ssh"}
  BY ModesAssumption DEF Typed, TypeOK
<1>2. CASE cmd = "accept" /\ h = Gateway
  <2>1. StepsOf(h, cmd) = {"save"} \cup (IF WG THEN {"link", "restart"}
                             ELSE IF mode = "ipip" THEN {"link", "activate"} ELSE {"authorize"})
    BY <1>1, <1>2 DEF StepsOf, WG
  <2>2. mode \in {"ara", "wireguard"} <=> WG
    BY DEF WG
  <2> QED
    BY <1>1, <1>2, <2>1, <2>2 DEF StepNames
<1>3. CASE ~(cmd = "accept" /\ h = Gateway)
  BY <1>3 DEF StepsOf, StepNames
<1> QED
  BY <1>2, <1>3

\* A host that goes on with nothing.
LEMMA StayMoves ==
  ASSUME Typed, mode' = mode, proc' = proc, NEW h \in Hosts
  PROVE  Moved(h, "nothing")
<1>1. Left(h) \subseteq StepNames /\ Left(h)' = Left(h)
  BY DEF Typed, Runs, Left
<1>2. "nothing" \notin StepNames
  BY DEF StepNames
<1>3. StepsOf(h, proc[h].cmd)' = StepsOf(h, proc[h].cmd)
  BY DEF StepsOf, WG
<1>4. Orderly(h)'
  BY <1>3 DEF Typed, Orderly
<1> QED
  BY <1>1, <1>2, <1>4 DEF Moved, Typed, Left

\* The other hosts are as they were.
LEMMA OthersTyped ==
  ASSUME Typed, mode' = mode, minted' \in {minted, minted + 1}, NEW g \in Hosts,
         proc'[g] = proc[g], Left(g)' = Left(g), secrets'[g] = secrets[g], token'[g] = token[g]
  PROVE  Orderly(g)' /\ Keyed(g)'
<1>1. Orderly(g) /\ Keyed(g)
  BY DEF Typed
<1>2. StepsOf(g, proc[g].cmd)' = StepsOf(g, proc[g].cmd) /\ Identity(g)' = Identity(g) /\ InitSet' = InitSet
  BY DEF StepsOf, WG, Identity, InitSet
<1>3. Orderly(g)'
  BY <1>1, <1>2 DEF Orderly
<1>4. Ids \subseteq Ids' /\ Spoken \subseteq Spoken'
  BY MoreIds
<1>5. Keyed(g)'
  BY <1>1, <1>2, <1>4 DEF Keyed, Makes
<1> QED
  BY <1>3, <1>5

Links == [own : Names, psk : Names, peer : Names]

LEMMA StepTyped ==
  ASSUME Typed, mode' = mode, minted' = minted, NEW h \in Hosts, NEW step, Moved(h, step),
         config' \in [Hosts -> Configs], secrets' \in [Hosts -> KeyPairs],
         token' \in [Hosts -> Spoken \cup {None}], tokens' \subseteq Spoken,
         mtls' \subseteq {"ca", "caKey", "client"}, link' \in [Hosts -> Links],
         up' \in [Hosts -> Links], authorized' \subseteq [key : Names, id : Names],
         enabled' \subseteq Hosts,
         \A g \in Hosts \ {h} : secrets'[g] = secrets[g] /\ token'[g] = token[g],
         Keyed(h)'
  PROVE  Typed'
<1>1. /\ Ids' = Ids /\ Configs' = Configs /\ KeyPairs' = KeyPairs /\ Spoken' = Spoken
      /\ Runs' = Runs
  BY DEF Ids, Configs, KeyPairs, Spoken, Runs
<1>2. \A g \in Hosts : Orderly(g)'
  BY OthersTyped DEF Moved
<1>3. \A g \in Hosts : Keyed(g)'
  BY OthersTyped DEF Moved
<1>4. TypeOK'
  <2>1. proc' \in [Hosts -> Runs]
    BY DEF Moved
  <2>2. config' \in [Hosts -> [id : Names, state : {"none", "pending", "ready"}, peer : Names]]
    BY Records
  <2>3. secrets' \in [Hosts -> [key : Names, psk : Names]]
    BY Records
  <2>4. (\A g \in Hosts : token'[g] \in Tokens \cup {None}) /\ tokens' \subseteq Tokens
    BY Records
  <2> QED
    BY <2>1, <2>2, <2>3, <2>4 DEF Typed, TypeOK, Links
<1> QED
  BY <1>1, <1>2, <1>3, <1>4 DEF Typed, Moved

\* A step that touches neither keys nor tokens.
LEMMA KeyedStays ==
  ASSUME Typed, mode' = mode, minted' = minted, NEW h \in Hosts, NEW step, Moved(h, step),
         step \notin {"keys", "token"}, At(h, step) \/ step = "nothing" \/ proc'[h] = Free,
         secrets'[h] = secrets[h], token'[h] = token[h]
  PROVE  Keyed(h)'
<1>1. CASE proc'[h] = Free
  BY <1>1, FreeRuns DEF Keyed, Makes
<1>2. CASE proc'[h] # Free
  <2>1. /\ proc'[h].cmd = proc[h].cmd /\ proc'[h].cfg = proc[h].cfg /\ proc'[h].new = proc[h].new
        /\ Left(h)' = Left(h) \ {step}
    BY <1>2 DEF Moved
  <2>2. Ids' = Ids /\ Spoken' = Spoken /\ Identity(h)' = Identity(h) /\ InitSet' = InitSet
    BY DEF Ids, Spoken, Identity, WG, InitSet
  <2>3. "wipe" \in Left(h)' => step \notin InitSet
    <3>1. SUFFICES ASSUME "wipe" \in Left(h), step # "wipe", At(h, step), step \in InitSet PROVE FALSE
      BY <1>2, <2>1 DEF InitSet
    <3>2. step \in {"check", "keys", "mtls", "link", "save", "activate", "token", "scrub", "print"}
      BY <3>1 DEF InitSet
    <3>3. Rank(proc[h].cmd, step) < Rank(proc[h].cmd, "wipe")
      BY <3>1, AtHead
    <3> QED
      BY <3>2, <3>3 DEF Rank
  <2>4. Keyed(h)
    BY DEF Typed
  <2> QED
    BY <2>1, <2>2, <2>3, <2>4 DEF Keyed, Makes
<1> QED
  BY <1>1, <1>2

\* What Typed says of the variables, for the ones an action leaves alone.
LEMMA Types ==
  ASSUME Typed
  PROVE  /\ config \in [Hosts -> Configs] /\ secrets \in [Hosts -> KeyPairs]
         /\ token \in [Hosts -> Spoken \cup {None}] /\ tokens \subseteq Spoken
         /\ mtls \subseteq {"ca", "caKey", "client"} /\ link \in [Hosts -> Links]
         /\ up \in [Hosts -> Links] /\ authorized \subseteq [key : Names, id : Names]
         /\ enabled \subseteq Hosts /\ proc \in [Hosts -> Runs]
         /\ NoLink \in Links /\ NoConfig \in Configs /\ NoSecrets \in KeyPairs
         /\ \A h \in Hosts : proc[h].cfg \in Configs /\ proc[h].new \in KeyPairs
  BY DEF Typed, TypeOK, Links, Runs, NoLink, Names, Configs, KeyPairs

\* A step of h that has happened without touching keys and tokens.
LEMMA PlainStepTyped ==
  ASSUME Typed, mode' = mode, minted' = minted, NEW h \in Hosts, NEW step, Moved(h, step),
         step \notin {"keys", "token"}, At(h, step) \/ step = "nothing" \/ proc'[h] = Free,
         secrets' = secrets, token' = token,
         config' \in [Hosts -> Configs], tokens' \subseteq Spoken,
         mtls' \subseteq {"ca", "caKey", "client"}, link' \in [Hosts -> Links],
         up' \in [Hosts -> Links], authorized' \subseteq [key : Names, id : Names],
         enabled' \subseteq Hosts
  PROVE  Typed'
  BY Types, KeyedStays, StepTyped

LEMMA CheckConflictsTyped ==
  ASSUME Typed, mode' = mode, NEW h \in Hosts, CheckConflicts(h)
  PROVE  Moved(h, "check") /\ Typed'
<1>1. At(h, "check") /\ Moved(h, "check")
  BY DoneMoves, ReturnMoves DEF CheckConflicts
<1> QED
  BY <1>1, Types, PlainStepTyped DEF CheckConflicts

LEMMA GenerateKeysTyped ==
  ASSUME Typed, mode' = mode, NEW h \in Hosts, GenerateKeys(h)
  PROVE  Moved(h, "keys") /\ Typed'
<1>1. At(h, "keys") /\ Moved(h, "keys")
  BY DoneMoves DEF GenerateKeys
<1>2. secrets' \in [Hosts -> KeyPairs] /\ secrets'[h] = proc[h].new
      /\ \A g \in Hosts \ {h} : secrets'[g] = secrets[g]
  <2>1. proc[h].new \in KeyPairs /\ secrets \in [Hosts -> KeyPairs]
    BY Types
  <2> QED
    BY <2>1 DEF GenerateKeys
<1>3. "keys" \in StepsOf(h, proc[h].cmd)
  BY <1>1, AtHead
<1>4. Makes(h)
  BY <1>3, Owners DEF Makes
<1>5. proc[h].new.key \in Ids
  BY <1>4, Types, Records DEF Typed, Keyed
<1>6. Keyed(h)'
  <2>1. CASE proc'[h] = Free
    BY <2>1, FreeRuns DEF Keyed, Makes
  <2>2. CASE proc'[h] # Free
    <3>1. /\ proc'[h].cmd = proc[h].cmd /\ proc'[h].cfg = proc[h].cfg /\ proc'[h].new = proc[h].new
          /\ Left(h)' = Left(h) \ {"keys"}
      BY <1>1, <2>2 DEF Moved
    <3>2. Ids' = Ids /\ Spoken' = Spoken /\ InitSet' = InitSet /\ token' = token
      BY DEF Ids, Spoken, InitSet, WG, GenerateKeys
    <3>3. Identity(h)' \in Hosts \cup Ids
      BY <1>2, <1>5 DEF Identity, WG
    <3>4. "wipe" \notin Left(h)
      <4>1. Rank(proc[h].cmd, "keys") = 6 /\ Rank(proc[h].cmd, "wipe") = 4
        BY DEF Rank
      <4> QED
        BY <1>1, <4>1, AtHead
    <3> QED
      BY <1>4, <3>1, <3>2, <3>3, <3>4 DEF Keyed, Makes, Typed
  <2> QED
    BY <2>1, <2>2
<1> QED
  BY <1>1, <1>2, <1>6, Types, StepTyped DEF GenerateKeys

LEMMA PrepareMTLSTyped ==
  ASSUME Typed, mode' = mode, PrepareMTLS
  PROVE  Moved(Gateway, "mtls") /\ Typed'
<1>1. At(Gateway, "mtls") /\ Moved(Gateway, "mtls")
  BY DoneMoves DEF PrepareMTLS, Hosts
<1> QED
  BY <1>1, Types, PlainStepTyped DEF PrepareMTLS, Hosts

LEMMA ScrubMTLSTyped ==
  ASSUME Typed, mode' = mode, ScrubMTLS
  PROVE  Moved(Gateway, "scrub") /\ Typed'
<1>1. At(Gateway, "scrub") /\ Moved(Gateway, "scrub")
  BY DoneMoves DEF ScrubMTLS, Hosts
<1> QED
  BY <1>1, Types, PlainStepTyped DEF ScrubMTLS, Hosts

LEMMA IdentityIsNamed ==
  ASSUME Typed, NEW h \in Hosts
  PROVE  Identity(h) \in Names
  BY Types, Records DEF Identity

LEMMA WriteLinkTyped ==
  ASSUME Typed, mode' = mode, NEW h \in Hosts, WriteLink(h)
  PROVE  Moved(h, "link") /\ Typed'
<1>1. At(h, "link") /\ Moved(h, "link")
  BY DoneMoves, ReturnMoves DEF WriteLink
<1>2. link' \in [Hosts -> Links]
  <2>1. [own |-> Identity(h), psk |-> secrets[h].psk, peer |-> proc[h].cfg.peer] \in Links
    BY Types, Records, IdentityIsNamed DEF Links
  <2> QED
    BY <2>1, Types DEF WriteLink
<1> QED
  BY <1>1, <1>2, Types, PlainStepTyped DEF WriteLink

LEMMA AuthorizePeerTyped ==
  ASSUME Typed, mode' = mode, AuthorizePeer
  PROVE  Moved(Gateway, "authorize") /\ Typed'
<1>1. At(Gateway, "authorize") /\ Moved(Gateway, "authorize")
  BY DoneMoves DEF AuthorizePeer, Hosts
<1>2. authorized' \subseteq [key : Names, id : Names]
  <2>1. proc[Gateway].cfg.peer \in Names /\ proc[Gateway].cfg.id \in Names
    BY Types, Records DEF Hosts
  <2> QED
    BY <2>1, Types DEF AuthorizePeer
<1> QED
  BY <1>1, <1>2, Types, PlainStepTyped DEF AuthorizePeer, Hosts

LEMMA SaveConfigTyped ==
  ASSUME Typed, mode' = mode, NEW h \in Hosts, SaveConfig(h)
  PROVE  Moved(h, "save") /\ Typed'
<1>1. At(h, "save") /\ Moved(h, "save")
  BY DoneMoves DEF SaveConfig
<1>2. config' \in [Hosts -> Configs]
  BY Types DEF SaveConfig
<1> QED
  BY <1>1, <1>2, Types, PlainStepTyped DEF SaveConfig

LEMMA StartLinkTyped ==
  ASSUME Typed, mode' = mode, NEW h \in Hosts, StartLink(h)
  PROVE  \E step \in {"activate", "restart"} : At(h, step) /\ Moved(h, step) /\ Typed'
<1>1. PICK step \in {"activate", "restart"} : At(h, step) /\ Moved(h, step)
  BY DoneMoves DEF StartLink
<1>2. up' \in [Hosts -> Links] /\ enabled' \subseteq Hosts
  BY Types DEF StartLink
<1> QED
  BY <1>1, <1>2, Types, PlainStepTyped DEF StartLink

LEMMA WriteTokenTyped ==
  ASSUME Typed, mode' = mode, NEW h \in Hosts, WriteToken(h)
  PROVE  Moved(h, "token") /\ Typed'
<1>1. At(h, "token") /\ Moved(h, "token")
  BY DoneMoves DEF WriteToken
<1> DEFINE t == [kind |-> IF h = Gateway THEN "offer" ELSE "response",
                 id   |-> proc[h].cfg.id, key |-> Identity(h),
                 psk  |-> IF h = Gateway THEN secrets[h].psk ELSE None]
<1>2. "token" \in StepsOf(h, proc[h].cmd)
  BY <1>1, AtHead
<1>3. Makes(h)
  BY <1>2, Owners DEF Makes
<1>4. "keys" \notin Left(h) /\ "wipe" \notin Left(h)
  <2>1. /\ Rank(proc[h].cmd, "token") = 12 /\ Rank(proc[h].cmd, "keys") = 6
        /\ Rank(proc[h].cmd, "wipe") = 4
    BY DEF Rank
  <2> QED
    BY <1>1, <2>1, AtHead
<1>5. t \in Spoken
  <2>1. proc[h].cfg.id \in Ids /\ Identity(h) \in Hosts \cup Ids
    BY <1>3, <1>4, Types, Records DEF Typed, Keyed
  <2>2. secrets[h].psk \in Names
    BY Types, Records
  <2> QED
    BY <2>1, <2>2, Records DEF Spoken
<1>6. token' \in [Hosts -> Spoken \cup {None}] /\ token'[h] = t
      /\ \A g \in Hosts \ {h} : token'[g] = token[g]
  BY <1>5, Types DEF WriteToken
<1>7. Keyed(h)'
  <2>1. CASE proc'[h] = Free
    BY <2>1, FreeRuns DEF Keyed, Makes
  <2>2. CASE proc'[h] # Free
    <3>1. /\ proc'[h].cmd = proc[h].cmd /\ proc'[h].cfg = proc[h].cfg /\ proc'[h].new = proc[h].new
          /\ Left(h)' = Left(h) \ {"token"}
      BY <1>1, <2>2 DEF Moved
    <3>2. Ids' = Ids /\ Spoken' = Spoken /\ Identity(h)' = Identity(h)
      BY DEF Ids, Spoken, Identity, WG, WriteToken
    <3> QED
      BY <1>3, <1>4, <1>5, <1>6, <3>1, <3>2 DEF Keyed, Makes, Typed
  <2> QED
    BY <2>1, <2>2
<1> QED
  BY <1>1, <1>6, <1>7, Types, StepTyped DEF WriteToken

LEMMA PrintTokenTyped ==
  ASSUME Typed, mode' = mode, NEW h \in Hosts, PrintToken(h)
  PROVE  Moved(h, "print") /\ token[h] \in Spoken /\ Typed'
<1>1. At(h, "print") /\ Moved(h, "print")
  BY DoneMoves DEF PrintToken
<1>2. "print" \in StepsOf(h, proc[h].cmd)
  BY <1>1, AtHead
<1>3. Makes(h)
  BY <1>2, Owners DEF Makes
<1>4. "token" \notin Left(h)
  <2>1. Rank(proc[h].cmd, "token") = 12 /\ Rank(proc[h].cmd, "print") = 14
    BY DEF Rank
  <2> QED
    BY <1>1, <2>1, AtHead
<1>5. token[h] \in Spoken
  BY <1>3, <1>4 DEF Typed, Keyed
<1> QED
  BY <1>1, <1>5, Types, PlainStepTyped DEF PrintToken

LEMMA TakeDownTyped ==
  ASSUME Typed, mode' = mode, NEW h \in Hosts, TakeDown(h)
  PROVE  Moved(h, "down") /\ Typed'
<1>1. At(h, "down") /\ Moved(h, "down")
  BY DoneMoves DEF TakeDown
<1>2. up' \in [Hosts -> Links] /\ enabled' \subseteq Hosts
  BY Types DEF TakeDown
<1> QED
  BY <1>1, <1>2, Types, PlainStepTyped DEF TakeDown

LEMMA RevokePeersTyped ==
  ASSUME Typed, mode' = mode, NEW h \in Hosts, RevokePeers(h)
  PROVE  Moved(h, "revoke") /\ Typed'
<1>1. At(h, "revoke") /\ Moved(h, "revoke")
  BY DoneMoves DEF RevokePeers
<1> QED
  BY <1>1, Types, PlainStepTyped DEF RevokePeers

LEMMA RemoveLinkTyped ==
  ASSUME Typed, mode' = mode, NEW h \in Hosts, RemoveLink(h)
  PROVE  Moved(h, "unlink") /\ Typed'
<1>1. At(h, "unlink") /\ Moved(h, "unlink")
  BY DoneMoves DEF RemoveLink
<1>2. link' \in [Hosts -> Links]
  BY Types DEF RemoveLink
<1> QED
  BY <1>1, <1>2, Types, PlainStepTyped DEF RemoveLink

LEMMA WipeTyped ==
  ASSUME Typed, mode' = mode, NEW h \in Hosts, Wipe(h)
  PROVE  (Moved(h, "wipe") \/ (proc' = proc /\ Moved(h, "nothing"))) /\ Typed'
<1>1. At(h, "wipe")
  BY DEF Wipe
<1>2. config' \in [Hosts -> Configs] /\ secrets' \in [Hosts -> KeyPairs]
      /\ token' \in [Hosts -> Spoken \cup {None}] /\ mtls' \subseteq {"ca", "caKey", "client"}
  BY Types DEF Wipe
<1>3. \A g \in Hosts \ {h} : secrets'[g] = secrets[g] /\ token'[g] = token[g]
  BY Types DEF Wipe
<1>4. CASE proc' = proc
  <2>1. Moved(h, "nothing")
    BY <1>4, StayMoves
  <2>2. Keyed(h)'
    <3>1. Keyed(h) /\ "wipe" \in Left(h) /\ Left(h)' = Left(h) /\ Makes(h)' = Makes(h)
      BY <1>1, <1>4, AtHead DEF Typed, Left, Makes
    <3>2. Makes(h) => h = Gateway
      <4>1. "wipe" \in StepsOf(h, proc[h].cmd)
        BY <1>1, AtHead
      <4> QED
        BY <4>1, Owners DEF Makes
    <3>3. Makes(h) => InitSet \subseteq Left(h)
      BY <3>1 DEF Keyed
    <3>4. "token" \in InitSet /\ (WG => "keys" \in InitSet) /\ InitSet' = InitSet
      BY DEF InitSet, WG
    <3>5. ~WG => Identity(Gateway)' = Gateway
      BY DEF Identity, WG
    <3> QED
      BY <1>4, <3>1, <3>2, <3>3, <3>4, <3>5 DEF Keyed
  <2>3. /\ minted' = minted /\ tokens' = tokens /\ link' = link /\ up' = up
        /\ authorized' = authorized /\ enabled' = enabled
    BY DEF Wipe
  <2>4. Typed'
    BY <1>2, <1>3, <2>1, <2>2, <2>3, Types, StepTyped
  <2> QED
    BY <1>4, <2>1, <2>4
<1>5. CASE proc' # proc
  <2>1. Done(h) /\ UNCHANGED <<config, secrets, mtls, token>>
    BY <1>5 DEF Wipe
  <2>2. Moved(h, "wipe")
    BY <1>1, <2>1, DoneMoves
  <2> QED
    BY <1>1, <2>1, <2>2, Types, PlainStepTyped DEF Wipe
<1> QED
  BY <1>4, <1>5

LEMMA ProbeTyped ==
  ASSUME Typed, mode' = mode, NEW h \in Hosts, Probe(h)
  PROVE  Moved(h, "probe") /\ Typed'
<1>1. At(h, "probe") /\ Moved(h, "probe")
  BY DoneMoves, ReturnMoves DEF Probe
<1> QED
  BY <1>1, Types, PlainStepTyped DEF Probe

LEMMA BeginTyped ==
  ASSUME Typed, mode' = mode, NEW h \in Hosts,
         NEW cmd \in {"init", "join", "accept", "uninstall", "doctor"}, NEW s, NEW S,
         Lists(h, cmd, s, S), NEW cfg, NEW new, Begin(h, cmd, s, cfg, new),
         minted' \in {minted, minted + 1}, minted' <= MaxMinted,
         cfg \in Configs', new \in KeyPairs',
         cmd \in {"init", "join"} =>
           /\ cfg # NoConfig /\ new # NoSecrets /\ "token" \in S
           /\ "keys" \notin S => Identity(h) \in Hosts
           /\ "wipe" \in S => InitSet \subseteq S
  PROVE  Begun(h, cmd, S, cfg, new) /\ Typed'
<1>1. Begun(h, cmd, S, cfg, new) /\ DOMAIN proc' = Hosts /\ proc'[h].left \in Seq(StepNames)
  BY BeginMoves
<1>2. /\ config' = config /\ secrets' = secrets /\ mtls' = mtls /\ link' = link /\ token' = token
      /\ authorized' = authorized /\ up' = up /\ enabled' = enabled /\ tokens' = tokens
  BY DEF Begin
<1>3. /\ Ids \subseteq Ids' /\ Configs \subseteq Configs' /\ KeyPairs \subseteq KeyPairs'
      /\ Spoken \subseteq Spoken' /\ Runs \subseteq Runs'
  BY MoreIds
<1>4. proc' \in [Hosts -> Runs']
  <2>1. proc'[h] \in Runs'
    <3>1. proc'[h] = [cmd |-> cmd, left |-> s, cfg |-> cfg, new |-> new]
      BY Types DEF Begin
    <3>2. s \in Seq(StepNames)
      BY DEF Lists
    <3> QED
      BY <3>1, <3>2 DEF Runs
  <2>2. \A g \in Hosts \ {h} : proc'[g] \in Runs'
    BY <1>1, <1>3, Types DEF Begun
  <2>3. proc' = [g \in Hosts |-> proc'[g]]
    BY Types DEF Begin
  <2> QED
    BY <2>1, <2>2, <2>3
<1>5. \A g \in Hosts \ {h} : Orderly(g)' /\ Keyed(g)'
  BY <1>1, <1>2, OthersTyped DEF Begun
<1>6. Orderly(h)'
  BY <1>1 DEF Begun
<1>7. Keyed(h)'
  <2>1. Identity(h)' = Identity(h) /\ InitSet' = InitSet
    BY <1>2 DEF Identity, WG, InitSet
  <2> QED
    BY <1>1, <2>1 DEF Keyed, Begun, Makes
<1>8. TypeOK'
  <2>1. minted' \in 0 .. MaxMinted
    BY MintedAssumption DEF Typed, TypeOK
  <2> QED
    BY <1>1, <1>2, <2>1 DEF Typed, TypeOK
<1>9. /\ config' \in [Hosts -> Configs'] /\ secrets' \in [Hosts -> KeyPairs']
      /\ token' \in [Hosts -> Spoken' \cup {None}] /\ tokens' \subseteq Spoken'
  BY <1>2, <1>3, Types
<1>10. \A g \in Hosts : Orderly(g)' /\ Keyed(g)'
  BY <1>5, <1>6, <1>7
<1> QED
  BY <1>1, <1>4, <1>8, <1>9, <1>10 DEF Typed

InitConfig == [id |-> minted + 1, state |-> "pending", peer |-> None]
NewKeys(h, psk) == [key |-> FreshKey(h), psk |-> psk]

LEMMA InitOutsideTyped ==
  ASSUME Typed, mode' = mode, InitOutside
  PROVE  /\ Typed'
         /\ \E S \in {InitSet, UninstallSet \cup InitSet} :
              /\ Begun(Gateway, "init", S, InitConfig, NewKeys(Gateway, FreshKey(Gateway)))
              /\ S = InitSet => config[Gateway] = NoConfig
<1> DEFINE cfg == InitConfig  new == NewKeys(Gateway, FreshKey(Gateway))
<1>1. Gateway \in Hosts
  BY DEF Hosts
<1>2. minted < MaxMinted /\ minted' = minted + 1 /\ Begin(Gateway, "init", Replacing \o InitSteps, cfg, new)
  BY DEF InitOutside, InitConfig, NewKeys
<1>3. minted' \in Nat /\ minted' <= MaxMinted /\ minted + 1 \in Ids' /\ None \notin Ids'
  BY <1>2, Records, MintedAssumption, NoneAssumption DEF Ids
<1>4. cfg \in Configs' /\ new \in KeyPairs' /\ cfg # NoConfig /\ new # NoSecrets
  <2>1. cfg \in Configs' /\ cfg.id = minted + 1
    BY <1>3, Records DEF Configs, InitConfig
  <2>2. new \in KeyPairs' /\ new.key = minted + 1
    <3>1. minted + 1 \in Names
      BY <1>2, Records, MintedAssumption DEF Names
    <3> QED
      BY <1>3, <3>1 DEF KeyPairs, NewKeys, FreshKey
  <2> QED
    BY <1>3, <2>1, <2>2, Records
<1>5. "token" \in InitSet /\ (WG => "keys" \in InitSet) /\ (~WG => Identity(Gateway) = Gateway)
  BY DEF InitSet, Identity
<1>6. CASE config[Gateway] = NoConfig
  <2>1. Begin(Gateway, "init", InitSteps, cfg, new)
    <3>1. Lists(Gateway, "init", InitSteps, InitSet)
      BY InitList
    <3>2. << >> \o InitSteps = InitSteps
      BY <3>1 DEF Lists
    <3> QED
      BY <1>2, <1>6, <3>2 DEF Replacing
  <2>2. Begun(Gateway, "init", InitSet, cfg, new) /\ Typed'
    BY <1>1, <1>2, <1>3, <1>4, <1>5, <2>1, InitList, BeginTyped
  <2> QED
    BY <1>6, <2>2
<1>7. CASE config[Gateway] # NoConfig
  <2>1. Begin(Gateway, "init", UninstallSteps \o InitSteps, cfg, new)
    BY <1>2, <1>7 DEF Replacing
  <2>2. Begun(Gateway, "init", UninstallSet \cup InitSet, cfg, new) /\ Typed'
    BY <1>1, <1>2, <1>3, <1>4, <1>5, <2>1, ForcedInitList, BeginTyped
  <2>3. UninstallSet \cup InitSet # InitSet
    BY DEF UninstallSet, InitSet
  <2> QED
    BY <2>2, <2>3
<1> QED
  BY <1>6, <1>7

JoinConfigOf(o) == [id |-> o.id, state |-> "pending", peer |-> o.key]

LEMMA JoinTyped ==
  ASSUME Typed, mode' = mode, NEW e \in Edges, Join(e)
  PROVE  /\ Typed'
         /\ \E o \in tokens : o.kind = "offer" /\ Begun(e, "join", JoinSet, JoinConfigOf(o), NewKeys(e, o.psk))
<1>1. e \in Hosts /\ e # Gateway
  BY HostsAssumption DEF Hosts
<1>2. minted < MaxMinted /\ minted' = minted + 1
  BY DEF Join
<1>3. PICK o \in tokens : /\ o.kind = "offer"
                         /\ Begin(e, "join", JoinSteps, JoinConfigOf(o), NewKeys(e, o.psk))
  BY DEF Join, JoinConfigOf, NewKeys
<1>4. minted' \in Nat /\ minted' <= MaxMinted /\ minted + 1 \in Ids' /\ Ids \subseteq Ids' /\ None \notin Ids'
  BY <1>2, Records, MintedAssumption, NoneAssumption DEF Ids
<1>5. o.id \in Ids /\ o.key \in Names /\ o.psk \in Names
  <2>1. o \in Spoken
    BY Types
  <2> QED
    BY <2>1, Records DEF Spoken
<1>6. JoinConfigOf(o) \in Configs' /\ JoinConfigOf(o) # NoConfig
  <2>1. JoinConfigOf(o) \in Configs' /\ JoinConfigOf(o).id = o.id
    BY <1>4, <1>5 DEF Configs, JoinConfigOf
  <2> QED
    BY <1>4, <1>5, <2>1, Records
<1>7. NewKeys(e, o.psk) \in KeyPairs' /\ NewKeys(e, o.psk) # NoSecrets
  <2>1. NewKeys(e, o.psk) \in KeyPairs' /\ NewKeys(e, o.psk).key = minted + 1
    BY <1>4, <1>5 DEF KeyPairs, NewKeys, FreshKey
  <2> QED
    BY <1>4, <2>1, Records
<1>8. "token" \in JoinSet /\ "wipe" \notin JoinSet /\ ("keys" \notin JoinSet => Identity(e) = e)
  BY DEF JoinSet, Identity, WG
<1>9. Begun(e, "join", JoinSet, JoinConfigOf(o), NewKeys(e, o.psk)) /\ Typed'
  BY <1>1, <1>2, <1>3, <1>4, <1>6, <1>7, <1>8, JoinList, BeginTyped
<1> QED
  BY <1>3, <1>9

AcceptConfig(r) == [config[Gateway] EXCEPT !.state = "ready", !.peer = r.key]

LEMMA AcceptTyped ==
  ASSUME Typed, mode' = mode, Accept
  PROVE  /\ Typed' /\ minted' = minted /\ config[Gateway] # NoConfig
         /\ \E r \in tokens : \E c :
              /\ r.kind = "response" /\ r.id = config[Gateway].id
              /\ c.id = r.id /\ c.peer = r.key
              /\ Begun(Gateway, "accept", AcceptSet, c, NoSecrets)
<1>1. Gateway \in Hosts
  BY DEF Hosts
<1>2. minted' = minted /\ config[Gateway] # NoConfig
  BY DEF Accept
<1>3. PICK r \in tokens : /\ r.kind = "response" /\ r.id = config[Gateway].id
                         /\ Begin(Gateway, "accept", AcceptSteps, AcceptConfig(r), NoSecrets)
  BY DEF Accept, Answers, AcceptConfig
<1>4. PICK c : c = AcceptConfig(r)
  OBVIOUS
<1>5. c.id = config[Gateway].id /\ c.peer = r.key /\ c \in Configs
  <2>1. config[Gateway] \in [id : Ids, state : {"pending", "ready"}, peer : Names]
    BY <1>1, <1>2, Types DEF Configs
  <2>2. r.key \in Names
    BY Types, Records DEF Spoken
  <2> QED
    BY <1>4, <2>1, <2>2 DEF AcceptConfig, Configs
<1>6. minted' \in {minted, minted + 1} /\ minted' <= MaxMinted /\ Configs' = Configs /\ KeyPairs' = KeyPairs
  BY <1>2, Records DEF Configs, KeyPairs, Ids
<1>7. Begun(Gateway, "accept", AcceptSet, c, NoSecrets) /\ Typed'
  BY <1>1, <1>3, <1>4, <1>5, <1>6, Types, AcceptList, BeginTyped
<1> QED
  BY <1>2, <1>3, <1>5, <1>7

LEMMA UninstallTyped ==
  ASSUME Typed, mode' = mode, NEW h \in Hosts, Uninstall(h)
  PROVE  Typed' /\ minted' = minted /\ Begun(h, "uninstall", UninstallSet, config[h], NoSecrets)
<1>1. Begin(h, "uninstall", UninstallSteps, config[h], NoSecrets) /\ minted' = minted
  BY DEF Uninstall
<1>2. minted' \in {minted, minted + 1} /\ minted' <= MaxMinted /\ Configs' = Configs /\ KeyPairs' = KeyPairs
  BY <1>1, Records DEF Configs, KeyPairs, Ids
<1>3. config[h] \in Configs /\ NoSecrets \in KeyPairs
  BY Types
<1> QED
  BY <1>1, <1>2, <1>3, UninstallList, BeginTyped

LEMMA DoctorTyped ==
  ASSUME Typed, mode' = mode, NEW e \in Edges, Doctor(e)
  PROVE  /\ Typed' /\ minted' = minted /\ config[e] # NoConfig
         /\ \E c : c.id = config[e].id /\ Begun(e, "doctor", {"probe", "save"}, c, NoSecrets)
<1>1. e \in Hosts
  BY DEF Hosts
<1>2. PICK c : c = [config[e] EXCEPT !.state = "ready"]
  OBVIOUS
<1>3. /\ Begin(e, "doctor", <<"probe", "save">>, c, NoSecrets) /\ minted' = minted
      /\ config[e] # NoConfig
  BY <1>2 DEF Doctor
<1>4. c.id = config[e].id /\ c \in Configs
  <2>1. config[e] \in [id : Ids, state : {"pending", "ready"}, peer : Names]
    BY <1>1, <1>3, Types DEF Configs
  <2> QED
    BY <1>2, <2>1 DEF Configs
<1>5. minted' \in {minted, minted + 1} /\ minted' <= MaxMinted /\ Configs' = Configs /\ KeyPairs' = KeyPairs
  BY <1>3, Records DEF Configs, KeyPairs, Ids
<1>6. Begun(e, "doctor", {"probe", "save"}, c, NoSecrets) /\ Typed'
  BY <1>1, <1>3, <1>4, <1>5, Types, DoctorList, BeginTyped
<1> QED
  BY <1>3, <1>4, <1>6

LEMMA ShowTokenTyped ==
  ASSUME Typed, mode' = mode, NEW h \in Hosts, ShowToken(h)
  PROVE  Moved(h, "nothing") /\ proc' = proc /\ token[h] \in Spoken /\ Typed'
<1>1. proc' = proc /\ Moved(h, "nothing")
  BY StayMoves DEF ShowToken
<1>2. token[h] \in Spoken
  BY Types DEF ShowToken
<1> QED
  BY <1>1, <1>2, Types, PlainStepTyped DEF ShowToken

LEMMA ManageLinkTyped ==
  ASSUME Typed, mode' = mode, NEW h \in Hosts, ManageLink(h)
  PROVE  Moved(h, "nothing") /\ proc' = proc /\ Typed'
<1>1. proc' = proc /\ Moved(h, "nothing")
  BY StayMoves DEF ManageLink
<1>2. up' \in [Hosts -> Links] /\ enabled' \subseteq Hosts
  BY Types DEF ManageLink
<1> QED
  BY <1>1, <1>2, Types, PlainStepTyped DEF ManageLink

LEMMA KillTyped ==
  ASSUME Typed, mode' = mode, NEW h \in Hosts, Kill(h)
  PROVE  Moved(h, "nothing") /\ proc'[h] = Free /\ Left(h)' = {} /\ Typed'
<1>1. Moved(h, "nothing") /\ proc'[h] = Free /\ Left(h)' = {}
  BY ReturnMoves DEF Kill
<1> QED
  BY <1>1, Types, PlainStepTyped DEF Kill

LEMMA FailStepTyped ==
  ASSUME Typed, mode' = mode, NEW h \in Hosts, FailStep(h)
  PROVE  Moved(h, "nothing") /\ proc'[h] = Free /\ Left(h)' = {} /\ Typed'
<1>1. Moved(h, "nothing") /\ proc'[h] = Free /\ Left(h)' = {}
  BY ReturnMoves DEF FailStep
<1>2. up' \in [Hosts -> Links] /\ enabled' \subseteq Hosts
  BY Types DEF FailStep
<1> QED
  BY <1>1, <1>2, Types, PlainStepTyped DEF FailStep

LEMMA RebootTyped ==
  ASSUME Typed, mode' = mode, NEW h \in Hosts, Reboot(h)
  PROVE  Moved(h, "nothing") /\ proc'[h] = Free /\ Left(h)' = {} /\ Typed'
<1>1. Moved(h, "nothing") /\ proc'[h] = Free /\ Left(h)' = {}
  BY ReturnMoves DEF Reboot
<1>2. up' \in [Hosts -> Links]
  BY Types DEF Reboot
<1> QED
  BY <1>1, <1>2, Types, PlainStepTyped DEF Reboot

LEMMA InitTyped == Init => Typed
<1> SUFFICES ASSUME Init PROVE Typed
  OBVIOUS
<1>1. \A h \in Hosts : Orderly(h) /\ Keyed(h)
  BY FreeIsOrderly, FreeRuns DEF Init, Keyed, Makes
<1>2. TypeOK
  BY MintedAssumption DEF Init, TypeOK, NoConfig, NoSecrets, NoLink, Names
<1>3. /\ config \in [Hosts -> Configs] /\ secrets \in [Hosts -> KeyPairs]
      /\ token \in [Hosts -> Spoken \cup {None}] /\ tokens \subseteq Spoken
      /\ proc \in [Hosts -> Runs]
  BY FreeRuns DEF Init, Configs, KeyPairs
<1> QED
  BY <1>1, <1>2, <1>3 DEF Typed

LEMMA NextTyped == Typed /\ [Next]_vars => Typed'
<1> SUFFICES ASSUME Typed, [Next]_vars PROVE Typed'
  OBVIOUS
<1>1. CASE UNCHANGED vars
  <2>1. Gateway \in Hosts /\ mode' = mode /\ minted' = minted /\ proc' = proc
    BY <1>1 DEF vars, Hosts
  <2>2. Moved(Gateway, "nothing")
    BY <2>1, StayMoves
  <2> QED
    BY <1>1, <2>1, <2>2, Types, PlainStepTyped DEF vars
<1>2. CASE Next
  <2>1. mode' = mode
    BY <1>2 DEF Next
  <2>2. Gateway \in Hosts /\ Edges \subseteq Hosts
    BY DEF Hosts
  <2>3. CASE InitOutside \/ Accept \/ PrepareMTLS \/ ScrubMTLS \/ AuthorizePeer
    BY <2>1, <2>3, InitOutsideTyped, AcceptTyped, PrepareMTLSTyped, ScrubMTLSTyped, AuthorizePeerTyped
  <2>4. CASE \E e \in Edges : Join(e) \/ Doctor(e) \/ Probe(e)
    BY <2>1, <2>2, <2>4, JoinTyped, DoctorTyped, ProbeTyped
  <2>5. CASE \E h \in Hosts : Uninstall(h) \/ ShowToken(h) \/ ManageLink(h)
    BY <2>1, <2>5, UninstallTyped, ShowTokenTyped, ManageLinkTyped
  <2>6. CASE \E h \in Hosts : Step(h)
    BY <2>1, <2>6, CheckConflictsTyped, GenerateKeysTyped, WriteLinkTyped, SaveConfigTyped, StartLinkTyped,
       WriteTokenTyped, PrintTokenTyped, TakeDownTyped, RevokePeersTyped, RemoveLinkTyped, WipeTyped
       DEF Step
  <2>7. CASE \E h \in Hosts : FailStep(h) \/ Kill(h) \/ Reboot(h)
    BY <2>1, <2>7, FailStepTyped, KillTyped, RebootTyped
  <2> QED
    BY <1>2, <2>3, <2>4, <2>5, <2>6, <2>7 DEF Next
<1> QED
  BY <1>1, <1>2

\* Every command is a list of its own steps in their order, whose keys, names and
\* tokens exist by the time they are used.
THEOREM TypeCorrect == Spec => [](Typed /\ TypeOK)
<1>1. Typed => TypeOK
  BY DEF Typed
<1> QED
  BY InitTyped, NextTyped, <1>1, PTL DEF Spec
=============================================================================
