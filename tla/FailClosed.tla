----------------------------- MODULE FailClosed -----------------------------
(***************************************************************************)
(* What the strict egress guard promises, without kernel, scripts, units   *)
(* or commands: a link that runs only over an armed guard, an armed guard  *)
(* that is disarmed only on request and never under the link, and traffic  *)
(* that an armed guard keeps off the WAN.                                  *)
(*                                                                         *)
(* There are two layers.  A flush takes one of them away; a gap, opened    *)
(* while the guard is repaired, the other.  Packets in OneLayer have the   *)
(* first only, the others are exposed only when both are gone.             *)
(***************************************************************************)
CONSTANTS
  Packets,    \* the kinds of traffic the guard is for
  OneLayer    \* those that only the first layer holds

VARIABLES
  wanted,     \* the guard is to be armed
  armed,      \* the guard is armed
  running,    \* the link is starting, up, or being taken down
  exposed,    \* the packets that would leave by the WAN
  flushed,    \* the first layer has been flushed since boot
  gap         \* the second layer may be open

vars == <<wanted, armed, running, exposed, flushed, gap>>

Init ==
  /\ wanted = FALSE /\ armed = FALSE /\ running = FALSE
  /\ exposed = Packets
  /\ flushed = FALSE /\ gap = FALSE

\* Each packet that gets out has lost every layer that holds it.
Held == \A p \in exposed : p \in Packets /\ flushed /\ (p \in OneLayer \/ gap)

Decide ==
  /\ wanted' = ~wanted
  /\ UNCHANGED <<armed, running, exposed, flushed, gap>>

Arm ==
  /\ ~armed /\ ~running
  /\ Held
  /\ armed' = TRUE
  /\ UNCHANGED <<wanted, running, exposed, flushed, gap>>

Disarm ==
  /\ armed /\ ~running /\ ~wanted
  /\ armed' = FALSE
  /\ UNCHANGED <<wanted, running, exposed, flushed, gap>>

Raise ==
  /\ armed /\ ~running
  /\ running' = TRUE
  /\ UNCHANGED <<wanted, armed, exposed, flushed, gap>>

Lower ==
  /\ running /\ armed
  /\ running' = FALSE
  /\ Held'
  /\ UNCHANGED <<wanted, armed, flushed, gap>>

\* The kernel is edited, or an edit is begun or given up.
Edit ==
  /\ armed => Held'
  /\ UNCHANGED <<wanted, armed, running, flushed>>

Flush ==
  /\ flushed' = TRUE
  /\ armed => Held'
  /\ UNCHANGED <<wanted, armed, running, gap>>

Reboot ==
  /\ armed' = FALSE /\ running' = FALSE
  /\ exposed' = Packets
  /\ flushed' = FALSE /\ gap' = FALSE
  /\ UNCHANGED wanted

Next ==
  \/ Decide \/ Arm \/ Disarm \/ Raise \/ Lower \/ Edit \/ Flush \/ Reboot

Spec == Init /\ [][Next]_vars

=============================================================================
