-------------------------------- MODULE Trust --------------------------------
(***************************************************************************)
(* What pairing promises, without tokens, files, commands or hosts: a      *)
(* gateway lets in only peers that answered the instance it has, and       *)
(* begins or ends an instance only while it lets nobody in, so that no     *)
(* peer is ever carried over from one instance to the next.                *)
(***************************************************************************)
CONSTANTS
  Instances,
  Peers,
  Nobody      \* the instance of a gateway that has none

VARIABLES
  instance,   \* the gateway's instance
  answers,    \* the pairs of an instance and a peer that has answered it
  admitted    \* the peers the gateway lets in, now or after a restart

vars == <<instance, answers, admitted>>

Init == instance = Nobody /\ answers = {} /\ admitted = {}

\* A new instance: nobody has answered it yet.
Establish ==
  /\ instance = Nobody /\ admitted = {}
  /\ \E i \in Instances : /\ \A a \in answers : a[1] # i
                          /\ instance' = i
  /\ UNCHANGED <<answers, admitted>>

Answer ==
  /\ \E i \in Instances, p \in Peers : answers' = answers \cup {<<i, p>>}
  /\ UNCHANGED <<instance, admitted>>

\* Peers are taken on and dropped.
Admit ==
  /\ admitted' \subseteq admitted \cup {p \in Peers : <<instance, p>> \in answers}
  /\ UNCHANGED <<instance, answers>>

Forget ==
  /\ admitted = {}
  /\ instance' = Nobody
  /\ UNCHANGED <<answers, admitted>>

Next == Establish \/ Answer \/ Admit \/ Forget

Spec == Init /\ [][Next]_vars

=============================================================================
