---------------------------- MODULE TargetRegistry ----------------------------
(***************************************************************************)
(* What the rest of the system may rely on in a registered target: it can  *)
(* be switched on and off, its history of configurations only grows, the   *)
(* last one is current, and the capabilities on record are those of a      *)
(* configuration it has had. TargetCatalogue implements it.                *)
(***************************************************************************)
EXTENDS Naturals, Sequences

CONSTANTS Targets, Configs

VARIABLES
  life,      \* whether the target exists
  enabled,   \* whether it may be used
  history,   \* its configuration versions; the last one is current
  capable    \* the version whose capabilities are recorded, 0 if none

registryVars == <<life, enabled, history, capable>>

RegistryTypeOK ==
  /\ life \in [Targets -> {"unknown", "registered", "deleted"}]
  /\ enabled \in [Targets -> BOOLEAN]
  /\ history \in [Targets -> Seq(Configs)]
  /\ capable \in [Targets -> Nat]

RegistryInit ==
  /\ life = [t \in Targets |-> "unknown"]
  /\ enabled = [t \in Targets |-> TRUE]
  /\ history = [t \in Targets |-> <<>>]
  /\ capable = [t \in Targets |-> 0]

Register(t) ==
  /\ life[t] = "unknown"
  /\ life' = [life EXCEPT ![t] = "registered"]
  /\ UNCHANGED <<enabled, history, capable>>

Enable(t, b) ==
  /\ life[t] = "registered"
  /\ enabled' = [enabled EXCEPT ![t] = b]
  /\ UNCHANGED <<life, history, capable>>

Configure(t, config) ==
  /\ life[t] = "registered"
  /\ history' = [history EXCEPT ![t] = Append(@, config)]
  /\ UNCHANGED <<life, enabled, capable>>

(* A discovery may end when a later version is current already.            *)
Discover(t, n) ==
  /\ life[t] = "registered"
  /\ n \in 1 .. Len(history[t])
  /\ capable' = [capable EXCEPT ![t] = n]
  /\ UNCHANGED <<life, enabled, history>>

Remove(t) ==
  /\ life[t] = "registered"
  /\ life' = [life EXCEPT ![t] = "deleted"]
  /\ enabled' = [enabled EXCEPT ![t] = TRUE]
  /\ history' = [history EXCEPT ![t] = <<>>]
  /\ capable' = [capable EXCEPT ![t] = 0]

RegistryStep(t) ==
  \/ Register(t)
  \/ \E b \in BOOLEAN : Enable(t, b)
  \/ \E config \in Configs : Configure(t, config)
  \/ \E n \in 1 .. Len(history[t]) : Discover(t, n)
  \/ Remove(t)

RegistryNext == \E t \in Targets : RegistryStep(t)

RegistrySpec == RegistryInit /\ [][RegistryNext]_registryVars

=============================================================================
