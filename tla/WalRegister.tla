----------------------------- MODULE WalRegister -----------------------------
(***************************************************************************)
(* What the users of deployment.json may rely on: a register.  A Load      *)
(* returns the state of one Save, never older than the last Save that      *)
(* returned.  A Save cut short may take effect at once, later or never.    *)
(* States are numbered by the Save that writes them.                       *)
(***************************************************************************)
EXTENDS Naturals

VARIABLES
  value,   \* the state a Load returns
  kept,    \* the state of the last Save that returned
  latest   \* the state of the last Save that began

vars == <<value, kept, latest>>

Init == value = 1 /\ kept = 1 /\ latest = 1

Begin ==
  /\ latest' = latest + 1
  /\ UNCHANGED <<value, kept>>

(* The Save under way, or one cut short since the last that returned, takes *)
(* effect.                                                                  *)
Commit ==
  /\ value' \in value + 1 .. latest
  /\ UNCHANGED <<kept, latest>>

Return ==
  /\ value = latest
  /\ kept' = latest
  /\ UNCHANGED <<value, latest>>

PowerLoss ==
  /\ value' \in kept .. latest
  /\ UNCHANGED <<kept, latest>>

Next == Begin \/ Commit \/ Return \/ PowerLoss

Spec == Init /\ [][Next]_vars
=============================================================================
