--------------------------- MODULE FirmwareRecord ---------------------------
(***************************************************************************)
(* The record deployment.json keeps of one add-on bundle, and the          *)
(* transitions of it (internal/deployment/transition.go).  Versions are    *)
(* positive numbers and 0 is none.                                         *)
(***************************************************************************)
EXTENDS Naturals

CONSTANT StableThreshold  \* clean probes before a promotion

ASSUME ThresholdAssumption == StableThreshold \in Nat \ {0}

None == 0

(* Content: the versions a bundle may be at, None among them. *)
BundleStates(Content) ==
  [current : Content, pending : Content, confirms : 0..(StableThreshold - 1),
   lkg : Content, min : Content]

Provisioned(v) ==
  [current |-> v, pending |-> None, confirms |-> 0, lkg |-> v, min |-> v]

HasPending(b) == b.pending # None

(* A version at or below the anti-rollback floor is refused. *)
AboveFloor(b, v) == v > b.min

KeepConfirms(b, v) ==  \* a mutant of DeployFirmware: the count is not reset
  [b EXCEPT !.pending = v]

DeployFirmware(b, v) == [b EXCEPT !.pending = v, !.confirms = 0]

LatePromotion(b) == b.confirms >= StableThreshold  \* a mutant of Promotes

(* RecordFirmwareProbe, with promoteFirmware at the threshold. *)
Promotes(b) == b.confirms + 1 >= StableThreshold

RecordProbe(b) ==
  IF Promotes(b)
  THEN [current |-> b.pending, pending |-> None, confirms |-> 0,
        lkg |-> b.pending, min |-> b.pending]
  ELSE [b EXCEPT !.current = b.pending, !.confirms = @ + 1]

RollbackKeepsCandidate(b) ==  \* a mutant of RollbackFirmware: it stays pending
  [b EXCEPT !.current = IF b.lkg # None THEN b.lkg ELSE @, !.confirms = 0]

RollbackFirmware(b) ==
  [b EXCEPT !.current = IF b.lkg # None THEN b.lkg ELSE @,
            !.pending = None, !.confirms = 0]
=============================================================================
