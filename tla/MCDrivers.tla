----------------------------- MODULE MCDrivers -----------------------------
(***************************************************************************)
(* An instance of Drivers for TLC: kernels 1 and 2; releases 1 and 2 carry *)
(* kernel 1, release 3 kernel 2 with its driver, release 4 kernel 2 with   *)
(* the driver of kernel 1 only, release 5 kernel 2 with a driver that has  *)
(* the name of kernel 1's.  Elsewhere the GPU driver of each kernel is a   *)
(* bundle of its own; two bundles extend the same directory.               *)
(***************************************************************************)
EXTENDS Drivers

MCReleases == 1..5
MCRootOf == [r \in MCReleases |-> r]
MCKernelOf == [r \in MCReleases |-> IF r \in {1, 2} THEN 1 ELSE 2]

Driver(n, v, kernel) == [name |-> n, ver |-> v, gpu |-> TRUE, kmin |-> kernel,
                         kmax |-> kernel, abi |-> kernel, target |-> "none", over |-> 0]
Overlay(n, v, o) == [name |-> n, ver |-> v, gpu |-> FALSE, kmin |-> 0, kmax |-> 0,
                     abi |-> 0, target |-> "apps", over |-> o]

MCOffers == [r \in MCReleases |->
  CASE r = 1 -> {}
    [] r = 2 -> {Driver(1, 2, 1), Overlay(4, 2, 4)}
    [] r = 3 -> {Driver(1, 2, 1), Driver(2, 1, 2)}
    [] r = 4 -> {Driver(1, 3, 1)}
    [] r = 5 -> {Driver(1, 3, 2)}]
MCProvided == {Driver(1, 1, 1), Overlay(3, 1, 3), Overlay(4, 1, 3)}
MCBuilds == UNION {MCOffers[r] : r \in MCReleases} \cup MCProvided
MCBaseVersion == [r \in MCReleases |->
  CASE r = 1 -> [t \in {"apps"} |-> 0]
    [] r = 2 -> [t \in {"apps"} |-> 1]
    [] r = 3 -> [t \in {"apps"} |-> 3]
    [] r \in {4, 5} -> [t \in {} |-> 0]]
=============================================================================
