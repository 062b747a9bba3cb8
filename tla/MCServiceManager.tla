-------------------------- MODULE MCServiceManager --------------------------
(***************************************************************************)
(* Small instances of ServiceManager: the request bodies and the symmetry. *)
(***************************************************************************)
EXTENDS ServiceManager, TLC

Body(n, lo, hi, auto, image) ==
  [replicas |-> n, min |-> lo, max |-> hi, auto |-> auto,
   port |-> TRUE, image |-> image, sub |-> ""]

\* One body: the rows differ by Scale and SetSubdomain only.
MCOneBody == {Body(1, 0, 0, FALSE, "v1")}

\* An update that changes the image and grows or shrinks the service by two.
MCRollBodies == {Body(1, 0, 0, FALSE, "v1"), Body(3, 0, 0, FALSE, "v2")}

\* A service of one replica and one of two, with another image.
MCRecoveryBodies == {Body(1, 0, 0, FALSE, "v1"), Body(2, 0, 0, FALSE, "v2")}

\* Created below the minimum, and not autoscaled at all.
MCAutoBodies == {Body(1, 2, 3, TRUE, "v1"), Body(2, 0, 0, FALSE, "v1")}

\* The requests are interchangeable; Main is not.
MCSymmetry == Permutations(Proc \ {Main})
=============================================================================
