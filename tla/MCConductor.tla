----------------------------- MODULE MCConductor ----------------------------
(* A builder and a test author, assembled in the order in which they are harvested
   (so that a harvest can reach a report before assemble has started every agent),
   and a reviewer and a validator. *)
EXTENDS Conductor

MCProducer == {"builder", "tester"}
MCGate == {"reviewer", "validator"}
MCRank == [r \in MCProducer \cup MCGate |->
    CASE r = "builder" -> 1 [] r = "reviewer" -> 2
      [] r = "tester" -> 3 [] r = "validator" -> 4]
MCConfigRank == [r \in MCProducer |-> IF r = "builder" THEN 1 ELSE 2]
=============================================================================
