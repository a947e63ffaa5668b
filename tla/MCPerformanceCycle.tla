------------------------- MODULE MCPerformanceCycle -------------------------
(***************************************************************************)
(* A small instance of PerformanceCycle: the person, a manager and a       *)
(* colleague; weights of which the colleague has a part, and weights of    *)
(* which it has none and the others do not share a hundred evenly; one     *)
(* competency, and one goal of the only period.                            *)
(***************************************************************************)
EXTENDS PerformanceCycle, TLC

CONSTANTS h1, h2, me, boss, pal

MCTypeOf == [e \in {me, boss, pal} |->
               CASE e = me -> "SELF" [] e = boss -> "MANAGER" [] OTHER -> "PEER"]

Weighting(self, manager, peer, client) ==
    [t \in {"SELF", "MANAGER", "PEER", "REPORT", "CLIENT"} |->
       CASE t = "SELF" -> self [] t = "MANAGER" -> manager [] t = "PEER" -> peer
         [] t = "CLIENT" -> client [] OTHER -> 0]

MCConfigurations == {[weights |-> Weighting(3000, 4000, 3000, 0), goals |-> 0, period |-> 0],
                     [weights |-> Weighting(10, 7990, 0, 2000), goals |-> 4000, period |-> 1]}

MCPeriodOf == [g \in {1} |-> 1]

MCCompetencies == [c \in {1} |-> [weight |-> NoWeight, required |-> TRUE, low |-> 2, high |-> 5]]

MCGoalWeights == [g \in {1} |-> NoWeight]

Symmetry == Permutations(Handlers)
=============================================================================
