------------------------------ MODULE MCIsolate ------------------------------
(***************************************************************************)
(* The module TLC runs for Isolate: who may call what in each scenario.    *)
(***************************************************************************)
EXTENDS IsolateProps, TLC

CONSTANTS MainCalls, GlobalCalls, OnceCalls

CallsOf == [v \in {Main} \cup Global \cup Once |->
              IF v = Main THEN MainCalls
              ELSE IF v \in Global THEN GlobalCalls ELSE OnceCalls]

Symmetry == Permutations(Once) \cup Permutations(Jobs) \cup Permutations(Global)
               \cup Permutations(Names \ {MainName})
=============================================================================
