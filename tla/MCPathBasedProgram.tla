-------------------------- MODULE MCPathBasedProgram --------------------------
(* Four customers.  The tours r c a d b and r c d a b take 9 and 11; half of   *)
(* r a c d a b and half of r d c b solve the relaxation with 8.  The edges of  *)
(* the former and of a tour make up r a c a d b, with which half of r d c b    *)
(* takes 7, but no router returns it: it has the two-cycle a c a.              *)
EXTENDS PathBasedProgram

MCVertices == {"r", "a", "b", "c", "d"}

Unit == 10000

rcadb  == {<<"r", "c", 0>>, <<"c", "a", 2>>, <<"a", "d", 3>>, <<"d", "b", 5>>, <<"b", "r", 6>>}
rcdab  == {<<"r", "c", 0>>, <<"c", "d", 2>>, <<"d", "a", 4>>, <<"a", "b", 6>>, <<"b", "r", 8>>}
racdab == {<<"r", "a", 0>>, <<"a", "c", 1>>, <<"c", "d", 2>>, <<"d", "a", 4>>, <<"a", "b", 6>>, <<"b", "r", 8>>}
racadb == {<<"r", "a", 0>>, <<"a", "c", 1>>, <<"c", "a", 2>>, <<"a", "d", 3>>, <<"d", "b", 5>>, <<"b", "r", 6>>}
rdcb   == {<<"r", "d", 0>>, <<"d", "c", 1>>, <<"c", "b", 3>>, <<"b", "r", 4>>}
rbcadb == {<<"r", "b", 0>>, <<"b", "c", 1>>, <<"c", "a", 2>>, <<"a", "d", 3>>, <<"d", "b", 5>>, <<"b", "r", 6>>}

MCEdges == [rbcadb |-> rbcadb, rcadb |-> rcadb, rcdab |-> rcdab, racdab |-> racdab, racadb |-> racadb, rdcb |-> rdcb]
MCPaths == DOMAIN MCEdges
MCCost == [rcadb |-> 9 * Unit, rcdab |-> 11 * Unit, racdab |-> 11 * Unit, racadb |-> 9 * Unit, rdcb |-> 5 * Unit,
           rbcadb |-> 12 * Unit]
MCClass == MCPaths \ {"racadb"}
MCSettings == [sparse : BOOLEAN, relaxation : {FALSE}] \cup {[sparse |-> FALSE, relaxation |-> TRUE]}
MCProveGap == [sparse \in BOOLEAN |-> IF sparse THEN 20 ELSE 400]
MCNodes ==
  {[forbidden |-> {}, required |-> {}],
   [forbidden |-> {<<"a", "c">>}, required |-> {}],
   [forbidden |-> {}, required |-> {<<"a", "c">>}]}
MCReducedCosts ==
  [rcdab  |-> {0},
   rcadb  |-> {-2 * Unit, -150, 0},
   racdab |-> {-8 * Unit, 0},
   rdcb   |-> {-8 * Unit, 0},
   racadb |-> {-8 * Unit, 0},
   rbcadb |-> {-8 * Unit, 0}]
=============================================================================
