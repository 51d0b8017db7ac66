------------------------------- MODULE MCCdcl -------------------------------
(* Instances of Cdcl for TLC. *)
EXTENDS Cdcl

P(v) == [var |-> v, val |-> "true"]
N(v) == [var |-> v, val |-> "false"]

(* Small inputs over three variables: empty, unit, repeated and complementary
   literals, satisfiable and unsatisfiable, with and without level-0 conflicts. *)
MCSmall == {
    << >>,
    << <<>> >>,
    << <<P(0), N(0)>>, <<N(0), P(1)>>, <<N(1), N(1)>> >>,
    << <<P(0)>>, <<N(0)>> >>,
    << <<P(0)>>, <<P(0)>>, <<N(0), P(1)>>, <<N(0), N(1), P(2)>>, <<N(2), N(1)>> >>,
    << <<N(0), N(0), P(1)>>, <<N(0), N(1)>>, <<P(0), P(2)>>, <<N(2), P(1), P(0)>> >>,
    << <<P(0), P(1)>>, <<P(0), N(1)>>, <<N(0), P(1)>>, <<N(0), N(1)>> >>,
    << <<N(0), N(1), P(2)>>, <<N(0), N(1), N(2)>>, <<N(0), P(1), P(2)>>,
       <<P(0), N(1), P(2)>>, <<P(0), P(1), N(2)>> >> }

(* Every choice of three to five of these clauses: the polarities of a pair,
   corners of a cube, a tautology and a repeated literal. *)
MCPool == << <<P(0), P(1)>>, <<P(0), N(1)>>, <<N(0), N(1)>>,
             <<N(2), N(1), N(0)>>, <<P(2), N(0), P(1)>>, <<N(2), N(0), P(1)>>,
             <<P(2), P(1), N(2)>>, <<N(2), N(2), P(0)>> >>
MCChoices(n) == {f \in [1 .. n -> DOMAIN MCPool] : \A i \in 1 .. n - 1 : f[i] < f[i + 1]}
MCAll == UNION {{[i \in 1 .. n |-> MCPool[f[i]]] : f \in MCChoices(n)} : n \in 3 .. 5}

MCSmallAll == MCSmall \cup MCAll

(* Conflicts three levels deep: learnt clauses of LBD 3 pile up past the limit,
   so a restart reduces the store.  The last two clauses make solve learn a unit
   after them, whose index the reduction shifts. *)
MCDeep == { << <<N(0), N(1), N(2), P(3)>>, <<N(0), N(1), N(2), N(3)>>,
               <<N(0), N(1), N(4), P(3)>>, <<N(0), N(1), N(4), N(3)>>,
               <<P(4), P(3)>>, <<P(4), N(3)>> >> }

(* All of them over the five variables of the deep input: the units settle the
   two variables the others do not mention. *)
MCPadded == {f \o << <<P(3)>>, <<P(4)>> >> : f \in MCSmallAll} \cup {<< >>, << <<>> >>}
MCInputs == MCPadded \cup MCDeep
=============================================================================
