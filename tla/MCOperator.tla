----------------------------- MODULE MCOperator -----------------------------
(* Small instances of Operator for TLC. *)
EXTENDS Operator

CONSTANTS p1, small

MigPool == [Mode |-> "mig", Profiles |-> {small}]
MCPoolSpecs == {MigPool,
                [Mode |-> "mig", Profiles |-> {small, UnknownProfile}],
                [Mode |-> "mig", Profiles |-> {}],
                [Mode |-> "exclusive", Profiles |-> {}]}

Ask(valid, pool, mode, profile, n) ==
  [Valid |-> valid,
   Req |-> [PoolName |-> pool, Mode |-> mode, MIGProfile |-> profile, GPUCount |-> n]]

OneInstance == Ask(TRUE, p1, "mig", small, 1)
MCSvcSpecs == {OneInstance,
               Ask(FALSE, p1, "mig", small, 1),
               Ask(TRUE, p1, "exclusive", small, 1)}
MCOnePoolSpec == {MigPool}
MCOneSvcSpec == {OneInstance}
=============================================================================
