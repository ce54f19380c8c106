-------------------------- MODULE MC_ValidationRun --------------------------
(* Model-checking instance of the validation programs.  The classifier is an *)
(* arbitrary function that tells its training sets apart.                    *)
EXTENDS ValidationRun

MC_Sample(s) == s.event.t0 + 3 * s.event.outcome.label + 2 * Cardinality(DOMAIN s.weight)
MC_Proba(models, e) ==
    (MapThenSumSet(LAMBDA m : MapThenSumSet(MC_Sample, m), models) + 2 * e.t0 + e.name) % 5

MC_Grid == <<"narrow", "wide">>
MC_Folds == {<<3, 1>>, <<4, 2>>}

Series(xs) == [t \in Bars |-> xs[t + 1]]
MC_Positions ==
    {<<Series(<<1, 1, -1, -1, 0, 1, 1, 0>>), Series(<<-1, 0, 0, 1, 1, -1, -1, 1>>)>>,
     <<Series(<<0, 1, 0, 1, -1, -1, 1, 1>>), Series(<<0, -1, -1, 1, 0, -1, 0, 1>>)>>,
     <<Series(<<0, 0, 0, 0, 1, 1, 0, 0>>), Series(<<0, -1, -1, -1, 0, 0, 0, 0>>)>>}
MC_Prices ==
    {<<Series(<<0, 1, 2, 1, 0, 0, -1, 0>>), Series(<<0, 0, 1, 0, 0, -2, 0, 1>>)>>,
     <<Series(<<0, 0, 0, 2, 2, 0, 0, 1>>), Series(<<1, 0, -1, -1, 1, 0, 2, 2>>)>>}
MC_Versions == [positions : MC_Positions, prices : MC_Prices]
MC_Updates ==
    {v \in MC_Versions : v.positions[1][0] = 1 /\ v.prices[1][1] = 1}
=============================================================================
