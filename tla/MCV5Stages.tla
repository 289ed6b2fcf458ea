------------------------------ MODULE MCV5Stages ------------------------------
(***************************************************************************)
(* Three records in two prefix groups: a group whose rows share what is     *)
(* collected and remembered, and one of a single row.                       *)
(***************************************************************************)
EXTENDS V5Stages

CONSTANTS p1, p2, x, y

MCPrefixGroup == <<1, 1, 2>>
MCGroupOrder == (0 :> <<2, 1>>) @@ (1 :> <<1, 2>>)
MCRowShuffle == (0 :> <<2, 3, 1>>) @@ (1 :> <<1, 2, 3>>)

Outcome(native, bridge, matches, drift, risk, ood) ==
  [native |-> native, bridge |-> bridge, matches |-> matches, drift |-> drift,
   risk |-> risk, close |-> risk < 3, ood |-> ood, cost |-> 30 * risk,
   reuse |-> 60, fallback |-> 100]

Good == Outcome(1, 1, 16, 0, 1, FALSE)
Bad == Outcome(1, 0, 16, 0, 2, FALSE)
Far == Outcome(0, 1, 15, 3, 1, TRUE)

MCRanks == <<32, 64>>
MCSeeds == {17, 29}
Screened(low, high) ==
  [c \in {32, 64} \X MCSeeds |-> IF c[1] = 32 THEN low ELSE high]

MCOutcomes ==
  [fit_risk |-> {Good, Bad},
   calibrate |-> {Outcome(1, b, 16, 0, risk, FALSE) : b \in {0, 1}, risk \in 1..3},
   validate |-> {Good, Far},
   semantic_sealed |-> {Good, Bad, Far, Outcome(1, 1, 16, 1, 2, FALSE)},
   runtime_audit |-> {Good, Bad, [Bad EXCEPT !.fallback = 110]},
   evaluate_method_dev |-> {Screened(Good, Good), Screened(Good, Bad), Screened(Bad, Good)}]

\* For the run on long histories: four records of one group, and an agreement of 15
\* tokens in 16.
OneGroup == <<1, 1, 1, 1>>
OneGroupOrder == [e \in 0..1 |-> <<1>>]
FourRows == [e \in 0..1 |-> <<1, 2, 3, 4>>]
AgreementOutcomes == [runtime_audit |-> {Good, Outcome(1, 1, 15, 0, 1, FALSE)}]

MCRiskLimit == <<3, 4>>
MCAlpha == <<1, 4>>

Twins == Permutations({p1, p2}) \union Permutations({x, y})
===============================================================================
