---------------------------- MODULE MCRuleEngine ----------------------------
(* RuleEngine for TLC: three failures within two units, and two failures   *)
(* followed by a success within two units; reloads that lower the counts   *)
(* add a step or disable a rule.                                           *)
EXTENDS RuleEngine, TLC

Rules(threshold, failures) ==
    [enabled |-> {"threshold", "sequence"}, kinds |-> {"failure"},
     threshold |-> threshold, window |-> 2,
     steps |-> << [kinds |-> {"failure"}, count |-> failures],
                  [kinds |-> {"success"}, count |-> 0] >>,
     seqWindow |-> 2]

Old == Rules(3, 2)
Stricter == Rules(2, 1)
Longer == [Old EXCEPT !.enabled = {"sequence"},
                      !.steps = Append(@, [kinds |-> {"success"}, count |-> 1])]
Single == [Old EXCEPT !.enabled = {"threshold"}]
FourRuleSets == {Old, Stricter, Longer, Single}
WorkerSymmetry == Permutations(Workers)
=============================================================================
