----------------------------- MODULE Compliance -----------------------------
(***************************************************************************)
(* The compliance engine, apps/api/internal/compliance/: the evaluation of *)
(* a host's snapshot against a framework, and the repository that keeps    *)
(* the results and sums them up per tenant.  Evaluations run side by side  *)
(* and while rules are added; each call of the repository holds its lock.  *)
(* There is one tenant.  The built-in rules, and what a check means, are   *)
(* given by ComplianceRules.                                               *)
(***************************************************************************)
EXTENDS Collections

CONSTANTS
  Evaluation, \* calls of EvaluateHost under way at the same time
  CoHost,
  CoPayload,  \* per snapshot, what it holds
  BuiltinRules, \* the rules the repository begins with
  CustomRule, \* rules of another framework, added while the engine runs
  EvaluateExpression(_, _) \* whether a check passes on a payload

(* A rule's code stands for its ID, the key of r.rules. *)
ASSUME RulesAreIdentified ==
  \A r, q \in BuiltinRules \cup CustomRule : r.code = q.code => r = q

(* Few enough for a score of two decimals to tell on which side of a       *)
(* threshold the exact one lies.                                           *)
FewRules ==
  /\ IsFiniteSet(BuiltinRules \cup CustomRule)
  /\ Cardinality(BuiltinRules \cup CustomRule) < 2000

Framework == {r.framework : r \in BuiltinRules \cup CustomRule}

VARIABLES
  customRules, \* r.rules, those added to the built-in ones
  evaluations, \* r.evaluations: per host the rules and which of them passed
  hostScores,  \* r.hostScores: per host the score
  evaluating   \* per call of EvaluateHost, what it has computed

coVars == <<customRules, evaluations, hostScores, evaluating>>

NoEvaluation == [results |-> << >>]

CoInit ==
  /\ customRules = {}
  /\ evaluations = << >> /\ hostScores = << >>
  /\ evaluating = [e \in Evaluation |-> NoEvaluation]

(* SaveRule. *)
SaveRule(rule) ==
  /\ customRules' = customRules \cup {rule}
  /\ UNCHANGED <<evaluations, hostScores, evaluating>>

ListRulesByFramework(f) == {r \in BuiltinRules \cup customRules : r.framework = f}

-----------------------------------------------------------------------------
(* Scores are percentages to two decimals: here in hundredths.             *)
ScoreOf(passed, total) == (passed * 10000 + total \div 2) \div total

(* Thresholds, in hundredths. *)
Compliant == 9000
Degraded == 7000

StatusOf(score) ==
  IF score >= Compliant THEN "COMPLIANT"
  ELSE IF score >= Degraded THEN "DEGRADED" ELSE "NON_COMPLIANT"

(* The codes of the rules whose check passes on a snapshot.                *)
PassesOn == [s \in DOMAIN CoPayload |->
  LET passing == {r \in BuiltinRules \cup CustomRule : EvaluateExpression(r.check, CoPayload[s])}
  IN {r.code : r \in passing}]

(* EvaluateHost: takes a copy of the rules of the framework and evaluates  *)
(* them on the snapshot; a framework without rules is an error.            *)
EvaluateHost(e, h, s, f) ==
  LET rules == {r.code : r \in ListRulesByFramework(f)}
      passed == rules \cap PassesOn[s]
      score == ScoreOf(Cardinality(passed), Cardinality(rules))
  IN /\ evaluating[e] = NoEvaluation /\ rules # {}
     /\ evaluating' = [evaluating EXCEPT ![e] =
          [host |-> h,
           results |-> [snapshot |-> s, framework |-> f, rules |-> rules,
                       passed |-> passed],
           score |-> [framework |-> f, total |-> Cardinality(rules),
                      passed |-> Cardinality(passed), score |-> score,
                      status |-> StatusOf(score)]]]
     /\ UNCHANGED <<customRules, evaluations, hostScores>>

(* Fault: the score of a host is stored once. *)
SaveScoreOnce(h, results, score) ==
  /\ evaluations' = Put(evaluations, h, results)
  /\ hostScores' = IF h \in DOMAIN hostScores THEN hostScores ELSE Put(hostScores, h, score)

(* SaveEvaluations, under its lock. *)
SaveEvaluations(h, results, score) ==
  /\ evaluations' = Put(evaluations, h, results)
  /\ hostScores' = Put(hostScores, h, score)

EvaluationIsSaved(e) ==
  /\ evaluating[e] # NoEvaluation
  /\ SaveEvaluations(evaluating[e].host, evaluating[e].results, evaluating[e].score)
  /\ evaluating' = [evaluating EXCEPT ![e] = NoEvaluation]
  /\ UNCHANGED customRules

CoNext ==
  \/ \E rule \in CustomRule : SaveRule(rule)
  \/ \E e \in Evaluation :
       \/ \E h \in CoHost, s \in DOMAIN CoPayload, f \in Framework : EvaluateHost(e, h, s, f)
       \/ EvaluationIsSaved(e)

CoSpec == CoInit /\ [][CoNext]_coVars

-----------------------------------------------------------------------------
(* GetTenantSummary: the hosts whose score is of the framework.            *)
HostsIn(f) == {h \in DOMAIN hostScores : hostScores[h].framework = f}

TenantSummary(f) ==
  LET Between(low, high) ==
        Cardinality({h \in HostsIn(f) : low <= hostScores[h].score /\ hostScores[h].score < high})
  IN [total |-> Cardinality(HostsIn(f)),
      compliant |-> Between(Compliant, 10001),
      degraded |-> Between(Degraded, Compliant),
      nonCompliant |-> Between(0, Degraded)]

(* The dashboard's three views agree, with evaluations of one host against *)
(* several frameworks side by side and rules added between their steps:    *)
(* the score of a host counts its own results, its status is the exact     *)
(* ratio and not the rounded one, and every host is counted once, in the   *)
(* summary of the framework it was last evaluated against.                 *)
ScoresMatchResults ==
  /\ \A h \in DOMAIN hostScores :
       LET passed == Cardinality(evaluations[h].passed)
           total == Cardinality(evaluations[h].rules)
       IN /\ hostScores[h].passed = passed /\ hostScores[h].total = total
          /\ hostScores[h].status =
               (IF 10 * passed >= 9 * total THEN "COMPLIANT"
                ELSE IF 10 * passed >= 7 * total THEN "DEGRADED" ELSE "NON_COMPLIANT")
  /\ \A f \in Framework :
       LET own == {h \in DOMAIN evaluations : evaluations[h].framework = f}
           Count(status) == Cardinality({h \in own : hostScores[h].status = status})
       IN TenantSummary(f) =
            [total |-> Cardinality(own), compliant |-> Count("COMPLIANT"),
             degraded |-> Count("DEGRADED"), nonCompliant |-> Count("NON_COMPLIANT")]
=============================================================================
