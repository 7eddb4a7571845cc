----------------------------- MODULE MCAnalysis -----------------------------
(***************************************************************************)
(* The snapshots of the hosts and what the control plane works out from    *)
(* them: the retention of the snapshots, drift and its alerts, the         *)
(* vulnerabilities found in an inventory, and the compliance of a host.    *)
(* They share no state; each behaviour is one of a single part, and the    *)
(* others stay as they began.                                              *)
(***************************************************************************)
EXTENDS MCRetention, DriftAlerts, Findings, ComplianceRules

CONSTANT e1

(* Drift: a laptop whose disk is encrypted and whose VBS runs, or neither. *)
Unreadable == [p \in Switches \cup Statuses \cup OnlyIfKnown |-> ""]
SnapshotOf(values) == values @@ Unreadable @@ [admins |-> {"a"}, adapters |-> {"n"}, apps |-> {"x"}]

MCPayload ==
  [safe |-> SnapshotOf(("bitlocker.protection_status" :> "1") @@ ("vbs_status" :> "Running")),
   open |-> SnapshotOf(("bitlocker.protection_status" :> "0") @@ ("vbs_status" :> ""))]

MCAssetClass == [h1 |-> "Laptop"]

AlertRuleOf(severity, class, category, window, active) ==
  [severity |-> severity, assetClass |-> class, category |-> category,
   window |-> window, active |-> active]

MCAlertRule ==
  [r1 |-> AlertRuleOf("", "Laptop", "SecurityBaseline", 1, TRUE),
   r2 |-> AlertRuleOf("CRITICAL", "", "", 2, TRUE),
   r3 |-> AlertRuleOf("", "", "", 0, FALSE)]

(* Findings: a host before and after an update of its browser. *)
MCWithin == {<<"chrome", "chrome_beta">>}

MCHost(version) ==
  [os |-> [name |-> {"windows 11"}, version |-> << >>, build |-> <<2>>],
   apps |-> << [publisher |-> {}, name |-> {"google chrome"}, maker |-> "",
                firstWord |-> "google", title |-> "google_chrome", version |-> version] >>]

MCInventory == {MCHost(<<1>>), MCHost(<<1, 2>>)}

Criterion(kind, vendor, product, version) ==
  [part |-> kind, vendor |-> vendor, product |-> product, version |-> version]

MCFeed ==
  [chrome_old |->
     [criteria |-> << [endExcluding |-> <<1, 2>>] @@ Criterion("a", "google", "chrome", << >>) >>,
      severity |-> "HIGH"],
   win |->
     [criteria |-> << Criterion("o", "microsoft", "windows_11", <<2, 0>>),
                      [startIncluding |-> <<1, 0, 1>>, endExcluding |-> <<2>>]
                        @@ Criterion("a", "google", "chrome", << >>) >>,
      severity |-> "MEDIUM"]]

ASSUME MCDataIsPlain == PlainData

(* Compliance: every rule met, refused or unreadable, and two mixtures.    *)
MCNumberIn == ("0" :> 0) @@ ("1" :> 1) @@ ("2" :> 2) @@ ("2.0" :> 2)

GoodValue(r) ==
  CASE r.op = "in" -> r.operand.nodes[1]
    [] r.op = "!=" -> List(<<String("x")>>)
    [] OTHER -> r.operand

BadValue(r) ==
  CASE r.op = "==" /\ r.operand.type = "bool" -> Bool(~r.operand.bool)
    [] r.op = "==" -> Number(2)
    [] r.op = "in" -> String("0")
    [] r.op = "<=" -> Number(8)
    [] r.op = "!=" -> List(<< >>)

Read(Value(_), rules) ==
  [p \in {r.path : r \in rules} |-> Value(CHOOSE r \in rules : r.path = p)]

MCCoPayload ==
  [good  |-> Read(GoodValue, GetBuiltinCISWindows11Rules),
   bad   |-> Read(BadValue, GetBuiltinCISWindows11Rules),
   blank |-> << >>,
   mixed |-> Read(GoodValue, GetBuiltinCISWindows11Rules \ AccessRules) @@ Read(BadValue, AccessRules),
   half  |-> Read(GoodValue, GetBuiltinCISWindows11Rules \ FirewallRules)]

(* A rule of another framework, with the other operators. *)
VBSPath == "processor.vbs_status"
MCCustomRule ==
  {[Rule("n1", VBSPath, "in", Strings(<<"Running", "1", "2">>)) EXCEPT
      !.framework = "nist",
      !.check = Op("and", << Op("!", << Op("==", <<Var(VBSPath), Null>>) >>),
                             Op("or", << Op("==", <<Var(VBSPath), String("Running")>>),
                                         Op(">", <<Var(VBSPath), Number(0)>>) >>) >>)]}

ASSUME MCRulesAreFew == FewRules

-----------------------------------------------------------------------------
(* The hosts of Retention, the calls and the scans take no part in any      *)
(* order or choice.                                                        *)
MCSymmetry == Permutations(MCHosts) \cup Permutations(Call) \cup Permutations(Scan)

VARIABLE part

AnalysisInit ==
  /\ Init /\ DaInit /\ FiInit /\ CoInit
  /\ part \in {"retention", "drift", "findings", "compliance"}

AnalysisNext ==
  /\ UNCHANGED part
  /\ \/ part = "retention" /\ Next /\ UNCHANGED <<daVars, fiVars, coVars>>
     \/ part = "drift" /\ DaNext /\ UNCHANGED <<vars, fiVars, coVars>>
     \/ part = "findings" /\ FiNext /\ UNCHANGED <<vars, daVars, coVars>>
     \/ part = "compliance" /\ CoNext /\ UNCHANGED <<vars, daVars, fiVars>>

AnalysisSpec == AnalysisInit /\ [][AnalysisNext]_<<vars, daVars, fiVars, coVars, part>>
=============================================================================
