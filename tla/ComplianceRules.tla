-------------------------- MODULE ComplianceRules --------------------------
(***************************************************************************)
(* The built-in rules of the compliance engine, rules_cis.go in            *)
(* apps/api/internal/compliance/, and what their checks mean: values for   *)
(* the constants BuiltinRules and EvaluateExpression of Compliance.        *)
(***************************************************************************)
EXTENDS JsonLogic, Compliance

Rule(code, path, op, operand) ==
  [framework |-> "cis_win11_v2.0", code |-> code, path |-> path, op |-> op,
   operand |-> operand, check |-> Op(op, <<Var(path), operand>>)]

True == Bool(TRUE)
Strings(seq) == Array([i \in DOMAIN seq |-> String(seq[i])])

EncryptionRules == {
  Rule("18.9.15.1", "bitlocker.protection_status", "==", Number(1)),
  Rule("18.9.15.2", "bitlocker.encryption_method", "in",
       Strings(<<"XtsAes256", "Aes256", "XtsAes128">>)),
  Rule("18.9.15.3", "bitlocker.lock_status", "==", Number(0)),
  Rule("18.9.8.1", "smb1_enabled", "==", Bool(FALSE)),
  Rule("18.9.10.1", "lsa_protection_enabled", "==", True) }

VBSRules == {
  Rule("18.9.11.1", "processor.vbs_status", "in", Strings(<<"Running", "1", "2">>)),
  Rule("18.9.11.2", "processor.hvci_status", "in", Strings(<<"Enabled", "1", "2">>)),
  Rule("18.9.11.3", "credential_guard_running", "==", True) }

DefenderRules == {
  Rule("18.9.84.1", "defender.antivirus_enabled", "==", True),
  Rule("18.9.84.2", "defender.realtime_protection_enabled", "==", True),
  Rule("18.9.84.3", "defender.behavior_monitor_enabled", "==", True),
  Rule("18.9.84.4", "defender.ioav_protection_enabled", "==", True),
  Rule("18.9.84.5", "defender.tamper_protection_enabled", "==", True),
  Rule("18.9.84.6", "defender.quick_scan_age_days", "<=", Number(7)) }

FirewallRules == {
  Rule("9.1.1", "firewall.domain.enabled", "==", True),
  Rule("9.1.2", "firewall.domain.default_inbound", "in", Strings(<<"Block", "BlockInbound">>)),
  Rule("9.2.1", "firewall.private.enabled", "==", True),
  Rule("9.2.2", "firewall.private.default_inbound", "in", Strings(<<"Block", "BlockInbound">>)),
  Rule("9.3.1", "firewall.public.enabled", "==", True),
  Rule("9.3.2", "firewall.public.default_inbound", "in", Strings(<<"Block", "BlockInbound">>)) }

FirmwareRules == {
  Rule("18.1.1.1", "firmware_bios.secure_boot_enabled", "==", True),
  Rule("18.1.1.2", "firmware_bios.uefi_mode", "==", True),
  Rule("18.1.2.1", "tpm.present", "==", True),
  Rule("18.1.2.2", "tpm.spec_version", "in", Strings(<<"2.0", "2.0.0">>)),
  Rule("18.3.1.1", "processor.virtualization_firmware_enabled", "==", True) }

AccessRules == {
  Rule("2.3.1.1", "user_access.guest_account_disabled", "==", True),
  Rule("2.3.1.5", "user_access.local_administrators", "!=", Array(<< >>)),
  Rule("18.9.58.1", "user_access.privileged_groups", "!=", Array(<< >>)) }

GetBuiltinCISWindows11Rules ==
  EncryptionRules \cup VBSRules \cup DefenderRules \cup FirewallRules
    \cup FirmwareRules \cup AccessRules

-----------------------------------------------------------------------------
(* What a rule's expected value says, read without JSONLogic.              *)
Meets(rule, value) ==
  CASE rule.op = "==" -> value = rule.operand
    [] rule.op = "in" -> \E i \in DOMAIN rule.operand.nodes : value = rule.operand.nodes[i]
    [] rule.op = "<=" -> value.type = "number" /\ value.number <= rule.operand.number
    [] rule.op = "!=" -> value # List(<< >>)

Meeting == [s \in DOMAIN CoPayload |->
  LET meeting == {r \in BuiltinRules \cup CustomRule :
                    Meets(r, resolveVar(CoPayload[s], r.path))}
  IN {r.code : r \in meeting}]

(* The checks mean what they say: through all coercions of JSONLogic each  *)
(* rule passes exactly on the values its expected value names, so a value  *)
(* that could not be read is never compliant (but for the two lists, whose *)
(* rules only refuse an empty one).                                        *)
ChecksMeanWhatTheySay ==
  \A h \in DOMAIN evaluations :
    LET e == evaluations[h] IN e.passed = e.rules \cap Meeting[e.snapshot]
=============================================================================
