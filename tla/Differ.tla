------------------------------- MODULE Differ -------------------------------
(***************************************************************************)
(* The difference of two host snapshots, apps/api/internal/drift/differ.go *)
(* as pure operators.  A snapshot is a function from the properties that   *)
(* are compared to their values: strings, "" where the collector could not *)
(* read one, and sets of strings for the three lists.  The lists are       *)
(* compared as sets; the text of an event's values is left out.            *)
(***************************************************************************)
EXTENDS Collections

(* The scalar properties, in the order they are compared, by category.     *)
SecurityBaseline ==
  << "bitlocker.protection_status", "bitlocker.encryption_method",
     "defender.antivirus_enabled", "defender.realtime_protection_enabled",
     "defender.tamper_protection_enabled", "defender.behavior_monitor_enabled",
     "smb1_enabled", "lsa_protection_enabled", "credential_guard_running" >>

FirewallProfiles ==
  << "firewall.domain.enabled", "firewall.domain.default_inbound",
     "firewall.private.enabled", "firewall.private.default_inbound",
     "firewall.public.enabled", "firewall.public.default_inbound" >>

Firmware == << "secure_boot_enabled", "uefi_mode", "bios_version" >>
TPM == << "tpm.present", "tpm.is_enabled" >>
Processor == << "vbs_status", "hvci_status" >>
Access == << "guest_account_disabled" >>
Hardware == << "memory.total_capacity_bytes", "storage.disk_count" >>

Elements(seq) == {seq[i] : i \in DOMAIN seq}

Statuses == Elements(Processor)
Inbound == {"firewall.domain.default_inbound", "firewall.private.default_inbound",
            "firewall.public.default_inbound"}

(* A change of these is an event only if the earlier value could be read.  *)
OnlyIfKnown ==
  Inbound \cup Elements(Hardware) \cup {"bitlocker.encryption_method", "bios_version"}

(* The switches: the value that protects, and ...                          *)
Switches ==
  Elements(SecurityBaseline \o FirewallProfiles \o Firmware \o TPM \o Access) \ OnlyIfKnown

Safe(property) ==
  CASE property = "bitlocker.protection_status" -> "1"
    [] property = "smb1_enabled" -> "false"
    [] OTHER -> "true"

(* The booleans a snapshot may leave out; it always has the others. *)
Optional ==
  {"defender.antivirus_enabled", "defender.realtime_protection_enabled",
   "defender.tamper_protection_enabled", "defender.behavior_monitor_enabled",
   "tpm.is_enabled", "guest_account_disabled"}

(* ... what stands for one that could not be read: boolVal, strVal and     *)
(* getBitLockerStatus, or the zero of a boolean that is decoded from none. *)
Unread(property) ==
  CASE property = "bitlocker.protection_status" -> "0"
    [] property = "vbs_status" -> "Running"
    [] property = "hvci_status" -> "Enabled"
    [] property \in Optional -> "true"
    [] property \in Switches \ (Optional \cup {"bitlocker.protection_status"}) -> "false"
    [] OTHER -> ""

ValueOf(snapshot, property) ==
  IF snapshot[property] = "" THEN Unread(property) ELSE snapshot[property]

-----------------------------------------------------------------------------
(* A switch that leaves its safe value is critical, but for the guest      *)
(* account; any other move of it is information.                           *)
SwitchSeverity(property, old, new) ==
  IF old # Safe(property) THEN "INFO"
  ELSE IF property = "guest_account_disabled" THEN "WARNING" ELSE "CRITICAL"

(* VBS and HVCI: critical from the state that stands for it to disabled.   *)
StatusSeverity(property, old, new) ==
  IF old \in {Unread(property), "1", "2"} /\ new \in {"Disabled", "0"}
    THEN "CRITICAL" ELSE "WARNING"

(* Inbound traffic: critical from Block to Allow. *)
InboundSeverity(old, new) ==
  IF old = "Block" /\ new = "Allow" THEN "CRITICAL" ELSE "INFO"

Severity(property, old, new) ==
  CASE property \in Switches -> SwitchSeverity(property, old, new)
    [] property \in Statuses -> StatusSeverity(property, old, new)
    [] property \in Inbound -> InboundSeverity(old, new)
    [] property = "bitlocker.encryption_method" ->
         IF new = "None" THEN "CRITICAL" ELSE "WARNING"
    [] OTHER -> "WARNING"

(* addEvent *)
Event(category, property, severity, old, new) ==
  [category |-> category, property |-> property, severity |-> severity,
   baseline |-> old, current |-> new]

(* The events of the scalar properties of one category. *)
Changes(category, properties, prev, new) ==
  LET Differs(p) == /\ ValueOf(prev, p) # ValueOf(new, p)
                    /\ p \in OnlyIfKnown => ValueOf(prev, p) # ""
      changed == Filtered(properties, {i \in DOMAIN properties : Differs(properties[i])})
  IN [i \in DOMAIN changed |->
        LET p == changed[i] IN
        Event(category, p, Severity(p, ValueOf(prev, p), ValueOf(new, p)),
              ValueOf(prev, p), ValueOf(new, p))]

When(condition, event) == IF condition THEN <<event>> ELSE << >>

(* An administrator added is critical; one removed counts if none is added. *)
AdminChanges(prev, new) ==
  LET added == new.admins \ prev.admins  removed == prev.admins \ new.admins IN
  When(added # {}, Event("UserAccess", "admins.added", "CRITICAL", prev.admins, new.admins)) \o
  When(added = {} /\ removed # {},
       Event("UserAccess", "admins.removed", "INFO", prev.admins, new.admins))

AdapterChanges(prev, new) ==
  When(new.adapters \ prev.adapters # {},
       Event("Hardware", "network.adapters", "WARNING", prev.adapters, new.adapters))

(* Software: a change of version is one uninstalled and one installed.     *)
SoftwareChanges(prev, new) ==
  When(new.apps \ prev.apps # {},
       Event("Software", "applications.installed", "INFO", {}, new.apps \ prev.apps)) \o
  When(prev.apps \ new.apps # {},
       Event("Software", "applications.uninstalled", "INFO", prev.apps \ new.apps, {}))

(* DiffSnapshots, when there is an earlier snapshot; equal ones, whose     *)
(* hashes are equal, have no events.                                       *)
DiffSnapshots(prev, new) ==
  Changes("SecurityBaseline", SecurityBaseline \o FirewallProfiles, prev, new)
    \o Changes("Firmware", Firmware, prev, new)
    \o Changes("TPM", TPM, prev, new)
    \o Changes("Processor", Processor, prev, new)
    \o AdminChanges(prev, new)
    \o Changes("UserAccess", Access, prev, new)
    \o Changes("Hardware", Hardware, prev, new)
    \o AdapterChanges(prev, new)
    \o SoftwareChanges(prev, new)
=============================================================================
