------------------------------ MODULE CpeMatch ------------------------------
(***************************************************************************)
(* How an inventory is matched against NVD, as pure operators: cpe.go      *)
(* names the vendor, product and version of what a host runs, matcher.go   *)
(* holds them against the criteria of a CVE.                               *)
(*                                                                         *)
(* A name or a publisher is the set of the phrases the code looks for in   *)
(* it, with what sanitizeCPEField leaves of it.  A version is a sequence   *)
(* of parts: a part that begins with digits is their number, any other is  *)
(* a number from TextFrom up that keeps the order of the strings.          *)
(***************************************************************************)
EXTENDS Integers, Sequences, FiniteSetsExt

CONSTANTS
  Within,   \* pairs of names of which the first is part of the second
  TextFrom  \* the first of the parts that are not numbers

AnyValue == "*"
NoVersion == <<>>

(* The first rule that holds, as a chain of ifs picks it. *)
FirstRule(rules, Holds(_), otherwise) ==
  LET fit == {i \in DOMAIN rules : Holds(rules[i])} IN
  IF fit = {} THEN otherwise ELSE rules[Min(fit)].as

VendorRules ==
  << [publisher |-> "google",    name |-> {"google chrome"},             as |-> "google"],
     [publisher |-> "microsoft", name |-> {"microsoft edge", "visual studio"}, as |-> "microsoft"],
     [publisher |-> "mozilla",   name |-> {"firefox"},                   as |-> "mozilla"],
     [publisher |-> "adobe",     name |-> {"acrobat", "photoshop"},      as |-> "adobe"],
     [publisher |-> "oracle",    name |-> {"java", "virtualbox"},        as |-> "oracle"],
     [publisher |-> "cisco",     name |-> {"anyconnect"},                as |-> "cisco"],
     [publisher |-> "docker",    name |-> {"docker desktop"},            as |-> "docker"],
     [publisher |-> "python",    name |-> {"python 3"},                  as |-> "python"],
     [publisher |-> "7-zip",     name |-> {"7-zip"},                     as |-> "7-zip"],
     [publisher |-> "wireshark", name |-> {"wireshark"},                 as |-> "wireshark"],
     [publisher |-> "notepad++", name |-> {"notepad++"},                 as |-> "notepad-plus-plus"] >>

(* The publisher as it is, or the first word of the name, when no rule holds. *)
normalizeVendor(app) ==
  FirstRule(VendorRules,
            LAMBDA r : r.publisher \in app.publisher \/ r.name \cap app.name # {},
            IF app.maker # "" THEN app.maker ELSE app.firstWord)

ProductRules ==
  << [name |-> {"google chrome", "=chrome"},   as |-> "chrome"],
     [name |-> {"microsoft edge", "=edge"},    as |-> "edge"],
     [name |-> {"mozilla firefox", "=firefox"}, as |-> "firefox"],
     [name |-> {"acrobat reader"},             as |-> "acrobat_reader"],
     [name |-> {"7-zip"},                      as |-> "7-zip"],
     [name |-> {"wireshark"},                  as |-> "wireshark"],
     [name |-> {"notepad++"},                  as |-> "notepad\\+\\+"],
     [name |-> {"docker desktop"},             as |-> "docker_desktop"],
     [name |-> {"python"},                     as |-> "python"],
     [name |-> {"vlc"},                        as |-> "vlc_media_player"],
     [name |-> {"git"},                        as |-> "git"] >>

normalizeProduct(app) ==
  FirstRule(ProductRules, LAMBDA r : r.name \cap app.name # {}, app.title)

(* Only the leading numbers of a version count; no version is a wildcard. *)
normalizeVersion(version) ==
  LET text == {i \in DOMAIN version : version[i] >= TextFrom} IN
  IF text = {} \/ Min(text) = 1 THEN version ELSE SubSeq(version, 1, Min(text) - 1)

BuildCPEFromApp(app) ==
  [part |-> "a", vendor |-> normalizeVendor(app), product |-> normalizeProduct(app),
   version |-> normalizeVersion(app.version)]

OSRules ==
  << [name |-> "windows 11",  as |-> "windows_11"],
     [name |-> "windows 10",  as |-> "windows_10"],
     [name |-> "server 2022", as |-> "windows_server_2022"],
     [name |-> "server 2025", as |-> "windows_server_2025"],
     [name |-> "server 2019", as |-> "windows_server_2019"] >>

(* The build stands in for a version that is missing. *)
BuildCPEFromOS(os) ==
  [part |-> "o", vendor |-> "microsoft",
   product |-> FirstRule(OSRules, LAMBDA r : r.name \in os.name, "windows"),
   version |-> normalizeVersion(IF os.version = NoVersion THEN os.build ELSE os.version)]

(* The operating system first, then the applications that have a name.     *)
ExtractHostCPEs(host) ==
  <<BuildCPEFromOS(host.os)>> \o
  [i \in DOMAIN host.apps |-> BuildCPEFromApp(host.apps[i])]

-----------------------------------------------------------------------------
IsText(part) == part >= TextFrom

(* One part against another, 0 for one that is missing: it is the number 0 *)
(* beside a number and the empty string beside a text, below both.         *)
PartAt(version, i) == IF i \in DOMAIN version THEN version[i] ELSE 0

Order(a, b) == IF a < b THEN -1 ELSE IF a > b THEN 1 ELSE 0

(* Fault: the comparison ends with the shorter version. *)
CompareShorter(v, w) ==
  LET differ == {i \in DOMAIN v \cap DOMAIN w : v[i] # w[i]} IN
  IF differ = {} THEN 0 ELSE Order(v[Min(differ)], w[Min(differ)])

(* The first part in which they differ, up to the end of the longer one.   *)
CompareVersions(v, w) ==
  LET differ == {i \in DOMAIN v \cup DOMAIN w : PartAt(v, i) # PartAt(w, i)} IN
  IF differ = {} THEN 0 ELSE Order(PartAt(v, Min(differ)), PartAt(w, Min(differ)))

(* Every bound the criterion has, or else its own version.  A host whose   *)
(* version is not known satisfies any.                                     *)
checkVersionBounds(version, criterion) ==
  LET bounds == DOMAIN criterion \cap
                {"startIncluding", "startExcluding", "endIncluding", "endExcluding"}
      Against(bound) == CompareVersions(version, criterion[bound])
  IN \/ version = NoVersion
     \/ /\ bounds # {}
        /\ "startIncluding" \in bounds => Against("startIncluding") >= 0
        /\ "startExcluding" \in bounds => Against("startExcluding") > 0
        /\ "endIncluding" \in bounds => Against("endIncluding") <= 0
        /\ "endExcluding" \in bounds => Against("endExcluding") < 0
     \/ /\ bounds = {}
        /\ criterion.version = NoVersion \/ Against("version") = 0

(* Two vendors, or two products, match when one is part of the other.      *)
Alike(a, b) == AnyValue \in {a, b} \/ a = b \/ {<<a, b>>, <<b, a>>} \cap Within # {}

MatchesCPE(cpe, criterion) ==
  /\ AnyValue \in {criterion.part, cpe.part} \/ criterion.part = cpe.part
  /\ Alike(criterion.vendor, cpe.vendor)
  /\ Alike(criterion.product, cpe.product)
  /\ checkVersionBounds(cpe.version, criterion)
=============================================================================
