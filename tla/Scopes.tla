------------------------------- MODULE Scopes -------------------------------
(***************************************************************************)
(* Where in the config a call works.  Each tool takes some selectors (a    *)
(* vsys, shared, a device group, a template, ...), and the resolver of its *)
(* family makes one place of them, or refuses the call, depending on       *)
(* whether the server talks to a firewall or to Panorama (resolveLocation  *)
(* of tools.go and the resolvers of the *_scope.go files).                 *)
(***************************************************************************)
EXTENDS Naturals, Sequences

CONSTANTS
    Families,   \* where resources can be: the at of a schema
    Refused     \* no place: the handler answers with an error

VARIABLES
    panorama,   \* what RetrieveSystemInfo found at startup
    asked,      \* the last call's family, its selectors and its rulebase
    place       \* where it works, or Refused

scopeVars == <<panorama, asked, place>>

LocationFamilies == {"object", "profile", "rule"}
DeviceFamilies == {"device", "device-vsys", "device-shared", "device-panorama"}
NetFamilies == {"net", "template", "panorama-template", "system"}
Templates == {"template", "template_stack"}

(* The families are those with a resolver.                                 *)
ASSUME FamiliesAssumption ==
    Families \subseteq
        LocationFamilies \cup DeviceFamilies \cup NetFamilies
        \cup {"scoped", "mgt", "below", "zone", "certificate", "panorama"}

(* The selectors the inputs of a family have.                              *)
Selectors(f) ==
    CASE f \in LocationFamilies -> {"vsys", "shared", "device_group"}
      [] f \in DeviceFamilies ->
            {"shared", "panorama", "vsys", "template_vsys"} \cup Templates
      [] f = "scoped" -> {"shared", "panorama", "template_vsys"} \cup Templates
      [] f = "mgt" -> {"panorama"} \cup Templates
      [] f \in NetFamilies -> Templates
      [] f = "below" -> {"parent"} \cup Templates
      [] f = "zone" -> {"vsys", "template"}
      [] f = "certificate" -> {"vsys"} \cup Templates
      [] f = "panorama" -> {}
Rulebases(f) ==
    IF f \in LocationFamilies THEN {"none", "pre", "post", "other"} ELSE {"none"}
Asks(f) ==
    [family : {f}, given : SUBSET Selectors(f), rulebase : Rulebases(f)]

(* A place: its tier, the selectors that named it, and of a Panorama rule  *)
(* the rulebase.                                                           *)
At(tier, by) == [tier |-> tier, by |-> by, rulebase |-> "none"]

ASSUME RefusedAssumption ==
    Refused \notin
        [tier : {"firewall"} \cup Templates, by : SUBSET Templates, rulebase : {"none"}]

(* The arms of a switch: the first whose condition holds is taken.         *)
Arm(when, then) == [when |-> when, then |-> then]
Switch(arms) ==
    arms[CHOOSE i \in DOMAIN arms :
            arms[i].when /\ \A j \in 1..(i - 1) : ~arms[j].when].then

-----------------------------------------------------------------------------
(* Objects, profiles without a vsys location, and rules (resolveLocation). *)
normalizeRulebase(rb) == IF rb = "none" THEN "pre" ELSE rb

resolveLocation(a) ==
    LET given == a.given
        rules == a.family = "rule"
        noVsys == a.family = "profile"
        InRules(tier, by) ==
            IF rules THEN [At(tier, by) EXCEPT !.rulebase = normalizeRulebase(a.rulebase)]
            ELSE At(tier, by)
    IN Switch(<<
        Arm(rules /\ a.rulebase = "other", Refused),
        Arm(~rules /\ a.rulebase # "none", Refused),
        Arm("device_group" \in given /\ ~panorama, Refused),
        Arm("device_group" \in given, InRules("device_group", {"device_group"})),
        Arm("shared" \in given /\ rules /\ ~panorama, Refused),
        Arm("shared" \in given, InRules("shared", {"shared"})),
        Arm("vsys" \in given /\ (panorama \/ noVsys), Refused),
        Arm("vsys" \in given, At("vsys", {"vsys"})),
        Arm(panorama, InRules("shared", {})),
        Arm(noVsys, At("shared", {})),
        Arm(TRUE, At("vsys", {}))>>)

-----------------------------------------------------------------------------
(* The rules about templates that several resolvers share.                 *)
validTemplates(given) ==
    /\ ~(Templates \subseteq given)
    /\ "template_vsys" \in given => given \cap Templates # {}
noTemplateAndPanorama(given) == ~("panorama" \in given /\ given \cap Templates # {})
noSharedAndPanorama(given) == ~({"shared", "panorama"} \subseteq given)

templateTier(given) ==
    At(IF "template" \in given THEN "template" ELSE "template_stack",
       given \cap (Templates \cup {"template_vsys"}))

(* Which tiers of its own a device family has; the others' constructors    *)
(* are nil.                                                                *)
Has(f, tier) ==
    CASE tier = "shared" -> f \in {"device", "device-shared"}
      [] tier = "panorama" -> f # "device-shared"
      [] tier = "vsys" -> f # "device-panorama"

(* Mutant: a template may be named together with panorama.                 *)
validDeviceTemplateFirst(given) == validTemplates(given) /\ noSharedAndPanorama(given)

validDeviceScope(given) ==
    /\ validTemplates(given)
    /\ noSharedAndPanorama(given)
    /\ noTemplateAndPanorama(given)

resolvePanoramaDeviceScope(f, given) == Switch(<<
    Arm("vsys" \in given, Refused),
    Arm(given \cap Templates # {}, templateTier(given)),
    Arm("panorama" \in given /\ Has(f, "panorama"), At("panorama", {"panorama"})),
    Arm("panorama" \in given, Refused),
    Arm("shared" \in given /\ Has(f, "shared"), At("shared", {"shared"})),
    Arm(TRUE, Refused)>>)

resolveDeviceScope(f, given) == Switch(<<
    Arm(~validDeviceScope(given), Refused),
    Arm(panorama, resolvePanoramaDeviceScope(f, given)),
    Arm(given \cap ({"panorama"} \cup Templates) # {}, Refused),
    Arm("shared" \in given /\ Has(f, "shared"), At("shared", {"shared"})),
    Arm("shared" \in given \/ ~Has(f, "vsys"), Refused),
    Arm(TRUE, At("vsys", given \cap {"vsys"}))>>)

(* SSL/TLS and certificate profiles.                                       *)
resolveProfileScope(given) == Switch(<<
    Arm(~validTemplates(given) \/ ~noSharedAndPanorama(given), Refused),
    Arm(given \cap Templates # {} /\ given \cap {"shared", "panorama"} # {}, Refused),
    Arm(given \cap ({"panorama"} \cup Templates) # {} /\ ~panorama, Refused),
    Arm(given \cap Templates # {}, templateTier(given)),
    Arm("panorama" \in given, At("panorama", {"panorama"})),
    Arm("shared" \in given \/ ~panorama, At("shared", given \cap {"shared"})),
    Arm(TRUE, Refused)>>)

(* Administrators and password profiles.                                   *)
resolveMgtScope(given) == Switch(<<
    Arm(~validTemplates(given) \/ ~noTemplateAndPanorama(given), Refused),
    Arm(~panorama /\ given # {}, Refused),
    Arm(~panorama, At("firewall", {})),
    Arm(given \cap Templates # {}, templateTier(given)),
    Arm("panorama" \in given, At("panorama", {"panorama"})),
    Arm(TRUE, Refused)>>)

(* The network, and the settings of a device (resolveSystemScope).         *)
resolveNetScope(f, given) == Switch(<<
    Arm(Templates \subseteq given, Refused),
    Arm(given \cap Templates # {} /\ ~panorama, Refused),
    Arm(given \cap Templates # {}, templateTier(given)),
    Arm(panorama \/ f \in {"template", "panorama-template"}, Refused),
    Arm(TRUE, At("firewall", {}))>>)

(* An entry below another, which must be named.                            *)
resolveParentNetScope(given) ==
    LET base == resolveNetScope("below", given \ {"parent"}) IN
    IF "parent" \notin given \/ base = Refused THEN Refused
    ELSE [base EXCEPT !.by = @ \cup {"parent"}]

resolveZoneLocation(given) == Switch(<<
    Arm(panorama /\ given # {"template"}, Refused),
    Arm(panorama, At("template", {"template"})),
    Arm("template" \in given, Refused),
    Arm(TRUE, At("vsys", given))>>)

resolveCertScope(given) == Switch(<<
    Arm(Templates \subseteq given, Refused),
    Arm("vsys" \in given /\ given \cap Templates # {}, Refused),
    Arm(given \cap Templates # {} /\ ~panorama, Refused),
    Arm(given \cap Templates # {}, templateTier(given)),
    Arm(panorama, Refused),
    Arm(TRUE, At("vsys", given))>>)

Resolved(a) ==
    CASE a.family \in LocationFamilies -> resolveLocation(a)
      [] a.family \in DeviceFamilies -> resolveDeviceScope(a.family, a.given)
      [] a.family = "scoped" -> resolveProfileScope(a.given)
      [] a.family = "mgt" -> resolveMgtScope(a.given)
      [] a.family \in NetFamilies -> resolveNetScope(a.family, a.given)
      [] a.family = "below" -> resolveParentNetScope(a.given)
      [] a.family = "zone" -> resolveZoneLocation(a.given)
      [] a.family = "certificate" -> resolveCertScope(a.given)
      [] a.family = "panorama" -> At("panorama", {})

(* Tools for what only Panorama has are not registered on a firewall.      *)
Registered(f) ==
    f \in {"panorama", "device-panorama", "panorama-template"} => panorama

-----------------------------------------------------------------------------
Nothing == [family |-> "none", given |-> {}, rulebase |-> "none"]

ScopeInit ==
    /\ panorama \in BOOLEAN
    /\ asked = Nothing
    /\ place = Refused

Ask(f, a) ==
    /\ Registered(f)
    /\ asked' = a
    /\ place' = Resolved(a)
    /\ UNCHANGED panorama

ScopeNext == \E f \in Families : \E a \in Asks(f) : Ask(f, a)

ScopeSpec == ScopeInit /\ [][ScopeNext]_scopeVars

-----------------------------------------------------------------------------
(* What the selectors of each family are for, as the tools describe them:  *)
(* a place is meant by what it needs, with what it may be named by.        *)
Spot(tier, needs, may) == [tier |-> tier, needs |-> needs, may |-> may]

InTemplates(needs, may) == {Spot(t, {t} \cup needs, may) : t \in Templates}

OnFirewall(f) ==
    CASE f = "object" -> {Spot("vsys", {}, {"vsys"}), Spot("shared", {"shared"}, {})}
      [] f = "profile" -> {Spot("shared", {}, {"shared"})}
      [] f \in {"rule", "zone", "certificate", "device-vsys"} ->
            {Spot("vsys", {}, {"vsys"})}
      [] f \in {"device", "device-shared"} ->
            {Spot("vsys", {}, {"vsys"}), Spot("shared", {"shared"}, {})}
      [] f = "scoped" -> {Spot("shared", {}, {"shared"})}
      [] f \in {"mgt", "net", "system"} -> {Spot("firewall", {}, {})}
      [] f = "below" -> {Spot("firewall", {"parent"}, {})}
      [] OTHER -> {}

OwnTiers(f) ==
    CASE f \in {"device", "scoped"} -> {"shared", "panorama"}
      [] f = "device-shared" -> {"shared"}
      [] f \in {"device-vsys", "device-panorama"} -> {"panorama"}

OnPanorama(f) ==
    CASE f \in LocationFamilies ->
            {Spot("shared", {}, {"shared"}), Spot("device_group", {"device_group"}, {})}
      [] f \in DeviceFamilies \cup {"scoped"} ->
            InTemplates({}, {"template_vsys"})
            \cup {Spot(t, {t}, {}) : t \in OwnTiers(f)}
      [] f = "mgt" -> InTemplates({}, {}) \cup {Spot("panorama", {"panorama"}, {})}
      [] f \in NetFamilies \cup {"certificate"} -> InTemplates({}, {})
      [] f = "below" -> InTemplates({"parent"}, {})
      [] f = "zone" -> {Spot("template", {"template"}, {})}
      [] f = "panorama" -> {Spot("panorama", {}, {})}

Meant(a) ==
    {s \in IF panorama THEN OnPanorama(a.family) ELSE OnFirewall(a.family) :
        s.needs \subseteq a.given /\ a.given \subseteq s.needs \cup s.may}

(* Where selectors yield to others: a device group to everything, shared   *)
(* to a vsys, and shared to a template (issue 98 of the repository).       *)
Yielding(a) ==
    CASE a.family \in LocationFamilies /\ "device_group" \in a.given -> {"shared", "vsys"}
      [] a.family \in LocationFamilies \cup DeviceFamilies
         /\ "shared" \in a.given /\ a.given \cap ({"device_group"} \cup Templates) = {}
         /\ ~(panorama /\ a.family \in DeviceFamilies) -> {"vsys"}
      [] a.family \in DeviceFamilies /\ a.given \cap Templates # {} -> {"shared"}
      [] OTHER -> {}
Effective(a) == [a EXCEPT !.given = @ \ Yielding(a)]

RulebaseOK(a) ==
    IF a.family = "rule" THEN a.rulebase # "other" ELSE a.rulebase = "none"

(* A call works where its selectors say and nowhere else: no place of the  *)
(* other device type, none a family lacks, no selector dropped silently    *)
(* but those that yield by the rules above, and a call that no place fits  *)
(* is refused (the resolvers of tools.go and the *_scope.go files).        *)
WhereAsked ==
    asked # Nothing =>
        LET spots == Meant(Effective(asked)) IN
        IF spots = {} \/ ~RulebaseOK(asked) THEN place = Refused
        ELSE \E s \in spots :
            /\ place = [At(s.tier, Effective(asked).given) EXCEPT
                        !.rulebase = place.rulebase]
            /\ place.rulebase = IF asked.family = "rule" /\ panorama
                                THEN normalizeRulebase(asked.rulebase) ELSE "none"
=============================================================================
