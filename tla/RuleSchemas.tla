----------------------------- MODULE RuleSchemas -----------------------------
(***************************************************************************)
(* The rules of policy_tools.go and rulebase_tools.go.  Their place in the *)
(* rulebase is RuleOrder's.                                                *)
(***************************************************************************)
EXTENDS Schemas

Rule == [Plain EXCEPT
    !.at = "rule",
    !.tools = Plain.tools \cup {"move"},
    !.keep = {"description", "disabled"}, !.clear = {"tags"}]

(* A group of profiles takes the place of profiles named one by one, which *)
(* these tools never write (applyRuleProfileGroup).                        *)
ProfileSetting == [OneOf({"profile_group"}) EXCEPT !.other = {"profiles"}]

(* The service is application-default when create is not given one.        *)
SecurityRule == [Rule EXCEPT
    !.keep = Rule.keep \cup {"action", "schedule", "log_setting"},
    !.checked = {"action"}, !.need = {"action"},
    !.orAny = {"from", "to", "source", "destination", "application", "service"},
    !.choices = {ProfileSetting}]

(* Source translation is replaced whole, destination translation is merged *)
(* so that an address alone keeps the port (applyNatTranslations).         *)
SourceTranslation == [OneOf({"snat_interface", "snat_addresses"}) EXCEPT
    !.other = {"static_ip", "dynamic_ip"}]

NatRule == [Rule EXCEPT
    !.keep = Rule.keep \cup
        {"nat_type", "to_interface", "dnat_address", "dnat_port"},
    !.checked = {"nat_type", "dnat_port"},
    !.with = [f \in {"dnat_port"} |-> {"dnat_address"}],
    !.orAny = {"from", "to", "source", "destination", "service"},
    !.choices = {SourceTranslation}]

-----------------------------------------------------------------------------
DecryptionType == [Choice EXCEPT
    !.by = "decryption_type",
    !.of = [t \in {"ssh-proxy", "ssl-forward-proxy", "ssl-inbound-inspection"} |->
                IF t = "ssl-inbound-inspection" THEN {"certificates"} ELSE {}]]

DecryptionRule == [Rule EXCEPT
    !.keep = Rule.keep \cup {"action"},
    !.checked = {"action"}, !.need = {"action"},
    !.orAny = {"from", "to", "source", "destination", "service"},
    !.choices = {DecryptionType}]

AuthenticationRule == [Rule EXCEPT
    !.keep = Rule.keep \cup {"authentication_enforcement", "timeout"},
    !.checked = {"timeout"},
    !.orAny = {"from", "to", "source", "destination", "service"}]

-----------------------------------------------------------------------------
(* Where traffic comes from: these tools write zones only.                 *)
PbfFrom == [OneOf({"from"}) EXCEPT !.other = {"from_interface"}, !.must = TRUE]

PbfForward == {"egress_interface", "nexthop_ip", "nexthop_fqdn"}

PbfAction == [Choice EXCEPT
    !.by = "action",
    !.of = [a \in {"forward", "forward-to-vsys", "discard", "no-pbf"} |->
        CASE a = "forward" -> PbfForward
          [] a = "forward-to-vsys" -> {"forward_vsys"}
          [] OTHER -> {}],
    !.whole = [a \in {"forward", "forward-to-vsys"} |->
        IF a = "forward" THEN {"egress_interface"} ELSE {"forward_vsys"}],
    !.apart = {{"nexthop_ip", "nexthop_fqdn"}},
    !.must = TRUE]

PbfRule == [Rule EXCEPT
    !.orAny = {"source", "destination", "service", "application"},
    !.choices = {PbfFrom, PbfAction}]

-----------------------------------------------------------------------------
RuleSchemas ==
    {SecurityRule, NatRule, DecryptionRule, AuthenticationRule, PbfRule}
=============================================================================
