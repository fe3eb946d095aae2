---------------------------- MODULE ObjectSchemas ----------------------------
(***************************************************************************)
(* The objects of object_tools.go, refobject_tools.go and                  *)
(* dynamic_user_group_tools.go, at an object location: shared, a vsys of a *)
(* firewall, a device group of Panorama.                                   *)
(***************************************************************************)
EXTENDS Schemas

Address == [Plain EXCEPT
    !.keep = {"description"}, !.clear = {"tags"},
    !.choices = {[OneOf({"ip_netmask", "ip_range", "fqdn"}) EXCEPT
        !.other = {"ip_wildcard"}, !.must = TRUE]}]

AddressGroup == [Plain EXCEPT
    !.keep = {"description"}, !.clear = {"tags"}, !.members = {"static"},
    !.choices = {[OneOf({"static", "dynamic_filter"}) EXCEPT !.must = TRUE]}]

(* The override timeouts have no input: a new port keeps them, the other   *)
(* protocol does not.                                                      *)
Service == [Plain EXCEPT
    !.keep = {"description"}, !.clear = {"tags"},
    !.choices = {[Choice EXCEPT
        !.by = "protocol",
        !.of = [p \in {"tcp", "udp"} |-> {"port", "source_port"}],
        !.whole = [p \in {"tcp", "udp"} |-> {"port"}],
        !.hidden = {"override"}, !.must = TRUE]}]

ServiceGroup == [Plain EXCEPT
    !.clear = {"tags"}, !.members = {"members"}, !.need = {"members"}]

Tag == [Plain EXCEPT !.keep = {"color", "comments"}]

DynamicUserGroup == [Plain EXCEPT
    !.keep = {"description", "filter"}, !.clear = {"tags"}]

-----------------------------------------------------------------------------
(* An application is known by its ports, its IP protocol or its ICMP type; *)
(* an empty list of ports leaves it with none of them.                     *)
ApplicationDefault ==
    [OneOf({"default_ports", "default_ip_protocol"}) EXCEPT
        !.other = {"ident_by_icmp_type", "ident_by_icmp6_type"},
        !.drop = {"default_ports"},
        !.apart = {{"default_ports", "default_ip_protocol"}}]

Application == [Plain EXCEPT
    !.keep = {"description", "category", "subcategory", "technology", "risk",
              "timeout", "tcp_timeout", "udp_timeout", "evasive_behavior",
              "has_known_vulnerability", "used_by_malware",
              "able_to_transfer_file", "prone_to_misuse", "pervasive_use",
              "tunnel_applications"},
    !.checked = {"risk"}, !.choices = {ApplicationDefault}]

ApplicationGroup == [Plain EXCEPT
    !.members = {"members"}, !.need = {"members"}]

CustomURLCategory == [Plain EXCEPT
    !.keep = {"type", "description"}, !.checked = {"type"},
    !.members = {"members"}, !.need = {"type", "members"}]

-----------------------------------------------------------------------------
WeekDays == {"monday", "tuesday", "wednesday", "thursday", "friday",
             "saturday", "sunday"}

(* The recurrence of a schedule, with the ranges of its days: changed in   *)
(* place when schedule_type is not given, never left without a range.      *)
ScheduleType == [Choice EXCEPT
    !.by = "schedule_type",
    !.of = [t \in {"non-recurring", "daily", "weekly"} |->
                IF t = "weekly" THEN WeekDays ELSE {"time_ranges"}],
    !.some = {"non-recurring", "daily", "weekly"},
    !.inplace = TRUE, !.must = TRUE]

Schedule == [Plain EXCEPT
    !.clear = WeekDays \cup {"time_ranges"}, !.choices = {ScheduleType}]

-----------------------------------------------------------------------------
(* What a list fetched from a URL has; the recurrence, with its time and   *)
(* day, is one value, always built whole.                                  *)
EdlFetched == {"url", "description", "exception_list", "certificate_profile",
               "recurring"}

(* The types of an external dynamic list and what each has (validateEdl    *)
(* and buildEdlType).                                                      *)
EdlFields == [t \in {"ip", "url", "domain", "predefined-ip", "predefined-url"} |->
    CASE t \in {"ip", "url"} -> EdlFetched
      [] t = "domain" -> EdlFetched \cup {"expand_domain"}
      [] OTHER -> {"url", "description", "exception_list"}]

(* A new type builds the branch from the input alone; without one the      *)
(* stored branch is changed in place (overlayInBranch).                    *)
EdlType == [Choice EXCEPT
    !.by = "type", !.of = EdlFields, !.other = {"imei", "imsi"},
    !.whole = [t \in DOMAIN EdlFields |-> EdlFields[t] \cap {"url", "recurring"}],
    !.inplace = TRUE, !.must = TRUE]

ExternalDynamicList == [Plain EXCEPT
    !.clear = {"exception_list"}, !.checked = {"recurring"},
    !.choices = {EdlType}]

-----------------------------------------------------------------------------
ObjectSchemas ==
    {Address, AddressGroup, Service, ServiceGroup, Tag, DynamicUserGroup,
     Application, ApplicationGroup, CustomURLCategory, Schedule,
     ExternalDynamicList}
=============================================================================
