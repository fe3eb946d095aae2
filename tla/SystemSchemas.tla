---------------------------- MODULE SystemSchemas ----------------------------
(***************************************************************************)
(* The settings of a device, each one of its kind (system_service_tools.go *)
(* and device_dynamicupdates_tools.go), its log settings and exports, and  *)
(* what only Panorama has (panorama_container_tools.go).                   *)
(***************************************************************************)
EXTENDS Schemas

(* Settings that are always there: read them, change them.                 *)
Settings == [Plain EXCEPT !.at = "system", !.tools = {"get", "update"}]

DnsSettings == [Settings EXCEPT
    !.keep = {"primary_dns_server", "secondary_dns_server",
              "fqdn_refresh_time"}]

GeneralSettings == [Settings EXCEPT
    !.keep = {"hostname", "domain", "login_banner", "timezone",
              "ssl_tls_service_profile", "geo_latitude", "geo_longitude"}]

ProxySettings == [Settings EXCEPT
    !.keep = {"secure_proxy_server", "secure_proxy_port", "secure_proxy_user",
              "secure_proxy_password", "lcaas_use_proxy"},
    !.secret = {"secure_proxy_password"}]

(* How a server's answers are authenticated: a symmetric key is given with *)
(* its algorithm, and takes the place of autokey and of none.              *)
NtpAuth(algorithm, key, keyed, unkeyed) == [Choice EXCEPT
    !.by = algorithm,
    !.of = [a \in keyed |-> {key}], !.whole = [a \in keyed |-> {key}],
    !.other = unkeyed,
    !.seed = TRUE]

(* The key's id is the same for both algorithms.                           *)
NtpSettings == [Settings EXCEPT
    !.keep = {"primary_ntp_server", "primary_key_id", "secondary_ntp_server",
              "secondary_key_id"},
    !.with = [f \in {"primary_key_id", "secondary_key_id"} |->
                IF f = "primary_key_id" THEN {"primary_algorithm"}
                ELSE {"secondary_algorithm"}],
    !.secret = {"primary_authentication_key", "secondary_authentication_key"},
    !.choices = {
        NtpAuth("primary_algorithm", "primary_authentication_key",
                {"primary_md5", "primary_sha1"},
                {"primary_autokey", "primary_none"}),
        NtpAuth("secondary_algorithm", "secondary_authentication_key",
                {"secondary_md5", "secondary_sha1"},
                {"secondary_autokey", "secondary_none"})}]

-----------------------------------------------------------------------------
(* Dynamic updates: a section for each kind of content, with one cadence.  *)
(* What a cadence has (cadenceSpec).                                       *)
Timed == {"action", "at"}
Cadences(names) == [c \in names |->
    CASE c \in {"none", "real-time"} -> {}
      [] c = "every-min" -> {"action"}
      [] c = "weekly" -> Timed \cup {"day_of_week"}
      [] OTHER -> Timed]

(* A cadence's fields are those each has and the section's own for all of  *)
(* them that do something.                                                 *)
Recurrence(names, own) == [Choice EXCEPT
    !.by = "recurrence",
    !.of = [c \in names |-> Cadences(names)[c] \cup
                (IF c \in {"none", "real-time"} THEN {} ELSE own)],
    !.whole = Cadences(names),
    !.seed = TRUE, !.must = TRUE]

(* A section without a cadence is refused also when other fields are given *)
(* (requireOneCadence).                                                    *)
Section(names, own, keep) == [Settings EXCEPT
    !.keep = keep,
    !.checked = Timed \cup {"day_of_week"}
                    \cup (keep \cap {"threshold", "new_app_threshold"}),
    !.choices = {Recurrence(names, own)}]

AntiVirusUpdates == Section({"none", "daily", "weekly", "hourly"}, {},
                            {"sync_to_peer", "threshold"})
AppProfileUpdates == Section({"none", "daily", "weekly"}, {},
                             {"sync_to_peer", "threshold"})
ThreatsUpdates ==
    Section({"none", "daily", "weekly", "hourly", "every-30-mins"},
            {"disable_new_content"},
            {"sync_to_peer", "threshold", "new_app_threshold"})
WildfireUpdates ==
    Section({"none", "real-time", "every-min", "every-15-mins",
             "every-30-mins", "every-hour"}, {"sync_to_peer"}, {})
WfPrivateUpdates ==
    Section({"none", "every-5-mins", "every-15-mins", "every-30-mins",
             "every-hour"}, {}, {"sync_to_peer"})
GpDatafileUpdates == Section({"none", "daily", "weekly", "hourly"}, {}, {})
GpClientlessUpdates == GpDatafileUpdates

StatisticsService == [Settings EXCEPT
    !.keep = {"application_reports", "file_identification_reports",
              "health_performance_reports", "passive_dns_monitoring",
              "threat_prevention_information", "threat_prevention_pcap",
              "threat_prevention_reports", "url_reports"}]

(* The sections are laid one by one over what is stored, each on its own.  *)
DynamicUpdates ==
    {AntiVirusUpdates, AppProfileUpdates, ThreatsUpdates, WildfireUpdates,
     WfPrivateUpdates, GpDatafileUpdates, GpClientlessUpdates,
     StatisticsService}

-----------------------------------------------------------------------------
(* Where the entries of a log are sent.                                    *)
LogSettings == [Plain EXCEPT
    !.at = "device-panorama",
    !.keep = {"description", "filter"},
    !.clear = {"send_email", "send_http", "send_snmptrap", "send_syslog"}]

ToPanorama == [LogSettings EXCEPT !.keep = @ \cup {"send_to_panorama"}]
Quarantine == [LogSettings EXCEPT !.keep = @ \cup {"quarantine"}]

ConfigLog == ToPanorama
SystemLog == ToPanorama
CorrelationLog == Quarantine
GlobalProtectLog == [ToPanorama EXCEPT !.keep = @ \cup {"quarantine"}]
HipMatchLog == GlobalProtectLog
IptagLog == GlobalProtectLog
UseridLog == GlobalProtectLog

(* One transport, the object of which is given; giving both is refused.    *)
Transport == [Choice EXCEPT
    !.by = "transport",
    !.of = [t \in {"ftp", "scp"} |->
        {"hostname", "username", "password", "path", "port"} \cup
            (IF t = "ftp" THEN {"passive_mode"} ELSE {})],
    !.seed = TRUE]

LogExportSchedule == [Plain EXCEPT
    !.at = "system",
    !.keep = {"description", "enable", "log_type", "start_time"},
    !.secret = {"password"},
    !.choices = {Transport}]

-----------------------------------------------------------------------------
Container == [Plain EXCEPT !.at = "panorama", !.keep = {"description"}]

DeviceGroup == [Container EXCEPT
    !.keep = @ \cup {"authorization_code"}, !.clear = {"templates"},
    !.secret = {"authorization_code"}]

Template == [Container EXCEPT !.keep = @ \cup {"default_vsys"}]

TemplateStack == [Template EXCEPT
    !.keep = @ \cup {"master_device"}, !.clear = {"templates", "devices"}]

Vsys == [Plain EXCEPT
    !.at = "panorama-template", !.tools = {"list", "get", "create"}]

VariableTypes == {"ip-netmask", "ip-range", "fqdn", "group-id",
                  "device-priority", "device-id", "interface", "as-number",
                  "qos-profile", "egress-max", "link-tag"}

(* A variable has one type and a value, always given together.             *)
VariableType == [Choice EXCEPT
    !.by = "var_type",
    !.of = [t \in VariableTypes |-> {"value"}],
    !.whole = [t \in VariableTypes |-> {"value"}],
    !.must = TRUE]

TemplateVariable == [Plain EXCEPT
    !.at = "panorama-template", !.keep = {"description"},
    !.choices = {VariableType}]

-----------------------------------------------------------------------------
SystemSchemas ==
    DynamicUpdates \cup
    {DnsSettings, GeneralSettings, ProxySettings, NtpSettings, ConfigLog,
     CorrelationLog, GlobalProtectLog, LogExportSchedule, DeviceGroup,
     Template, TemplateStack, Vsys, TemplateVariable}
=============================================================================
