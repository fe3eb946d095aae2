---------------------------- MODULE ProfileSchemas ---------------------------
(***************************************************************************)
(* The security profiles of profile_tools.go and data_filtering_tools.go.  *)
(* Lists of rules, decoders and exceptions are built from the input alone  *)
(* and replace the stored ones.                                            *)
(***************************************************************************)
EXTENDS Schemas

Antivirus == [Plain EXCEPT
    !.keep = {"description", "packet_capture"},
    !.clear = {"decoders"}, !.checked = {"decoders"}]

(* What vulnerability and anti-spyware profiles have alike.                *)
Inspection == [Plain EXCEPT
    !.keep = {"description", "cloud_inline_analysis"},
    !.clear = {"inline_exception_edl_urls", "inline_exception_ip_addresses"}]

VulnerabilityProfile == [Inspection EXCEPT !.at = "profile"]
AntiSpyware == Inspection

URLFiltering == [Plain EXCEPT
    !.at = "profile",
    !.keep = {"description", "safe_search_enforcement", "log_http_header_xff",
              "log_http_header_user_agent", "log_http_header_referer"},
    !.clear = {"alert", "allow", "block", "continue", "override"}]

(* What file blocking and WildFire analysis profiles have alike.           *)
RuleList == [Plain EXCEPT
    !.keep = {"description"}, !.clear = {"rules"}, !.checked = {"rules"}]

FileBlocking == RuleList
WildfireAnalysis == [RuleList EXCEPT !.at = "profile"]

ProfileGroup == [Plain EXCEPT
    !.at = "profile",
    !.keep = {"antivirus", "anti_spyware", "vulnerability", "url_filtering",
              "file_blocking", "wildfire_analysis", "data_filtering"}]

LogForwarding == [Plain EXCEPT
    !.at = "profile",
    !.keep = {"description", "enhanced_application_logging"},
    !.clear = {"match_lists"}, !.checked = {"match_lists"}]

DecryptionProfile == [Plain EXCEPT
    !.keep = {"forwarded_only", "ssl_min_version", "ssl_max_version"}]

-----------------------------------------------------------------------------
DataFilteringProfile == [Plain EXCEPT
    !.at = "profile",
    !.keep = {"description", "data_capture", "disable_override"},
    !.clear = {"rules"}, !.checked = {"rules"}]

(* A rule without a name is refused; a branch given without patterns keeps *)
(* those it has.                                                           *)
PatternType == [OneOf({"file_properties", "predefined", "regex"}) EXCEPT
    !.seed = TRUE,
    !.apart = {{"file_properties", "predefined", "regex"}}]

DataPattern == [Plain EXCEPT
    !.keep = {"description", "disable_override"},
    !.clear = {"file_properties", "predefined", "regex"},
    !.checked = {"file_properties", "predefined", "regex"},
    !.choices = {PatternType}]

-----------------------------------------------------------------------------
ProfileSchemas ==
    {Antivirus, VulnerabilityProfile, AntiSpyware, URLFiltering, FileBlocking,
     WildfireAnalysis, ProfileGroup, LogForwarding, DecryptionProfile,
     DataFilteringProfile, DataPattern}
=============================================================================
