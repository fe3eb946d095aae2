--------------------------- MODULE IdentitySchemas ---------------------------
(***************************************************************************)
(* Who the device asks and who may log in: the server profiles, identity   *)
(* and authentication profiles, administrators, certificates and their     *)
(* profiles (server_profile_tools.go and device_*_tools.go).  Passwords,   *)
(* keys and hashes go in and are never shown.                              *)
(***************************************************************************)
EXTENDS Schemas

DeviceProfile == [Plain EXCEPT !.at = "device"]

(* A list of servers, each merged by name so that its secret need not be   *)
(* given again.                                                            *)
ServerProfile == [DeviceProfile EXCEPT !.merge = {"servers"}]
SecretServers == [ServerProfile EXCEPT !.secret = {"servers"}]

LdapProfile == [ServerProfile EXCEPT
    !.keep = {"base", "bind_dn", "bind_password", "bind_timelimit",
              "retry_interval", "timelimit", "ldap_type", "ssl", "disabled",
              "verify_server_certificate"},
    !.secret = {"bind_password"}]

TacacsProfile == [SecretServers EXCEPT
    !.keep = {"protocol", "timeout", "use_single_connection"}]

RadiusProfile == [SecretServers EXCEPT !.keep = {"retries", "timeout"}]

SyslogProfile == ServerProfile

(* The version keeps its servers when it is named again.                   *)
SnmpVersion == [Choice EXCEPT
    !.by = "version",
    !.of = [v \in {"v2c", "v3"} |->
                IF v = "v2c" THEN {"v2c_servers"} ELSE {"v3_servers"}],
    !.seed = TRUE, !.inplace = TRUE, !.must = TRUE]

SnmpTrapProfile == [DeviceProfile EXCEPT
    !.at = "device-vsys",
    !.merge = {"v2c_servers", "v3_servers"},
    !.secret = {"v2c_servers", "v3_servers"},
    !.choices = {SnmpVersion}]

EmailProfile == [SecretServers EXCEPT !.at = "device-vsys"]

-----------------------------------------------------------------------------
LocalUser == [DeviceProfile EXCEPT
    !.at = "device-shared",
    !.keep = {"disabled", "password_hash"},
    !.need = {"password_hash"}, !.secret = {"password_hash"}]

SamlIdpProfile == [DeviceProfile EXCEPT
    !.keep = {"entity_id", "sso_url", "sso_bindings", "slo_url",
              "slo_bindings", "certificate", "validate_idp_certificate",
              "want_auth_requests_signed", "max_clock_skew", "admin_use_only",
              "attribute_username", "attribute_usergroup"}]

(* The vendor's settings are secret one and all, and replaced together.    *)
MfaProfile == [DeviceProfile EXCEPT
    !.at = "device-shared",
    !.keep = {"certificate_profile", "vendor_type"},
    !.clear = {"config"}, !.secret = {"config"}]

-----------------------------------------------------------------------------
(* The methods of authentication and what each has.  The input has one     *)
(* object for each, and giving it names the method.                        *)
MethodFields == [
    kerberos       |-> {"realm", "server_profile"},
    ldap           |-> {"login_attribute", "passwd_exp_days", "server_profile"},
    local_database |-> {},
    none           |-> {},
    radius         |-> {"checkgroup", "server_profile"},
    saml_idp       |-> {"attribute_name_access_domain",
                        "attribute_name_admin_role", "attribute_name_usergroup",
                        "attribute_name_username", "certificate_profile",
                        "enable_single_logout", "request_signing_certificate",
                        "server_profile"},
    tacplus        |-> {"checkgroup", "server_profile"}]

(* A profile may use the cloud method, which no input can pick, and which  *)
(* must go when another is picked (applyAuthProfileMethod).                *)
Method == [Choice EXCEPT
    !.by = "method", !.of = MethodFields, !.other = {"cloud"}, !.seed = TRUE]

AuthProfile == [DeviceProfile EXCEPT
    !.at = "device-vsys",
    !.keep = {"user_domain", "username_modifier", "lockout_failed_attempts",
              "lockout_time", "mfa_enable", "sso_realm",
              "sso_service_principal", "sso_kerberos_keytab"},
    !.clear = {"allow_list", "mfa_factors"},
    !.secret = {"sso_kerberos_keytab"},
    !.choices = {Method}]

-----------------------------------------------------------------------------
PasswordProfile == [Plain EXCEPT
    !.at = "mgt",
    !.keep = {"expiration_period", "expiration_warning_period",
              "post_expiration_admin_login_count",
              "post_expiration_grace_period"}]

BuiltinRoles == {"superuser", "superreader", "panorama-admin", "deviceadmin",
                 "devicereader"}

(* A role is a built-in one, each a branch of its own, or a custom one,    *)
(* known by its profile or its systems.                                    *)
Role == [Choice EXCEPT
    !.of = [r \in BuiltinRoles \cup {"custom"} |->
                IF r = "custom" THEN {"role_profile", "role_vsys"} ELSE {r}],
    !.other = {"vsysadmin", "vsysreader"},
    !.whole = [r \in {"custom"} |-> {"role_profile"}],
    !.seed = TRUE]

Administrator == [Plain EXCEPT
    !.at = "mgt",
    !.keep = {"password_hash", "authentication_profile", "password_profile",
              "client_certificate_only"},
    !.clear = {"role_vsys"}, !.checked = {"role_profile"},
    !.secret = {"password_hash"},
    !.choices = {Role}]

-----------------------------------------------------------------------------
Certificate == [Plain EXCEPT
    !.at = "certificate", !.tools = {"list", "get"}]

SslTlsProfile == [Plain EXCEPT
    !.at = "scoped",
    !.keep = {"certificate", "min_version", "max_version",
              "allow_algorithm_3des", "allow_algorithm_rc4",
              "allow_algorithm_aes_128_cbc", "allow_algorithm_aes_128_gcm",
              "allow_algorithm_aes_256_cbc", "allow_algorithm_aes_256_gcm",
              "allow_algorithm_dhe", "allow_algorithm_ecdhe",
              "allow_algorithm_rsa", "allow_authentication_sha1",
              "allow_authentication_sha256", "allow_authentication_sha384"}]

CertificateProfile == [Plain EXCEPT
    !.at = "scoped",
    !.keep = {"domain", "username_field_subject", "username_field_subject_alt",
              "use_crl", "use_ocsp", "ocsp_exclude_nonce",
              "block_expired_certificate", "block_timeout_certificate",
              "block_unknown_certificate", "block_unauthenticated_certificate",
              "certificate_status_timeout", "crl_receive_timeout",
              "ocsp_receive_timeout"},
    !.merge = {"certificate_authorities"}]

SslDecrypt == [Plain EXCEPT
    !.at = "system", !.tools = {"get", "update"},
    !.keep = {"forward_trust_cert_rsa", "forward_trust_cert_ecdsa",
              "forward_untrust_cert_rsa", "forward_untrust_cert_ecdsa"},
    !.clear = {"trusted_root_ca", "root_ca_exclude_list",
               "disabled_predefined_exclude_certs"}]

-----------------------------------------------------------------------------
IdentitySchemas ==
    {LdapProfile, TacacsProfile, RadiusProfile, SyslogProfile, SnmpTrapProfile,
     EmailProfile, LocalUser, SamlIdpProfile, MfaProfile, AuthProfile,
     PasswordProfile, Administrator, Certificate, SslTlsProfile,
     CertificateProfile, SslDecrypt}
=============================================================================
