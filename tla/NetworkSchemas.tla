---------------------------- MODULE NetworkSchemas ---------------------------
(***************************************************************************)
(* The network of a firewall or of a template: VPN, routing, interfaces,   *)
(* zones and what they use (vpn_tools.go, routing_profile_tools.go,        *)
(* network_*_tools.go, the interface tools, static_route_tools.go,         *)
(* switching_tools.go, zone_protection_tools.go, device_tools.go).         *)
(***************************************************************************)
EXTENDS Schemas

Network == [Plain EXCEPT !.at = "net"]

(* An entry below a router, a VLAN or an interface, which must be named.   *)
Below == [Plain EXCEPT !.at = "below"]

-----------------------------------------------------------------------------
(* One value in one unit: giving it in another takes the first away.       *)
Lifetime == OneOf({"lifetime_seconds", "lifetime_minutes", "lifetime_hours",
                   "lifetime_days"})
Lifesize == OneOf({"lifesize_kb", "lifesize_mb", "lifesize_gb", "lifesize_tb"})

IkeCryptoProfile == [Network EXCEPT
    !.keep = {"authentication_multiple"},
    !.clear = {"dh_group", "encryption", "hash"},
    !.choices = {Lifetime}]

(* ESP keeps the list that is not given again; AH has just one.            *)
IpsecProtocol == [Choice EXCEPT
    !.of = [p \in {"esp", "ah"} |->
                IF p = "esp" THEN {"esp_encryption", "esp_authentication"}
                ELSE {"ah_authentication"}],
    !.seed = TRUE]

IpsecCryptoProfile == [Network EXCEPT
    !.keep = {"dh_group"},
    !.clear = Inner(IpsecProtocol),
    !.choices = {IpsecProtocol, Lifetime, Lifesize}]

(* exchange_mode is refused unless the version, given or stored, is 1.     *)
IkeGateway == [Network EXCEPT
    !.keep = {"disabled", "ipv6", "local_interface", "local_ip",
              "protocol_version", "exchange_mode", "ike_crypto_profile",
              "pre_shared_key"},
    !.checked = {"exchange_mode"}, !.secret = {"pre_shared_key"},
    !.choices = {OneOf({"peer_ip", "peer_fqdn", "peer_dynamic"})}]

IpsecTunnel == [Network EXCEPT
    !.keep = {"tunnel_interface", "disabled", "anti_replay", "copy_tos",
              "copy_flow_label", "enable_gre_encapsulation", "ipv6",
              "ipsec_crypto_profile", "comment"},
    !.clear = {"ike_gateways"}]

GreTunnel == [Network EXCEPT
    !.keep = {"tunnel_interface", "disabled", "copy_tos", "erspan", "ttl",
              "local_interface", "local_ip", "peer_ip", "keep_alive_enable",
              "keep_alive_hold_timer", "keep_alive_interval",
              "keep_alive_retry"}]

-----------------------------------------------------------------------------
(* Routing profiles.                                                       *)
BgpAuthProfile == [Network EXCEPT !.keep = {"secret"}, !.secret = {"secret"}]

BgpDampeningProfile == [Network EXCEPT
    !.keep = {"description", "half_life", "max_suppress_limit", "reuse_limit",
              "suppress_limit"}]

BgpTimerProfile == [Network EXCEPT
    !.keep = {"hold_time", "keep_alive_interval", "min_route_adv_interval",
              "open_delay_time", "reconnect_retry_interval"}]

(* MD5 keys are replaced together, as no stored one can be read back.      *)
OspfAuthProfile == [Network EXCEPT
    !.keep = {"password"}, !.clear = {"md5_keys"}, !.checked = {"md5_keys"},
    !.secret = {"password", "md5_keys"}]

OspfInterfaceTimer == [Network EXCEPT
    !.keep = {"hello_interval", "dead_counts", "retransmit_interval",
              "transit_delay", "gr_delay"}]
Ospfv3InterfaceTimer == OspfInterfaceTimer

OspfSpfTimer == [Network EXCEPT
    !.keep = {"spf_calculation_delay", "lsa_interval", "initial_hold_time",
              "max_hold_time"}]
Ospfv3SpfTimer == OspfSpfTimer

BfdProfile == [Network EXCEPT
    !.keep = {"mode", "min_tx_interval", "min_rx_interval",
              "detection_multiplier", "hold_time"}]
RoutingBfdProfile == BfdProfile

PimInterfaceTimer == [Network EXCEPT
    !.keep = {"hello_interval", "assert_interval", "join_prune_interval"}]

-----------------------------------------------------------------------------
InterfaceManagementProfile == [Network EXCEPT
    !.keep = {"http", "https", "http_ocsp", "ping", "snmp", "ssh", "telnet",
              "response_pages", "userid_service",
              "userid_syslog_listener_ssl", "userid_syslog_listener_udp"},
    !.clear = {"permitted_ip"}]

LldpProfile == [Network EXCEPT !.keep = {"mode", "snmp_syslog_notification"}]

MonitorProfile == [Network EXCEPT !.keep = {"action", "interval", "threshold"}]

-----------------------------------------------------------------------------
(* What a layer 3 interface has.                                           *)
Layer3 == {"mtu", "ips", "interface_management_profile", "ipv6_enabled"}

Loopback == [Network EXCEPT
    !.keep = {"comment"} \cup (Layer3 \ {"ips"}), !.clear = {"ips"}]
VlanInterface == Loopback
TunnelInterface == [Loopback EXCEPT !.keep = Loopback.keep \cup {"link_tag"}]

(* A port is a layer 3 port or a member of an aggregate, and is recreated  *)
(* to become the other.  Its other modes are nobody's here: an update of   *)
(* layer 3 fields leaves them standing, so a layer 2 port gets two modes.  *)
PortMode == [Choice EXCEPT
    !.of = [m \in {"layer3", "aggregate"} |->
                IF m = "layer3" THEN Layer3 ELSE {"aggregate_group"}],
    !.other = {"layer2"}, !.beside = {"layer2"},
    !.seed = TRUE, !.fixed = TRUE, !.default = {"layer3"}]

Ethernet == [Network EXCEPT
    !.keep = {"comment", "link_state", "link_speed", "link_duplex"},
    !.clear = {"ips"},
    !.choices = {PortMode}]

AggregateMode == [PortMode EXCEPT !.of = [m \in {"layer3"} |-> Layer3]]

Aggregate == [Network EXCEPT
    !.keep = {"comment"}, !.clear = {"ips"}, !.choices = {AggregateMode}]

EthernetSubinterface == [Below EXCEPT
    !.keep = Loopback.keep \cup {"tag"}, !.clear = {"ips"}]
AggregateSubinterface == EthernetSubinterface

-----------------------------------------------------------------------------
VirtualWire == [Network EXCEPT
    !.keep = {"interface1", "interface2", "tag_allowed"}]
Vlan == [Network EXCEPT !.clear = {"interfaces"}]
VlanMac == [Below EXCEPT !.keep = {"interface"}]

VirtualRouter == [Network EXCEPT
    !.keep = {"admin_dist_static", "admin_dist_static_ipv6",
              "admin_dist_ospf_int", "admin_dist_ospf_ext",
              "admin_dist_ospfv3_int", "admin_dist_ospfv3_ext",
              "admin_dist_ibgp", "admin_dist_ebgp", "admin_dist_rip"},
    !.clear = {"interfaces"}]

LogicalRouter == [Network EXCEPT !.tools = Plain.tools \ {"update"}]

(* nexthop_discard given as false takes the next hop away, whichever.      *)
Nexthop(kinds) == [OneOf(kinds) EXCEPT
    !.drop = {"nexthop_discard"}, !.apart = {kinds}]

StaticRouteV4 == [Below EXCEPT
    !.keep = {"destination", "interface", "admin_dist", "metric",
              "bfd_profile"},
    !.choices = {Nexthop({"nexthop_ip_address", "nexthop_next_vr",
                          "nexthop_fqdn", "nexthop_discard"})}]

(* An IPv6 route has no next hop by name.                                  *)
StaticRouteV6 == [StaticRouteV4 EXCEPT
    !.choices = {Nexthop({"nexthop_ip_address", "nexthop_next_vr",
                          "nexthop_discard"})}]

-----------------------------------------------------------------------------
(* An interface relays DHCP or serves it.                                  *)
DhcpMode == [Choice EXCEPT
    !.of = [m \in {"relay", "server"} |->
        IF m = "relay" THEN {"relay_enabled", "relay_servers"}
        ELSE {"server_mode", "server_ip_pools", "server_probe_ip"}],
    !.seed = TRUE]

Dhcp == [Network EXCEPT
    !.clear = {"relay_servers", "server_ip_pools"}, !.choices = {DhcpMode}]

DnsProxy == [Plain EXCEPT
    !.at = "template",
    !.keep = {"enabled", "default_primary", "default_secondary"},
    !.clear = {"interfaces", "static_entries", "domain_servers"}]

ZoneProtectionToggles ==
    {"tcp_reject_non_syn", "discard_overlapping_tcp_segment_mismatch", "discard_icmp_error",
     "discard_icmp_frag", "discard_icmp_large_packet",
     "discard_icmp_ping_zero_id", "discard_ip_frag", "discard_ip_spoof",
     "discard_loose_source_routing", "discard_malformed_option",
     "discard_record_route", "discard_security", "discard_stream_id",
     "discard_strict_source_routing", "discard_tcp_split_handshake",
     "discard_tcp_syn_with_data", "discard_tcp_synack_with_data",
     "discard_timestamp", "discard_unknown_option", "remove_tcp_timestamp",
     "strict_ip_check", "strip_tcp_fast_open_and_data",
     "suppress_icmp_needfrag", "suppress_icmp_timeexceeded"}

ZoneProtectionProfile == [Network EXCEPT
    !.keep = {"description", "asymmetric_path", "strip_mptcp_option"}
                \cup ZoneProtectionToggles]

-----------------------------------------------------------------------------
(* A zone of one type; naming the type clears the interfaces not given, an *)
(* empty list given with no type too.  A tunnel zone takes none.           *)
ZoneType == [Choice EXCEPT
    !.by = "network_type",
    !.of = [t \in {"layer3", "layer2", "virtual-wire", "tap", "external",
                   "tunnel"} |->
                IF t = "tunnel" THEN {} ELSE {"interfaces"}],
    !.loose = {"interfaces"}, !.inplace = TRUE, !.must = TRUE]

Zone == [Plain EXCEPT
    !.at = "zone",
    !.keep = {"zone_protection_profile", "log_setting",
              "enable_packet_buffer_protection", "enable_user_identification",
              "enable_device_identification"},
    !.clear = {"interfaces"},
    !.choices = {ZoneType}]

-----------------------------------------------------------------------------
NetworkSchemas ==
    {IkeCryptoProfile, IpsecCryptoProfile, IkeGateway, IpsecTunnel, GreTunnel,
     BgpAuthProfile, BgpDampeningProfile, BgpTimerProfile, OspfAuthProfile,
     OspfInterfaceTimer, OspfSpfTimer, BfdProfile, PimInterfaceTimer,
     InterfaceManagementProfile, LldpProfile, MonitorProfile, Loopback,
     TunnelInterface, Ethernet, Aggregate, EthernetSubinterface, VirtualWire,
     Vlan, VlanMac, VirtualRouter, LogicalRouter, StaticRouteV4, StaticRouteV6,
     Dhcp, DnsProxy, ZoneProtectionProfile, Zone}
=============================================================================
