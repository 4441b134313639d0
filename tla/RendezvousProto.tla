--------------------------- MODULE RendezvousProto ---------------------------
(* The messages of the id server's protocol, as the web client reads and writes
   them (src/webclient/src/gen/rendezvous.ts): for each message its fields in
   the order they are written, with their numbers and what they hold. *)
EXTENDS WireFields

RegisterPeer == <<One("id", 1, "string"), One("serial", 2, "int32")>>
RegisterPeerResponse == <<One("request_pk", 2, "bool")>>
PunchHoleRequest ==
    <<One("id", 1, "string"), One("nat_type", 2, "int32"), One("licence_key", 3, "string"),
      One("conn_type", 4, "int32"), One("token", 5, "string"), One("version", 6, "string"),
      One("udp_port", 7, "int32"), One("force_relay", 8, "bool"), One("upnp_port", 9, "int32"),
      One("socket_addr_v6", 10, "bytes"), One("switch_code", 11, "string")>>
ControlPermissions == <<One("permissions", 1, "uint64")>>
ControlledContext == <<One("conn_audit_ref", 1, "string")>>
PunchHole ==
    <<One("socket_addr", 1, "bytes"), One("relay_server", 2, "string"),
      One("nat_type", 3, "int32"), One("udp_port", 4, "int32"), One("force_relay", 5, "bool"),
      One("upnp_port", 6, "int32"), One("socket_addr_v6", 7, "bytes"),
      May("control_permissions", 8, "ControlPermissions"),
      May("controlled_context", 9, "ControlledContext")>>
TestNatRequest == <<One("serial", 1, "int32")>>
TestNatResponse == <<One("port", 1, "int32"), May("cu", 2, "ConfigUpdate")>>
PunchHoleSent ==
    <<One("socket_addr", 1, "bytes"), One("id", 2, "string"), One("relay_server", 3, "string"),
      One("nat_type", 4, "int32"), One("version", 5, "string"), One("upnp_port", 6, "int32"),
      One("socket_addr_v6", 7, "bytes")>>
RegisterPk ==
    <<One("id", 1, "string"), One("uuid", 2, "bytes"), One("pk", 3, "bytes"),
      One("old_id", 4, "string"), One("no_register_device", 5, "bool")>>
RegisterPkResponse == <<One("result", 1, "int32"), One("keep_alive", 2, "int32")>>
PunchHoleResponse ==
    <<One("socket_addr", 1, "bytes"), One("pk", 2, "bytes"), One("failure", 3, "int32"),
      One("relay_server", 4, "string"), Case("nat_type", 5, "int32"),
      Case("is_local", 6, "bool"), One("other_failure", 7, "string"),
      One("feedback", 8, "int32"), One("is_udp", 9, "bool"), One("upnp_port", 10, "int32"),
      One("socket_addr_v6", 11, "bytes")>>
ConfigUpdate == <<One("serial", 1, "int32"), Many("rendezvous_servers", 2, "string")>>
RequestRelay ==
    <<One("id", 1, "string"), One("uuid", 2, "string"), One("socket_addr", 3, "bytes"),
      One("relay_server", 4, "string"), One("secure", 5, "bool"),
      One("licence_key", 6, "string"), One("conn_type", 7, "int32"), One("token", 8, "string"),
      May("control_permissions", 9, "ControlPermissions"),
      May("controlled_context", 10, "ControlledContext"), One("switch_code", 11, "string")>>
RelayResponse ==
    <<One("socket_addr", 1, "bytes"), One("uuid", 2, "string"),
      One("relay_server", 3, "string"), Case("id", 4, "string"), Case("pk", 5, "bytes"),
      One("refuse_reason", 6, "string"), One("version", 7, "string"),
      One("feedback", 9, "int32"), One("socket_addr_v6", 10, "bytes"),
      One("upnp_port", 11, "int32")>>
SoftwareUpdate == <<One("url", 1, "string")>>
FetchLocalAddr ==
    <<One("socket_addr", 1, "bytes"), One("relay_server", 2, "string"),
      One("socket_addr_v6", 3, "bytes"), May("control_permissions", 4, "ControlPermissions"),
      May("controlled_context", 5, "ControlledContext")>>
LocalAddr ==
    <<One("socket_addr", 1, "bytes"), One("local_addr", 2, "bytes"),
      One("relay_server", 3, "string"), One("id", 4, "string"), One("version", 5, "string"),
      One("socket_addr_v6", 6, "bytes")>>
PeerDiscovery ==
    <<One("cmd", 1, "string"), One("mac", 2, "string"), One("id", 3, "string"),
      One("username", 4, "string"), One("hostname", 5, "string"), One("platform", 6, "string"),
      One("misc", 7, "string")>>
OnlineRequest == <<One("id", 1, "string"), Many("peers", 2, "string")>>
OnlineResponse == <<One("states", 1, "bytes")>>
KeyExchange == <<Many("keys", 1, "bytes")>>
HealthCheck == <<One("token", 1, "string")>>
HeaderEntry == <<One("name", 1, "string"), One("value", 2, "string")>>
HttpProxyRequest ==
    <<One("method", 1, "string"), One("path", 2, "string"), Many("headers", 3, "HeaderEntry"),
      One("body", 4, "bytes")>>
HttpProxyResponse ==
    <<One("status", 1, "int32"), Many("headers", 2, "HeaderEntry"), One("body", 3, "bytes"),
      One("error", 4, "string")>>
RendezvousMessage ==
    <<Case("register_peer", 6, "RegisterPeer"),
      Case("register_peer_response", 7, "RegisterPeerResponse"),
      Case("punch_hole_request", 8, "PunchHoleRequest"), Case("punch_hole", 9, "PunchHole"),
      Case("punch_hole_sent", 10, "PunchHoleSent"),
      Case("punch_hole_response", 11, "PunchHoleResponse"),
      Case("fetch_local_addr", 12, "FetchLocalAddr"), Case("local_addr", 13, "LocalAddr"),
      Case("configure_update", 14, "ConfigUpdate"), Case("register_pk", 15, "RegisterPk"),
      Case("register_pk_response", 16, "RegisterPkResponse"),
      Case("software_update", 17, "SoftwareUpdate"), Case("request_relay", 18, "RequestRelay"),
      Case("relay_response", 19, "RelayResponse"),
      Case("test_nat_request", 20, "TestNatRequest"),
      Case("test_nat_response", 21, "TestNatResponse"),
      Case("peer_discovery", 22, "PeerDiscovery"), Case("online_request", 23, "OnlineRequest"),
      Case("online_response", 24, "OnlineResponse"), Case("key_exchange", 25, "KeyExchange"),
      Case("hc", 26, "HealthCheck"), Case("http_proxy_request", 27, "HttpProxyRequest"),
      Case("http_proxy_response", 28, "HttpProxyResponse")>>
-----------------------------------------------------------------------------
\* The messages by name.
ByName ==
    [RegisterPeer |-> RegisterPeer, RegisterPeerResponse |-> RegisterPeerResponse,
     PunchHoleRequest |-> PunchHoleRequest, ControlPermissions |-> ControlPermissions,
     ControlledContext |-> ControlledContext, PunchHole |-> PunchHole,
     TestNatRequest |-> TestNatRequest, TestNatResponse |-> TestNatResponse,
     PunchHoleSent |-> PunchHoleSent, RegisterPk |-> RegisterPk,
     RegisterPkResponse |-> RegisterPkResponse, PunchHoleResponse |-> PunchHoleResponse,
     ConfigUpdate |-> ConfigUpdate, RequestRelay |-> RequestRelay,
     RelayResponse |-> RelayResponse, SoftwareUpdate |-> SoftwareUpdate,
     FetchLocalAddr |-> FetchLocalAddr, LocalAddr |-> LocalAddr,
     PeerDiscovery |-> PeerDiscovery, OnlineRequest |-> OnlineRequest,
     OnlineResponse |-> OnlineResponse, KeyExchange |-> KeyExchange,
     HealthCheck |-> HealthCheck, HeaderEntry |-> HeaderEntry,
     HttpProxyRequest |-> HttpProxyRequest, HttpProxyResponse |-> HttpProxyResponse,
     RendezvousMessage |-> RendezvousMessage]
=============================================================================
