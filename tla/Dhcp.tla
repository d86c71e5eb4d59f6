-------------------------------- MODULE Dhcp --------------------------------
(***************************************************************************)
(* The DHCP client of kernel/net.c: net_autoconfig at boot and the dhcp    *)
(* command call net_dhcp_discover, while handle_dhcp runs in the receive   *)
(* path, which interrupts the task between any two of its accesses.        *)
(*                                                                         *)
(* A lease is an address; its mask, gateway and DNS server are functions   *)
(* of it and are represented by the gateway.  The transaction number xid   *)
(* is the number of the call.                                              *)
(***************************************************************************)
EXTENDS Integers

CONSTANTS
  Servers,     \* DHCP servers of the network
  Leases,      \* addresses they give out
  MaxCalls     \* bound: calls of net_dhcp_discover

VARIABLES
  wire,        \* replies to us; they may be lost, late, repeated and reordered
  promised,    \* what server s offered in answer to call x, or nothing
  expected_xid, rx_msg_type,
  offered,     \* dhcp_offered_ip, _gw and _srv
  req,         \* req_ip and srv_ip of net_dhcp_discover
  dpc,         \* where the task is
  expired,     \* the current wait is over
  net_config,
  acked        \* addresses that a server acknowledged in the current call

dhcpVars == <<wire, promised, expected_xid, rx_msg_type, offered, req, dpc, expired, net_config, acked>>
client == <<offered, req, dpc, expired, net_config, acked>>

NoLease == [ip |-> 0, gw |-> 0, srv |-> "none"]
Lease(s, ip) == [ip |-> ip, gw |-> -ip, srv |-> s]
Static == [ip |-> 99, gw |-> -99, srv |-> "none"]

DhcpInit ==
  /\ wire = {} /\ promised = [s \in Servers, x \in 1..MaxCalls |-> NoLease]
  /\ expected_xid = 0 /\ rx_msg_type = "none" /\ offered = NoLease /\ req = NoLease
  /\ dpc = "idle" /\ expired = FALSE /\ net_config = NoLease /\ acked = {}

-----------------------------------------------------------------------------
\* A server answers a DISCOVER with one offer, and a REQUEST for it with an ACK.
server_offer ==
  /\ \E s \in Servers, ip \in Leases :
       /\ expected_xid > 0 /\ promised[s, expected_xid] = NoLease
       /\ dpc \notin {"idle", "discover"}
       /\ promised' = [promised EXCEPT ![s, expected_xid] = Lease(s, ip)]
       /\ wire' = wire \cup {[type |-> "offer", xid |-> expected_xid, lease |-> Lease(s, ip)]}
  /\ UNCHANGED <<expected_xid, rx_msg_type, client>>

server_ack ==
  /\ dpc \in {"wait_ack", "halt_ack", "bind", "bind_gw"}
  /\ req.srv \in Servers /\ promised[req.srv, expected_xid].ip = req.ip
  /\ wire' = wire \cup {[type |-> "ack", xid |-> expected_xid, lease |-> promised[req.srv, expected_xid]]}
  /\ UNCHANGED <<promised, expected_xid, rx_msg_type, client>>

-----------------------------------------------------------------------------
\* The receive path.  Only a reply to the current call counts.
Ours(m) == m.xid = expected_xid

handle_dhcp ==
  /\ \E m \in wire :
       IF Ours(m)
       THEN /\ offered' = m.lease /\ rx_msg_type' = m.type
            /\ acked' = IF m.type = "ack" THEN acked \cup {m.lease.ip} ELSE acked
       ELSE UNCHANGED <<offered, rx_msg_type, acked>>
  /\ UNCHANGED <<wire, promised, expected_xid, req, dpc, expired, net_config>>

\* Time is up for the wait the task is in.
dhcp_timeout ==
  /\ dpc \in {"wait_offer", "halt_offer", "wait_ack", "halt_ack"} /\ ~expired
  /\ expired' = TRUE
  /\ UNCHANGED <<wire, promised, expected_xid, rx_msg_type, offered, req, dpc, net_config, acked>>

-----------------------------------------------------------------------------
net_dhcp_discover ==
  /\ dpc = "idle" /\ expected_xid < MaxCalls
  /\ expected_xid' = expected_xid + 1 /\ rx_msg_type' = "none" /\ offered' = NoLease
  /\ req' = NoLease /\ acked' = {} /\ expired' = FALSE /\ dpc' = "discover"
  /\ UNCHANGED <<wire, promised, net_config>>

Step(from, to) ==
  /\ dpc = from /\ dpc' = to
  /\ UNCHANGED <<wire, promised, expected_xid>>

send_discover ==
  /\ Step("discover", "wait_offer")
  /\ UNCHANGED <<rx_msg_type, offered, req, expired, net_config, acked>>

Offered == rx_msg_type = "offer" /\ offered.ip # 0

\* Each round of the wait polls the controller and sleeps until an interrupt.
wait_offer ==
  /\ IF Offered \/ expired THEN Step("wait_offer", "offer") ELSE Step("wait_offer", "halt_offer")
  /\ UNCHANGED <<rx_msg_type, offered, req, expired, net_config, acked>>

halt_offer ==
  /\ Step("halt_offer", "wait_offer")
  /\ UNCHANGED <<rx_msg_type, offered, req, expired, net_config, acked>>

\* The call fails.  net_autoconfig, the first caller, falls back to a static
\* configuration; the command does not.
Fails == net_config' = IF expected_xid = 1 THEN Static ELSE net_config

no_offer ==
  /\ ~Offered
  /\ Step("offer", "idle") /\ Fails
  /\ UNCHANGED <<rx_msg_type, offered, req, expired, acked>>

read_ip ==
  /\ Offered
  /\ Step("offer", "read_srv")
  /\ req' = [NoLease EXCEPT !.ip = offered.ip]
  /\ UNCHANGED <<rx_msg_type, offered, expired, net_config, acked>>

read_srv ==
  /\ Step("read_srv", "request")
  /\ req' = [req EXCEPT !.srv = offered.srv]
  /\ UNCHANGED <<rx_msg_type, offered, expired, net_config, acked>>

send_request ==
  /\ Step("request", "wait_ack")
  /\ rx_msg_type' = "none" /\ expired' = FALSE
  /\ UNCHANGED <<offered, req, net_config, acked>>

\* The controller's ring is full and the message cannot be sent.
send_error ==
  /\ Step("discover", "idle") \/ Step("request", "idle")
  /\ Fails /\ rx_msg_type' = "none"
  /\ UNCHANGED <<offered, req, expired, acked>>

wait_ack ==
  /\ IF rx_msg_type = "ack" \/ expired THEN Step("wait_ack", "bind") ELSE Step("wait_ack", "halt_ack")
  /\ UNCHANGED <<rx_msg_type, offered, req, expired, net_config, acked>>

halt_ack ==
  /\ Step("halt_ack", "wait_ack")
  /\ UNCHANGED <<rx_msg_type, offered, req, expired, net_config, acked>>

\* The test for a missing ACK also wants req_ip to be zero, which it never is here.
bind ==
  /\ Step("bind", "bind_gw")
  /\ net_config' = [net_config EXCEPT !.ip = IF offered.ip # 0 THEN offered.ip ELSE req.ip]
  /\ UNCHANGED <<rx_msg_type, offered, req, expired, acked>>

bind_gw ==
  /\ Step("bind_gw", "idle")
  /\ net_config' = [net_config EXCEPT !.gw = offered.gw, !.srv = offered.srv]
  /\ UNCHANGED <<rx_msg_type, offered, req, expired, acked>>

-----------------------------------------------------------------------------
DhcpTask ==
  \/ send_discover \/ wait_offer \/ halt_offer \/ no_offer \/ read_ip \/ read_srv
  \/ send_request \/ send_error \/ wait_ack \/ halt_ack \/ bind \/ bind_gw
DhcpNext == server_offer \/ server_ack \/ handle_dhcp \/ dhcp_timeout \/ net_dhcp_discover \/ DhcpTask

DhcpSpec == DhcpInit /\ [][DhcpNext]_dhcpVars

-----------------------------------------------------------------------------
\* With one server, the configuration in use after a call is the static fallback
\* or one whole lease that the server offered, with its own gateway, and after a
\* call that was acknowledged it is the lease of that call, never a late reply to
\* an earlier one.
ConfigIsALease ==
  dpc = "idle" /\ expected_xid > 0 =>
    \/ net_config = Static
    \/ \E s \in Servers, x \in 1..MaxCalls :
         net_config = promised[s, x] /\ net_config.ip # 0 /\ (acked # {} => x = expected_xid)

\* A REQUEST asks a server for an address that this server offered in this call.
AsksTheOfferer == dpc = "request" => promised[req.srv, expected_xid].ip = req.ip

=============================================================================
