--------------------------- MODULE EngineNetwork ---------------------------
(***************************************************************************)
(* What the engine itself does to the host's routes and resolv.conf when   *)
(* no manager owns the network: thread if_config applies them call by call *)
(* once the PPP interface is up, and can fail or be cancelled between any  *)
(* two calls; the main thread then joins it and undoes what was done,      *)
(* while pppd may take the interface away at any moment.                   *)
(***************************************************************************)
EXTENDS Integers

CONSTANTS
  Modes,        \* how traffic enters the tunnel: subset of {"default", "half", "split"}
  KnownGateway, \* can a host route to the gateway exist already?  Subset of BOOLEAN
  SuffixForms,     \* DNS suffixes of the gateway: subset of {NoText, "plain", "list"}
  MaxAcks,      \* bound: IPCP acknowledgements with addresses
  MaxFault      \* bound: calls that fail

NoText == "none"

ASSUME NetworkAssumption ==
  /\ Modes \subseteq {"default", "half", "split"} /\ KnownGateway \subseteq BOOLEAN
  /\ SuffixForms \subseteq {NoText, "plain", "list"} /\ {MaxAcks, MaxFault} \subseteq Nat

VARIABLES
  config,  \* the gateway's and the user's settings
  orig,    \* the host before the engine started
  routes,  \* the kernel's routing table
  resolv,  \* lines of /etc/resolv.conf, and resolvconf's entry
  link,    \* the PPP interface
  step,    \* the call if_config makes next
  tun,     \* struct tunnel
  undo,    \* the call the main thread makes next
  failed,  \* on_ppp_if_down's failed
  acks, faults,
  spoilt   \* a call of the cleanup failed for a reason of its own

netVars == <<config, orig, routes, resolv, link, step, tun, undo, failed, acks, faults, spoilt>>

ViaPpp == {"pppDefault", "half0", "half1", "split", "wrong"}
Routes == {"default", "gateway"} \cup ViaPpp
Slots == {"ns1", "suffix"}
\* Addresses and suffixes as resolv.conf shows them; a suffix list has its ';' replaced.
Lines == {"user", "a", "b", "plain", "list", "spaced", "resolvconf"}
Texts == {NoText, "a", "b", "plain", "list"}

TunnelState == [gtwAdded : BOOLEAN, pppRt : {"unset", "any", "tunnel"}, routesStarted : BOOLEAN,
                dnsStarted : BOOLEAN, text : [Slots -> Texts], wasThere : [Slots -> {-1, 0, 1}]]

NetTypeOK ==
  /\ config \in [mode : Modes, setRoutes : BOOLEAN, setDns : BOOLEAN, resolvconf : BOOLEAN]
  /\ orig \in [routes : SUBSET Routes, resolv : SUBSET Lines]
  /\ routes \subseteq Routes /\ resolv \subseteq Lines
  /\ link \in {"down", "up", "gone"}
  /\ step \in {"await", "drop", "default", "flag", "gateway", "split", "half0", "half1", "clear",
               "tunnel", "read", "write", "emit", "up", "failed", "cancelled"}
  /\ tun \in TunnelState
  /\ undo \in {"running", "delGateway", "delPpp", "setDefault", "dns", "terminate", "done"}
  /\ {failed, spoilt} \subseteq BOOLEAN
  /\ acks \in 0..MaxAcks /\ faults \in 0..MaxFault

NetInit ==
  /\ config \in [mode : Modes, setRoutes : BOOLEAN, setDns : BOOLEAN, resolvconf : BOOLEAN]
  /\ \E known \in KnownGateway, lines \in SUBSET {"a", "b", "spaced"}, suffix \in SuffixForms :
       /\ orig = [routes |-> {"default"} \cup (IF known THEN {"gateway"} ELSE {}),
                  resolv |-> lines \cup {"user"}]
       /\ \E address \in {NoText, "a"} :
            tun = [gtwAdded |-> FALSE, pppRt |-> "unset", routesStarted |-> FALSE,
                   dnsStarted |-> FALSE,
                   text |-> [s \in Slots |-> IF s = "ns1" THEN address ELSE suffix],
                   wasThere |-> [s \in Slots |-> 0]]
  /\ routes = orig.routes /\ resolv = orig.resolv
  /\ link = "down" /\ step = "await" /\ undo = "running"
  /\ failed = FALSE /\ spoilt = FALSE /\ acks = 0 /\ faults = 0

----------------------------------------------------------------------------
(* The kernel and pppd *)

\* Does the call succeed?  It may fail for a reason of its own while faults are left.
Works == {TRUE} \cup (IF faults < MaxFault THEN {FALSE} ELSE {})
Charge(ok) == faults' = IF ok THEN faults ELSE faults + 1

\* ipv4_set_route: an identical route is EEXIST, a route needs its interface.
Settable(r) == r \notin routes /\ (r \in ViaPpp => link = "up")
ipv4_set_route(r, ok) == routes' = IF ok /\ Settable(r) THEN routes \cup {r} ELSE routes
\* ipv4_del_route: a route that is not there is ESRCH.
ipv4_del_route(r, ok) == routes' = IF ok THEN routes \ {r} ELSE routes

\* pppd brings the interface up, perhaps with a route to the gateway through itself.
LinkUp ==
  /\ link = "down" /\ undo = "running"
  /\ link' = "up"
  /\ \E extra \in SUBSET {"wrong"} : routes' = routes \cup extra
  /\ UNCHANGED <<config, orig, resolv, step, tun, undo, failed, acks, faults, spoilt>>

\* pppd ends: the interface and every route through it are gone.
LinkGone ==
  /\ link = "up"
  /\ link' = "gone" /\ routes' = routes \ ViaPpp
  /\ UNCHANGED <<config, orig, resolv, step, tun, undo, failed, acks, faults, spoilt>>

\* ssl_read meets an IPCP acknowledgement while the tunnel is connecting.
ssl_read_ipcp ==
  /\ undo = "running" /\ step # "up" /\ acks < MaxAcks
  /\ acks' = acks + 1
  /\ \E address \in {tun.text["ns1"], "b"} : tun' = [tun EXCEPT !.text["ns1"] = address]
  /\ UNCHANGED <<config, orig, routes, resolv, link, step, undo, failed, faults, spoilt>>

----------------------------------------------------------------------------
(* Thread if_config: on_ppp_if_up, one action per call *)

Configuring(s) == undo = "running" /\ step = s
Kept == UNCHANGED <<config, orig, link, undo, failed, acks, spoilt>>

AfterRoutes == IF config.setDns THEN "read" ELSE "emit"

if_config_network ==
  /\ Configuring("await") /\ acks > 0 /\ link = "up"
  /\ step' = "drop"
  /\ Kept /\ UNCHANGED <<routes, resolv, tun, faults>>

ipv4_drop_wrong_route ==
  /\ Configuring("drop")
  /\ \E ok \in Works :
       /\ Charge(ok) /\ ipv4_del_route("wrong", ok)
       /\ step' = IF ~ok THEN "failed" ELSE IF config.setRoutes THEN "default" ELSE AfterRoutes
       /\ tun' = [tun EXCEPT !.routesStarted = ok /\ config.setRoutes]
  /\ Kept /\ UNCHANGED resolv

AfterProtect(protected) ==
  IF config.mode = "split" THEN "split"
  ELSE IF ~protected THEN "failed"
  ELSE IF config.mode = "half" THEN "half0" ELSE "clear"

\* Both lookups of ipv4_protect_tunnel_route; route_to_vpn_is_added is set before the route is.
LookUpRoutes ==
  /\ Configuring("default")
  /\ \E ok \in Works :
       LET protected == ok /\ "default" \in routes IN
         /\ Charge(ok)
         /\ step' = IF protected THEN "gateway" ELSE AfterProtect(FALSE)
         /\ tun' = [tun EXCEPT !.gtwAdded = protected]
  /\ Kept /\ UNCHANGED <<routes, resolv>>

\* A route that exists is not the engine's; any other failure is only logged.
ipv4_protect_tunnel_route ==
  /\ Configuring("gateway")
  /\ \E ok \in Works :
       /\ Charge(ok) /\ ipv4_set_route("gateway", ok)
       /\ tun' = [tun EXCEPT !.gtwAdded = ~ok \/ "gateway" \notin routes]
  /\ step' = AfterProtect(TRUE)
  /\ Kept /\ UNCHANGED resolv

ipv4_set_split_routes ==
  /\ Configuring("split")
  /\ \E ok \in Works :
       /\ Charge(ok) /\ ipv4_set_route("split", ok)
       /\ step' = IF ok /\ (link = "up" \/ "split" \in routes) THEN AfterRoutes ELSE "failed"
  /\ Kept /\ UNCHANGED <<resolv, tun>>

\* ipv4_set_default_routes deletes the default route, then sets its own; failures are logged.
DropDefault ==
  /\ Configuring("clear")
  /\ \E ok \in Works : Charge(ok) /\ ipv4_del_route("default", ok)
  /\ tun' = [tun EXCEPT !.pppRt = "any"] /\ step' = "tunnel"
  /\ Kept /\ UNCHANGED resolv

ipv4_set_default_routes ==
  /\ Configuring("tunnel")
  /\ \E ok \in Works : Charge(ok) /\ ipv4_set_route("pppDefault", ok)
  /\ tun' = [tun EXCEPT !.pppRt = "tunnel"] /\ step' = AfterRoutes
  /\ Kept /\ UNCHANGED resolv

HalfInternet ==
  /\ \E half \in {"half0", "half1"} :
       /\ Configuring(half)
       /\ \E ok \in Works : Charge(ok) /\ ipv4_set_route(half, ok)
       /\ step' = IF half = "half0" THEN "half1" ELSE AfterRoutes
  /\ Kept /\ UNCHANGED <<resolv, tun>>

\* replace_char: the list is written with blanks.
Written(text) == IF text = "list" THEN "spaced" ELSE text

\* dns_line_present for each slot; -1: nothing to write, 1: the user has the line already.
Present(s) ==
  IF tun.text[s] = NoText THEN -1
  ELSE IF ~config.resolvconf /\ Written(tun.text[s]) \in resolv THEN 1 ELSE 0

ReadResolv ==
  /\ Configuring("read")
  /\ \E ok \in Works :
       /\ Charge(ok)
       /\ step' = IF ok THEN "write" ELSE "failed"
       /\ tun' = IF ok THEN [tun EXCEPT !.dnsStarted = TRUE,
                                        !.wasThere = [s \in Slots |-> Present(s)]]
                 ELSE tun
  /\ Kept /\ UNCHANGED <<routes, resolv>>

\* The texts of the slots whose flag says their line was added by the engine.
Added == {tun.text[s] : s \in {x \in Slots : tun.wasThere[x] = 0 /\ tun.text[x] # NoText}}

\* A write that fails may still have reached the file.
ipv4_add_nameservers_to_resolv_conf ==
  /\ Configuring("write")
  /\ LET new == resolv \cup IF config.resolvconf THEN {"resolvconf"} ELSE {Written(t) : t \in Added} IN
     \E ok \in Works :
       /\ Charge(ok)
       /\ resolv' \in IF ok THEN {new} ELSE {resolv, new}
       /\ step' = IF ok THEN "emit" ELSE "failed"
  /\ Kept /\ UNCHANGED <<routes, tun>>

\* The tunnel_up event, then STATE_UP.
TunnelUp ==
  /\ Configuring("emit")
  /\ step' = "up"
  /\ Kept /\ UNCHANGED <<routes, resolv, tun, faults>>

----------------------------------------------------------------------------
(* The main thread: io_loop stops the workers, on_ppp_if_down cleans up *)

Cleaning(m) == undo = m
Undone == UNCHANGED <<config, orig, link, step, tun, acks>>
Note(ok) == spoilt' = (spoilt \/ ~ok)

\* A signal, an error of a worker or a failed configuration; if_config is cancelled and joined.
StopWorkers ==
  /\ undo = "running"
  /\ step' = IF step \in {"up", "failed"} THEN step ELSE "cancelled"
  /\ undo' = IF tun.routesStarted /\ tun.gtwAdded THEN "delGateway" ELSE "dns"
  /\ UNCHANGED <<config, orig, routes, resolv, link, tun, failed, acks, faults, spoilt>>

\* Mutant: the default route is left to the kernel in every mode.
DelGatewayOnly ==
  /\ Cleaning("delGateway")
  /\ \E ok \in Works :
       /\ Charge(ok) /\ Note(ok) /\ ipv4_del_route("gateway", ok)
       /\ failed' = (failed \/ ~ok \/ "gateway" \notin routes)
  /\ undo' = "dns"
  /\ Undone /\ UNCHANGED resolv

\* ipv4_restore_routes, only if the route to the gateway is the engine's.
DelGateway ==
  /\ Cleaning("delGateway")
  /\ \E ok \in Works :
       /\ Charge(ok) /\ Note(ok) /\ ipv4_del_route("gateway", ok)
       /\ failed' = (failed \/ ~ok \/ "gateway" \notin routes)
  /\ undo' = IF config.mode = "default" THEN "delPpp" ELSE "dns"
  /\ Undone /\ UNCHANGED resolv

\* A ppp_rt without interface names any default route, one never set up names none.
DelPpp ==
  /\ Cleaning("delPpp")
  /\ \E ok \in Works :
       LET named == CASE tun.pppRt = "tunnel" -> {"pppDefault"}
                      [] tun.pppRt = "any"    -> {"default", "pppDefault"} \cap routes
                      [] OTHER                -> {}
       IN \/ /\ ok /\ named \cap routes # {}
             /\ \E r \in named \cap routes : routes' = routes \ {r}
             /\ failed' = failed
             /\ Charge(ok) /\ Note(ok)
          \/ /\ ~ok \/ named \cap routes = {}
             /\ failed' = TRUE
             /\ Charge(ok) /\ Note(ok) /\ UNCHANGED routes
  /\ undo' = "setDefault"
  /\ Undone /\ UNCHANGED resolv

SetDefault ==
  /\ Cleaning("setDefault")
  /\ \E ok \in Works :
       /\ Charge(ok) /\ Note(ok) /\ ipv4_set_route("default", ok)
       /\ failed' = (failed \/ ~ok \/ "default" \in routes)
  /\ undo' = "dns"
  /\ Undone /\ UNCHANGED resolv

\* Drops the lines the engine added, by the text it has for them now.
ipv4_del_nameservers_from_resolv_conf ==
  /\ Cleaning("dns") /\ tun.dnsStarted
  /\ \E ok \in Works :
       /\ Charge(ok) /\ Note(ok)
       /\ resolv' = IF ~ok THEN resolv
                    ELSE IF config.resolvconf THEN resolv \ {"resolvconf"}
                    ELSE resolv \ Added
       /\ failed' = (failed \/ ~ok)
  /\ undo' = "terminate"
  /\ Undone /\ UNCHANGED routes

NoDns ==
  /\ Cleaning("dns") /\ ~tun.dnsStarted
  /\ undo' = "terminate"
  /\ Undone /\ UNCHANGED <<routes, resolv, failed, faults, spoilt>>

\* pppd_terminate waits for pppd, whose interface goes with it.
pppd_terminate_link ==
  /\ Cleaning("terminate")
  /\ undo' = "done"
  /\ link' = "gone" /\ routes' = routes \ ViaPpp
  /\ UNCHANGED <<config, orig, resolv, step, tun, failed, acks, faults, spoilt>>

Applying ==
  \/ if_config_network \/ ipv4_drop_wrong_route \/ LookUpRoutes \/ ipv4_protect_tunnel_route
  \/ ipv4_set_split_routes \/ DropDefault \/ ipv4_set_default_routes \/ HalfInternet
  \/ ReadResolv \/ ipv4_add_nameservers_to_resolv_conf \/ TunnelUp

Restoring ==
  \/ StopWorkers \/ DelGateway \/ DelPpp \/ SetDefault
  \/ ipv4_del_nameservers_from_resolv_conf \/ NoDns \/ pppd_terminate_link

NetNext == LinkUp \/ LinkGone \/ ssl_read_ipcp \/ Applying \/ Restoring

NetSpec == NetInit /\ [][NetNext]_netVars

----------------------------------------------------------------------------
(* Properties *)

\* Wherever if_config was when it failed or was cancelled, and whenever pppd took the interface
\* away, a cleanup whose own calls work leaves the routing table as it was (ipv4_restore_routes).
RoutesRestored == undo = "done" /\ ~spoilt => routes = orig.routes

\* The same for /etc/resolv.conf and resolvconf's entry (ipv4_del_nameservers_from_resolv_conf).
ResolvRestored == undo = "done" /\ ~spoilt => resolv = orig.resolv

\* cleanup_result never reports success while something of the engine's is left behind, or
\* something of the user's is gone.
ReportHonest == undo = "done" /\ ~failed => routes = orig.routes /\ resolv = orig.resolv

\* While the tunnel runs, traffic is sent into it only with a route to the gateway outside it
\* (unless setting that route failed): the tunnel never carries itself.
GatewayOutside ==
  undo = "running" /\ routes \cap {"pppDefault", "half0", "half1"} # {} /\ faults = 0
    => "gateway" \in routes

\* The host is put back as it was, or the report says that it was not; and in
\* between the tunnel never carries itself.
HostSound == NetTypeOK /\ RoutesRestored /\ ResolvRestored /\ ReportHonest /\ GatewayOutside

----------------------------------------------------------------------------
(* The inductive strengthening of HostSound, for a gateway no route leads to yet, suffixes that *)
(* are written as they are, and one acknowledgement.                                            *)

\* The routes that pppd does not take with it.
Lasting == routes \ ViaPpp

\* The host the engine found, and the texts it was given; once if_config acts they are settled.
HostFound ==
  /\ orig.routes = {"default"} /\ orig.resolv \subseteq {"user", "a", "b", "spaced"}
  /\ tun.text["ns1"] \in {NoText, "a", "b"} /\ tun.text["suffix"] \in {NoText, "plain"}
  /\ undo = "running" /\ step # "await" => acks = 1 /\ link # "down"
  /\ undo = "running" => step # "cancelled"

\* What struct tunnel says of the routes at each call of if_config.
RoutesNoted ==
  /\ tun.gtwAdded => tun.routesStarted
  /\ tun.pppRt # "unset" => config.mode = "default" /\ tun.gtwAdded
  /\ "pppDefault" \in routes => tun.pppRt = "tunnel"
  /\ {"half0", "half1"} \cap routes # {} => tun.gtwAdded
  /\ undo = "running" =>
       /\ step \in {"await", "drop"} => ~tun.routesStarted
       /\ step \in {"default", "gateway", "split", "half0", "half1", "clear", "tunnel"} => tun.routesStarted
       /\ step \in {"await", "drop", "default"} => ~tun.gtwAdded
       /\ step \in {"gateway", "half0", "half1", "clear", "tunnel"} => tun.gtwAdded
       /\ step \in {"clear", "tunnel"} => config.mode = "default"
       /\ step \in {"gateway", "clear"} => tun.pppRt = "unset"
       /\ step = "gateway" => routes \cap {"gateway", "pppDefault", "half0", "half1"} = {}
       /\ tun.gtwAdded /\ step # "gateway" /\ faults = 0 => "gateway" \in routes

\* What is left of the host's routes, before and while they are restored.
RoutesAccounted ==
  /\ Lasting \subseteq {"default", "gateway"}
  /\ ~tun.gtwAdded => Lasting = {"default"}
  /\ tun.pppRt = "unset" /\ ~spoilt => "default" \in routes
  /\ undo \in {"delGateway", "delPpp", "setDefault"} => tun.gtwAdded
  /\ undo \in {"delPpp", "setDefault"} => config.mode = "default" /\ (~spoilt => "gateway" \notin routes)
  /\ undo \in {"dns", "terminate", "done"} /\ ~spoilt => Lasting = {"default"}
  /\ undo = "done" => routes = Lasting /\ link = "gone"

\* The lines of resolv.conf are the user's and those the flags call the engine's.
OurText == IF config.resolvconf THEN {"resolvconf"} ELSE Added

ResolvAccounted ==
  /\ ~tun.dnsStarted => resolv = orig.resolv
  /\ tun.dnsStarted => OurText \cap orig.resolv = {}
  /\ tun.dnsStarted /\ undo \notin {"terminate", "done"} => resolv \ OurText = orig.resolv
  /\ undo \in {"terminate", "done"} /\ ~spoilt => resolv = orig.resolv
  /\ undo = "running" =>
       /\ step = "write" => tun.dnsStarted
       /\ tun.dnsStarted => step \in {"write", "emit", "up", "failed"}

\* A call of the cleanup that fails is reported.
SpoiltTold == spoilt => failed

NetInv == NetTypeOK /\ HostFound /\ RoutesNoted /\ RoutesAccounted /\ ResolvAccounted /\ SpoiltTold
=============================================================================
