------------------------------ MODULE MCEngine ------------------------------
(* What the engine and the manager do to the system they run on, in parts that *)
(* share no state: the engine's threads of io.c and tunnel.c (EngineIO), its   *)
(* routes and resolv.conf (EngineNetwork) and its framing of either direction  *)
(* towards pppd (Hdlc); the manager's providers of routes and DNS rules        *)
(* (NativeBackends) and of a link's DNS in systemd-resolved (ResolvedLink).    *)
(* In a behaviour one of them moves.                                           *)
EXTENDS EngineIO, EngineNetwork, Hdlc, NativeBackends, ResolvedLink

VARIABLE part

\* Packets whose bytes or check sequences hold flags, escapes, control
\* characters, and bytes that look like the address and control fields: check
\* sequences 0a 7e, 7e a6, 7e 81, fa 7d, e2 7e; address and control.
Packets == {<<\h00, \h7d>>, <<\h5d, \h23>>, <<\h5e, \hfe>>, <<\h05>>, <<\h36>>, <<\hff, \h03>>}

\* A host on which nothing is to be done, while another part moves.
NetRests ==
  /\ ~config.setRoutes /\ ~config.setDns /\ ~config.resolvconf
  /\ config.mode = "split" /\ orig.resolv = {"user"}
  /\ tun.text = [s \in Slots |-> NoText]

\* Tables of a system in which no provider is at work.
ProvidersRest == kind = "linux" /\ table = Nowhere
LinkRests == dnsLink = Blank /\ scoped

MCInit ==
  /\ part \in {"threads", "network", "up", "down", "backends", "resolved"}
  /\ IoInit /\ NetInit /\ HdlcInit /\ BackInit /\ LinkInit
  /\ part # "network" => NetRests
  /\ part # "backends" => ProvidersRest
  /\ part # "resolved" => LinkRests

\* The variables of the manager's parts, and those of the engine's.
providerVars == <<backVars, linkVars>>
engineVars == <<ioVars, netVars, hdlcVars>>

MCNext ==
  \/ part = "threads" /\ IoNext /\ UNCHANGED <<part, netVars, hdlcVars, providerVars>>
  \/ part = "network" /\ NetNext /\ UNCHANGED <<part, ioVars, hdlcVars, providerVars>>
  \/ part = "up" /\ Upwards /\ UNCHANGED <<part, ioVars, netVars, providerVars>>
  \/ part = "down" /\ Downwards /\ UNCHANGED <<part, ioVars, netVars, providerVars>>
  \/ part = "backends" /\ BackNext /\ UNCHANGED <<part, engineVars, linkVars>>
  \/ part = "resolved" /\ LinkNext /\ UNCHANGED <<part, engineVars, backVars>>

MCSpec == MCInit /\ [][MCNext]_<<part, engineVars, providerVars>>
=============================================================================
