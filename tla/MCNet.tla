------------------------------- MODULE MCNet -------------------------------
(***************************************************************************)
(* A TCP connection, the terminal's input, the console and a host's        *)
(* packets for TLC.  One behaviour is a behaviour of one part, and the     *)
(* others rest.                                                            *)
(*                                                                         *)
(* TCP: each end writes a byte, the client before it is acknowledged, over *)
(* a network that keeps order; and the client writes two over one that     *)
(* loses or doubles a packet.  Terminal: a reader of a canonical or raw    *)
(* terminal, another task that changes its modes and flushes it, queues of *)
(* one and two characters.  Console: a page of two lines over a memory of  *)
(* two pages, so that it is copied at every second line.  Packets: an ARP  *)
(* table of one entry, which two neighbours dispute while packets wait in  *)
(* it; packets that ICMP answers while the route to their sender changes;  *)
(* and datagrams from a neighbour and from the host itself for receivers.  *)
(***************************************************************************)
EXTENDS Ip, Tty, Console

CONSTANTS t1, t2

VARIABLES
  part,
  sock, net, nfault, app, asleep, unsent, sent, got, shut, eof

conn == <<sock, net, nfault, app, asleep, unsent, sent, got, shut, eof>>

Iss == [e \in {"c", "s"} |-> IF e = "c" THEN 1 ELSE 3]
Fifo == INSTANCE Tcp WITH
          pending <- unsent,
          MODULUS <- 64, ISS <- Iss, OPTLEN <- 1, MAXREXMIT <- 4, MAXDELACK <- 2,
          SNDBUF <- 20, RCVBUF <- 4, MaxSend <- [e \in {"c", "s"} |-> 1],
          Faults <- {}, MaxFaults <- 0, Pipelined <- TRUE, Hasty <- FALSE
Lossy == INSTANCE Tcp WITH
           pending <- unsent,
           MODULUS <- 64, ISS <- Iss, OPTLEN <- 1, MAXREXMIT <- 4, MAXDELACK <- 2,
           SNDBUF <- 20, RCVBUF <- 4, MaxSend <- [e \in {"c", "s"} |-> IF e = "c" THEN 2 ELSE 0],
           Faults <- {"lose", "dup"}, MaxFaults <- 1, Pipelined <- FALSE, Hasty <- FALSE

\* A letter that is INTR with control, return, backspace, and control.
CharKey(c, ctrl) ==
  [hook |-> "char", ascii |-> c, shift |-> c, upper |-> c, alpha |-> FALSE, ctrl |-> ctrl]
Map == [letter |-> CharKey("c", "intr"), enter |-> CharKey("cr", "none"),
        bs |-> CharKey("erase", "kill"), ctrl |-> [hook |-> "ctrl"]]
Modes == {[icanon |-> canon, isig |-> TRUE, vmin |-> 1, vtime |-> 0] : canon \in BOOLEAN}
           \cup {[icanon |-> FALSE, isig |-> TRUE, vmin |-> 2, vtime |-> 1]}
Keys == DOMAIN Map
Written == {"ESC", "LF", "CR", "HT", "DEL", "[", "1", "2", ";", "H", "K", "@", "E"}

\* Neighbours a and b, this host m on the ethernet and lo.
Hw == [a |-> "ha", b |-> "hb"]
ArpFrame(op, spa) ==
  [type |-> "arp", op |-> op, spa |-> spa, tpa |-> "m", sha |-> Hw[spa], hw |-> "none"]
IpFrame(proto, src) ==
  [type |-> "ip", ok |-> TRUE, proto |-> proto, src |-> src, dst |-> "m", dport |-> "p",
   hop |-> "any", hw |-> "none"]
Route(daddr, covers, dev) ==
  [host |-> FALSE, gateway |-> "any", daddr |-> daddr, net |-> covers, dev |-> dev]
Routed == <<Route("lo", {"lo"}, "lo"), Route("m", {"a", "b", "m"}, "eth")>>
MCAddr == {"a", "b", "m", "lo", "any"}
MCHwAddr == {"ha", "hb", "me", "none", "bcast"}
UdpFrames == {IpFrame("udp", "a")}
UdpDests == {[addr |-> "m", port |-> "p"]}
Arp == INSTANCE Ip WITH
         Frames <- {ArpFrame("reply", "a"), ArpFrame("request", "b")},
         Dests <- {[addr |-> to, port |-> "p"] : to \in {"a", "b"}},
         Ports <- {}, Peers <- {}, Posts <- 0
Icmp == INSTANCE Ip WITH
         Frames <- {IpFrame("icmp", "a"), IpFrame("tcp", "b"), ArpFrame("odd", "b")},
         Routes <- {[Route("a", {}, "eth") EXCEPT !.host = TRUE, !.gateway = "b"]},
         Ports <- {}, Peers <- {}, Posts <- 0

Init ==
  /\ part \in {"fifo", "lossy", "tty", "console", "arp", "icmp", "udp"}
  /\ Fifo!TcpInit /\ TtyInit /\ ConInit
  /\ IpInit
Next ==
  \/ part = "fifo" /\ Fifo!TcpNext /\ UNCHANGED <<part, ttyvars, convars, ipvars>>
  \/ part = "lossy" /\ Lossy!TcpNext /\ UNCHANGED <<part, ttyvars, convars, ipvars>>
  \/ part = "tty" /\ TtyNext /\ UNCHANGED <<part, conn, convars, ipvars>>
  \/ part = "console" /\ ConNext /\ UNCHANGED <<part, conn, ttyvars, ipvars>>
  \/ part = "arp" /\ Arp!IpNext /\ UNCHANGED <<part, conn, ttyvars, convars, rcv>>
  \/ part = "icmp" /\ Icmp!IpNext /\ UNCHANGED <<part, conn, ttyvars, convars, rcv>>
  \/ part = "udp" /\ IpNext /\ UNCHANGED <<part, conn, ttyvars, convars>>

Spec == Init /\ [][Next]_<<part, conn, ttyvars, convars, ipvars>>

----------------------------------------------------------------------------
\* A connection is a stream of bytes in both directions, whatever is sent again
\* by the timer and received twice; and an acknowledgement never drops from
\* unackedq what the other end has not received.
KeepsStream ==
  /\ Fifo!ImplementsStream
  /\ [](part \in {"fifo", "lossy"} => Fifo!NothingForgotten)
=============================================================================
