------------------------------ MODULE MCPaging ------------------------------
(***************************************************************************)
(* Instances of Paging: a portable of another make and one with this        *)
(* library, whose IPUIs differ.  The default identity of the first and one  *)
(* of the TPUIs end like the identity of a portable that has none.  There   *)
(* are connections of every kind that the messages tell apart, and pages    *)
(* that this library does not send.                                         *)
(***************************************************************************)
EXTENDS Paging

CONSTANTS p1, p2

IpuiN(emc, psn) == [put |-> PutN, ipei |-> [emc |-> emc, psn |-> psn]]

Ipuis == [p \in {p1, p2} |-> IF p = p1 THEN IpuiN(4660, 65536) ELSE IpuiN(4660, 5)]

Assigned(a, b, c, d, e) == [type |-> "assigned", digits |-> <<a, b, c, d, e>>]

Tpuis == {Assigned(1, 0, 0, 0, 0), Assigned(0, 0, 1, 0, 2)}

FirstTpui == Assigned(1, 0, 0, 0, 0)

\* A short page, full pages whose service is kept and lost, and one that rings
Connections == {DefaultMcp, [service |-> "in_normal_delay", slot |-> "full"],
                [service |-> "ip_error_detection", slot |-> "double"],
                [service |-> "unknown", slot |-> "long640"]}

\* A group ring, a full page by IPUI, and a header that means a BUG()
OtherPages == {ShortPage("unknown_ringing", FALSE, 4095),
               FullPage("auxiliary", FALSE, IpuiInfo(Ipuis[p1]), 4),
               FullPage("escape", TRUE, 0, 4)}

=============================================================================
