------------------------------- MODULE MCNetwork -------------------------------
(***************************************************************************)
(* Small instances of Network for TLC: three neighbours and a remote host. *)
(***************************************************************************)
EXTENDS Network

Unasked(kind, from, to, n) ==
    [kind |-> kind, from |-> from, to |-> to, n |-> n, tag |-> 0]

\* An echo request from one neighbour and an ARP request from another, an answer to
\* someone else that the card picks up, and an answer of a name server to its own
\* port.  With the gateway three hosts send ARP packets, one more than the cache holds.
MCUnsolicited == {Unasked("echo_request", "peer", Me, 1),
                  Unasked("arp_request", "third", Me, 0),
                  Unasked("echo_reply", "far", "gw", 1),
                  Unasked("dns_answer", "gw", Me, DNS_PORT)}
Quiet == {}
MCPings == {<<"peer", FALSE>>, <<"far", TRUE>>}

=============================================================================
