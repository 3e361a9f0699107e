-------------------------------- MODULE Network --------------------------------
(***************************************************************************)
(* The network stack of EphemeralOS (src/net) as the ping command uses it: *)
(* IP over Ethernet with an ARP cache, ICMP echo, and DNS over UDP.        *)
(*                                                                         *)
(* One thread runs the command, and it is also the one that receives: each *)
(* wait (for an ARP answer in ip_send, for an echo reply, for a DNS        *)
(* answer) polls the card and handles the frame it gets.  Handling an echo *)
(* request calls ip_send, which may wait and poll in turn, before the      *)
(* outer wait goes on.  `calls' is the stack of these ip_send calls; the   *)
(* command itself (pc) goes on when it is empty.                           *)
(*                                                                         *)
(* Abstractions.  A hardware address is written as its owner's IP address. *)
(* Frames are well-formed: the checks of lengths, versions and operation   *)
(* codes pass.  The card hands over whole frames, whatever their address   *)
(* (RCR accepts all of them), may lose them, delay them or repeat them.    *)
(***************************************************************************)
EXTENDS Integers, Sequences, FiniteSets

CONSTANTS
    ARP_CACHE_SIZE,     \* entries of the ARP cache (32)
    MAX_PING_STATES,    \* slots for echo requests (16)
    REPLY_AGE,          \* after it a slot with an answer is reused (5000)
    ARP_RETRIES,        \* polls for an ARP answer (10)
    PING_TIMEOUT,       \* polls for an echo reply (1000)
    DNS_TIMEOUT_MS,     \* polls for a DNS answer (5000)
    PING_COUNT,         \* echo requests of one ping (4)
    Local,              \* the hosts of our subnet
    Remote,             \* the hosts behind the gateway
    Gateway,            \* our subnet's .1
    dns_server,         \* the name server
    Pings,              \* what the user may ping: <<host, whether by name>>
    Unsolicited,        \* packets the hosts send by themselves
    MaxPings,           \* bound: how often the user runs ping
    MaxRepeats          \* bound: how many frames the card hands over again

Me == "me"
Broadcast == "broadcast"
Host == Local \cup Remote
DNS_PORT == 53
QueryPort == 12345          \* the source port of a DNS query

\* A packet: an ARP packet (n is 0), an echo (n is its sequence number) or a
\* UDP datagram (n is the port it goes to, or the one a query comes from).  tag
\* is the run of ping it belongs to; only the properties read it.
Kind == {"arp_request", "arp_reply", "echo_request", "echo_reply",
         "dns_query", "dns_answer"}
Packet == [kind : Kind, from : Host \cup {Me}, to : Host \cup {Me},
           n : Nat, tag : Nat]

\* No sequence number of a ping is the port of a query.
ASSUME NetworkAssumption ==
    /\ ARP_CACHE_SIZE \in Nat \ {0} /\ MAX_PING_STATES \in Nat
    /\ REPLY_AGE \in Nat /\ ARP_RETRIES \in Nat \ {0}
    /\ PING_TIMEOUT \in Nat \ {0} /\ DNS_TIMEOUT_MS \in Nat
    /\ PING_COUNT \in Nat /\ PING_COUNT < QueryPort
    /\ MaxPings \in Nat /\ MaxRepeats \in Nat

ASSUME HostsAssumption ==
    /\ Gateway \in Local /\ dns_server \in Host
    /\ {Me, Broadcast} \cap Host = {} /\ Local \cap Remote = {}
    /\ Pings \subseteq Host \X BOOLEAN
    /\ Unsolicited \subseteq {p \in Packet : p.from \in Host /\ p.tag = 0}

VARIABLES
    arp_cache,          \* index -> [valid, ip, mac]
    ping_states,        \* slot -> [ip, sequence, timestamp, received]
    icmp_timer,
    resolution_complete,
    calls,              \* the running ip_send calls, the innermost last
    pc,                 \* where the ping command is
    target,             \* the host it pings
    i,                  \* how many echo requests it has sent
    limit,              \* when its present wait ends
    report,             \* what it printed last
    wire,               \* the packets that may still reach the card
    repeats,            \* how many frames were handed over again
    out,                \* the frame the last step sent
    session,            \* how many pings were run
    heard               \* <<session, host, n>> of every answer received

stack == <<arp_cache, ping_states, icmp_timer, resolution_complete>>
command == <<pc, target, i, limit, report, session>>
link == <<wire, repeats>>
vars == <<stack, calls, command, link, out, heard>>

CacheIndex == 0 .. ARP_CACHE_SIZE - 1
PingSlot == 0 .. MAX_PING_STATES - 1

NoEntry == [valid |-> FALSE, ip |-> Me, mac |-> Me]
NoPing == [ip |-> Me, sequence |-> 0, timestamp |-> 0, received |-> FALSE]
NoPacket == [kind |-> "arp_reply", from |-> Me, to |-> Me, n |-> 0, tag |-> 0]
NoFrame == [mac |-> Me, packet |-> NoPacket]

First(S) == CHOOSE m \in S : \A n \in S : m <= n

-----------------------------------------------------------------------------
(* The ARP cache                                                           *)

Unused == {k \in CacheIndex : ~ arp_cache[k].valid}

\* The search for ip stops at the first unused entry (mutant: one entry early).
SearchedShort == {k \in CacheIndex : \A j \in Unused : k + 1 < j}
Searched == {k \in CacheIndex : \A j \in Unused : k < j}
Known(ip) == {k \in CacheIndex : arp_cache[k].valid /\ arp_cache[k].ip = ip}

\* Nothing advances arp_timer, so all entries are equally old: of a full cache
\* the first is replaced.
Victim == IF Unused = {} THEN 0 ELSE First(Unused)

\* Mutant: the address is copied into an unused entry only.
arp_add_entry_keeps_mac(ip, mac) ==
    LET k == IF Known(ip) \cap Searched # {} THEN First(Known(ip)) ELSE Victim
    IN  arp_cache' = [arp_cache EXCEPT ![k].valid = TRUE, ![k].ip = ip,
                          ![k].mac = IF k \in Unused THEN mac ELSE @]
arp_add_entry(ip, mac) ==
    LET k == IF Known(ip) \cap Searched # {} THEN First(Known(ip)) ELSE Victim
    IN  arp_cache' = [arp_cache EXCEPT ![k] = [valid |-> TRUE, ip |-> ip, mac |-> mac]]

arp_resolved(ip) == Known(ip) # {}
arp_resolve(ip) == arp_cache[First(Known(ip))].mac

\* The neighbour that gets a packet for dest_ip: itself or the gateway.
NextHop(dest_ip) == IF dest_ip \in Local THEN dest_ip ELSE Gateway

-----------------------------------------------------------------------------
(* The card: what we send is answered by whoever gets it (external), and   *)
(* what the hosts send may come in any order, late, twice or never.        *)

\* An ARP request is a broadcast, the others count at their next hop only.
AnswerKinds == {<<"arp_request", "arp_reply">>, <<"echo_request", "echo_reply">>,
                <<"dns_query", "dns_answer">>}
Answers(mac, p) ==
    {[p EXCEPT !.kind = k[2], !.from = p.to, !.to = Me] :
        k \in {q \in AnswerKinds : /\ q[1] = p.kind
                                  /\ mac \in {Broadcast, NextHop(p.to)}}}

network_send_packet(mac, packet) ==
    /\ out' = [mac |-> mac, packet |-> packet]
    /\ wire' = wire \cup Answers(mac, packet)
    /\ UNCHANGED repeats
Silent == out' = NoFrame

Arrive(p) ==
    /\ p \in wire
    /\ \/ wire' = wire \ {p} /\ UNCHANGED repeats
       \/ repeats < MaxRepeats /\ repeats' = repeats + 1 /\ UNCHANGED wire

-----------------------------------------------------------------------------
(* ip_send: a call on the stack                                            *)

Sending(packet) == [packet |-> packet, at |-> "resolve", retry |-> 0]

Top == calls[Len(calls)]
Hop == NextHop(Top.packet.to)
Popped == SubSeq(calls, 1, Len(calls) - 1)
WithTop(call) == Append(Popped, call)

arp_send_request(ip) ==
    network_send_packet(Broadcast,
        [kind |-> "arp_request", from |-> Me, to |-> ip, n |-> 0, tag |-> 0])

\* eth_send_frame to the hop's address, and ip_send returns.
Transmit ==
    /\ arp_resolved(Hop)
    /\ network_send_packet(arp_resolve(Hop), Top.packet)
    /\ calls' = Popped

-----------------------------------------------------------------------------
(* eth_receive_frame, called by a poll that leaves the stack as `returned' *)

arp_receive(p, returned) ==
    /\ p.kind \in {"arp_request", "arp_reply"}
    /\ arp_add_entry(p.from, p.from)
    /\ out' = IF p.kind = "arp_request" /\ p.to = Me
              THEN [mac |-> p.from,
                    packet |-> [kind |-> "arp_reply", from |-> Me, to |-> p.from,
                                n |-> 0, tag |-> 0]]
              ELSE NoFrame
    /\ calls' = returned
    /\ UNCHANGED <<ping_states, resolution_complete, heard>>

\* ip_receive drops what is not for us.  (It takes the broadcast address for ours;
\* packets to it are handled like those to Me.)
ip_discard(p, returned) ==
    /\ p.to # Me
    /\ calls' = returned
    /\ Silent /\ UNCHANGED <<arp_cache, ping_states, resolution_complete, heard>>

\* icmp_receive: a request is answered with a call of ip_send.
echo_request_receive(p, returned) ==
    /\ p.kind = "echo_request"
    /\ calls' = Append(returned, Sending([p EXCEPT !.kind = "echo_reply",
                                                   !.from = Me, !.to = p.from]))
    /\ Silent /\ UNCHANGED <<arp_cache, ping_states, resolution_complete, heard>>

\* icmp_receive: a reply marks the first slot that waits for it.
Awaiting(p) == {s \in PingSlot : /\ ping_states[s].ip = p.from
                                 /\ ping_states[s].sequence = p.n
                                 /\ ~ ping_states[s].received}

echo_reply_receive(p, returned) ==
    /\ p.kind = "echo_reply"
    /\ ping_states' = IF Awaiting(p) = {} THEN ping_states
                      ELSE [ping_states EXCEPT ![First(Awaiting(p))].received = TRUE]
    /\ heard' = heard \cup {<<p.tag, p.from, p.n>>}
    /\ calls' = returned
    /\ Silent /\ UNCHANGED <<arp_cache, resolution_complete>>

\* udp_receive gives a datagram to the handler of its port, if there is one:
\* dns_response_handler on 53, ntp_response_handler (whose answer nothing
\* reads) on 123.
udp_receive(p, returned) ==
    /\ p.kind \in {"dns_query", "dns_answer"}
    /\ resolution_complete' =
           (resolution_complete \/ (p.kind = "dns_answer" /\ p.n = DNS_PORT))
    /\ heard' = heard \cup {<<p.tag, p.from, p.n>>}
    /\ calls' = returned
    /\ Silent /\ UNCHANGED <<arp_cache, ping_states>>

ip_receive(p, returned) ==
    /\ p.kind \notin {"arp_request", "arp_reply"}
    /\ \/ ip_discard(p, returned)
       \/ /\ p.to = Me
          /\ \/ echo_request_receive(p, returned)
             \/ echo_reply_receive(p, returned)
             \/ udp_receive(p, returned)

eth_receive_frame(p, returned) ==
    arp_receive(p, returned) \/ ip_receive(p, returned)

\* network_receive_packet, and eth_receive_frame if it got a frame.
Poll(returned) ==
    \/ /\ calls' = returned
       /\ Silent
       /\ UNCHANGED <<arp_cache, ping_states, resolution_complete, link, heard>>
    \/ \E p \in wire : Arrive(p) /\ eth_receive_frame(p, returned)

-----------------------------------------------------------------------------
(* The steps of the innermost ip_send                                      *)

IpResolve ==
    /\ calls # << >> /\ Top.at = "resolve"
    /\ \/ Transmit
       \/ /\ ~ arp_resolved(Hop)
          /\ arp_send_request(Hop)
          /\ calls' = WithTop([Top EXCEPT !.at = "poll"])
    /\ UNCHANGED <<stack, command, heard>>

IpPoll ==
    /\ calls # << >> /\ Top.at = "poll"
    /\ Poll(WithTop([Top EXCEPT !.at = "check"]))
    /\ UNCHANGED <<icmp_timer, command>>

MorePollsOffByOne(retry) == retry < ARP_RETRIES             \* mutant
MorePolls(retry) == retry + 1 < ARP_RETRIES

\* After the last poll the packet is dropped.
IpCheck ==
    /\ calls # << >> /\ Top.at = "check"
    /\ \/ Transmit
       \/ /\ ~ arp_resolved(Hop)
          /\ calls' = IF MorePolls(Top.retry)
                      THEN WithTop([Top EXCEPT !.at = "poll", !.retry = Top.retry + 1])
                      ELSE Popped
          /\ Silent
          /\ UNCHANGED link
    /\ UNCHANGED <<stack, command, heard>>

-----------------------------------------------------------------------------
(* cmd_ping                                                                *)

\* The card is there and has an address.  A name is resolved first; which host it
\* stands for is the server's affair.
Ping(host, named) ==
    /\ <<host, named>> \in Pings
    /\ pc = "idle" /\ session < MaxPings
    /\ session' = session + 1
    /\ target' = host
    /\ i' = 0
    /\ report' = "nothing"
    /\ pc' = IF named THEN "dns_send" ELSE "ping_send"
    /\ Silent
    /\ UNCHANGED <<stack, calls, limit, link, heard>>

\* The shell runs a command that does not use the network.
OtherCommand == pc = "idle" /\ UNCHANGED vars

udp_send(dest_ip, src_port) ==
    calls' = << Sending([kind |-> "dns_query", from |-> Me, to |-> dest_ip,
                         n |-> src_port, tag |-> session]) >>

DnsSend ==
    /\ pc = "dns_send"
    /\ resolution_complete' = FALSE
    /\ udp_send(dns_server, QueryPort)
    /\ limit' = DNS_TIMEOUT_MS
    /\ pc' = "dns_poll"
    /\ Silent
    /\ UNCHANGED <<arp_cache, ping_states, icmp_timer, target, i, report, session,
                   link, heard>>

DnsPoll ==
    /\ pc = "dns_poll" /\ calls = << >>
    /\ limit > 0 /\ ~ resolution_complete
    /\ Poll(<< >>)
    /\ limit' = limit - 1
    /\ UNCHANGED <<icmp_timer, pc, target, i, report, session>>

DnsReturn ==
    /\ pc = "dns_poll" /\ calls = << >>
    /\ limit = 0 \/ resolution_complete
    /\ IF resolution_complete
       THEN pc' = "ping_send" /\ UNCHANGED report
       ELSE pc' = "idle" /\ report' = "cannot resolve"
    /\ Silent
    /\ UNCHANGED <<stack, calls, target, i, limit, session, link, heard>>

Reusable ==
    {s \in PingSlot : \/ ~ ping_states[s].received
                      \/ icmp_timer - ping_states[s].timestamp > REPLY_AGE}

NewPingKeepsMark(s) ==      \* mutant: `received' is not cleared
    [ip |-> target, sequence |-> i + 1, timestamp |-> icmp_timer,
     received |-> ping_states[s].received]
NewPing(s) ==
    [ip |-> target, sequence |-> i + 1, timestamp |-> icmp_timer, received |-> FALSE]

\* icmp_send_echo_request, then icmp_wait_reply is entered.
EchoSend ==
    /\ pc = "ping_send" /\ i < PING_COUNT
    /\ ping_states' = IF Reusable = {} THEN ping_states
                      ELSE [ping_states EXCEPT ![First(Reusable)] =
                                NewPing(First(Reusable))]
    /\ calls' = << Sending([kind |-> "echo_request", from |-> Me, to |-> target,
                            n |-> i + 1, tag |-> session]) >>
    /\ limit' = icmp_timer + PING_TIMEOUT
    /\ report' = "nothing"
    /\ pc' = "ping_wait"
    /\ Silent
    /\ UNCHANGED <<arp_cache, icmp_timer, resolution_complete, target, i, session,
                   link, heard>>

WaitPoll ==
    /\ pc = "ping_wait" /\ calls = << >>
    /\ icmp_timer < limit
    /\ Poll(<< >>)
    /\ pc' = "ping_scan"
    /\ UNCHANGED <<icmp_timer, target, i, limit, report, session>>

\* Any slot counts, whenever it was marked (mutant: sequences from 0).
AnsweredFromZero == \E s \in PingSlot : /\ ping_states[s].ip = target
                                        /\ ping_states[s].sequence = i
                                        /\ ping_states[s].received
Answered == \E s \in PingSlot : /\ ping_states[s].ip = target
                                /\ ping_states[s].sequence = i + 1
                                /\ ping_states[s].received

NoTick == UNCHANGED icmp_timer                              \* mutant
Tick == icmp_timer' = icmp_timer + 1

WaitScan ==
    /\ pc = "ping_scan" /\ calls = << >>
    /\ IF Answered
       THEN /\ pc' = "ping_send" /\ report' = "reply" /\ i' = i + 1
            /\ UNCHANGED icmp_timer
       ELSE /\ pc' = "ping_wait" /\ Tick
            /\ UNCHANGED <<report, i>>
    /\ Silent
    /\ UNCHANGED <<arp_cache, ping_states, resolution_complete, calls, target,
                   limit, session, link, heard>>

WaitTimeout ==
    /\ pc = "ping_wait" /\ calls = << >>
    /\ icmp_timer >= limit
    /\ pc' = "ping_send" /\ report' = "timed out" /\ i' = i + 1
    /\ Silent
    /\ UNCHANGED <<stack, calls, target, limit, session, link, heard>>

PingDone ==
    /\ pc = "ping_send" /\ i >= PING_COUNT
    /\ pc' = "idle"
    /\ Silent
    /\ UNCHANGED <<stack, calls, target, i, limit, report, session, link, heard>>

-----------------------------------------------------------------------------
Init ==
    /\ arp_cache = [k \in CacheIndex |-> NoEntry]
    /\ ping_states = [s \in PingSlot |-> NoPing]
    /\ icmp_timer = 0
    /\ resolution_complete = FALSE
    /\ calls = << >>
    /\ pc = "idle" /\ target = Me /\ i = 0 /\ limit = 0 /\ report = "nothing"
    /\ wire = Unsolicited /\ repeats = 0 /\ out = NoFrame
    /\ session = 0 /\ heard = {}

IpSend == IpResolve \/ IpPoll \/ IpCheck
Dns == DnsSend \/ DnsPoll \/ DnsReturn
Echo == EchoSend \/ WaitPoll \/ WaitScan \/ WaitTimeout \/ PingDone

Kernel == IpSend \/ Dns \/ Echo
User == OtherCommand \/ \E host \in Host, named \in BOOLEAN : Ping(host, named)

Next == Kernel \/ User

(***************************************************************************)
(* Fairness: the command is the only thread and every wait counts its      *)
(* polls.  Nothing makes a frame arrive.                                   *)
(***************************************************************************)
Spec == Init /\ [][Next]_vars /\ WF_vars(Kernel)

-----------------------------------------------------------------------------
(* Properties                                                              *)

Frame == [mac : Host \cup {Me, Broadcast}, packet : Packet]
Call == [packet : Packet, at : {"resolve", "poll", "check"},
         retry : 0 .. ARP_RETRIES - 1]
CacheEntry == [valid : BOOLEAN, ip : Host \cup {Me}, mac : Host \cup {Me}]
PingState == [ip : Host \cup {Me}, sequence : Nat, timestamp : Nat,
              received : BOOLEAN]

(***************************************************************************)
(* The type invariant of the stack, with the bound of the ARP polling.     *)
(***************************************************************************)
StackTypeOK ==
    /\ arp_cache \in [CacheIndex -> CacheEntry]
    /\ ping_states \in [PingSlot -> PingState]
    /\ icmp_timer \in Nat /\ resolution_complete \in BOOLEAN
    /\ calls \in Seq(Call)
CommandTypeOK ==
    /\ pc \in {"idle", "dns_send", "dns_poll", "ping_send", "ping_wait", "ping_scan"}
    /\ target \in Host \cup {Me} /\ i \in 0 .. PING_COUNT /\ limit \in Nat
    /\ report \in {"nothing", "reply", "timed out", "cannot resolve"}
    /\ session \in Nat
LinkTypeOK ==
    /\ wire \in SUBSET Packet /\ repeats \in Nat /\ out \in Frame
    /\ heard \in SUBSET (Nat \X (Host \cup {Me}) \X Nat)
TypeOK == StackTypeOK /\ CommandTypeOK /\ LinkTypeOK

(***************************************************************************)
(* arp_add_entry, whose search stops at the first unused entry: a          *)
(* neighbour never has two entries, of which an old one would win.         *)
(***************************************************************************)
OneEntryPerNeighbour ==
    \A j, k \in CacheIndex :
        (arp_cache[j].valid /\ arp_cache[k].valid /\ arp_cache[j].ip = arp_cache[k].ip)
        => j = k

(***************************************************************************)
(* Whatever was received, answered or replaced in the cache while ip_send  *)
(* waited, its packet leaves for the hardware address of its own next hop. *)
(***************************************************************************)
FramesReachNextHop ==
    out.packet.kind \in {"echo_request", "echo_reply", "dns_query"} =>
        out.mac = NextHop(out.packet.to)

(***************************************************************************)
(* "Reply from": a host reported as answering has answered that sequence   *)
(* number since the system started, however slots were reused.             *)
(***************************************************************************)
RepliesAreReal ==
    report = "reply" => \E h \in heard : h[2] = target /\ h[3] = i

(***************************************************************************)
(* "Request timed out": an answer to this request that was received, by    *)
(* any of the nested polls, is not reported as lost (while slots last).    *)
(***************************************************************************)
AnswersAreReported ==
    report = "timed out" => <<session, target, i>> \notin heard

(***************************************************************************)
(* ping always comes back to the shell: lost answers and echo requests     *)
(* that arrive while it waits do not keep it.                              *)
(***************************************************************************)
PingReturns == (pc # "idle") ~> (pc = "idle")

-----------------------------------------------------------------------------
(* What the texts of ping say; the runs that refute these are findings     *)

(***************************************************************************)
(* bin/ping.c:91, "Reply from": the host has answered this ping.           *)
(***************************************************************************)
ReplyAnswersThisPing ==
    report = "reply" => <<session, target, i>> \in heard

(***************************************************************************)
(* bin/ping.c:45, "Usage: ping <hostname or IP>": a name is resolved when  *)
(* the answer of the name server has been received.                        *)
(***************************************************************************)
AnsweredNamesResolve ==
    report = "cannot resolve" => <<session, dns_server, QueryPort>> \notin heard

=============================================================================
