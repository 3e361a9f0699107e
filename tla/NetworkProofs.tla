------------------------------ MODULE NetworkProofs -----------------------------
(***************************************************************************)
(* Theorems about Network, for any hosts, unsolicited packets and bounds:  *)
(* its type invariant, the uniqueness of cache entries, where frames go,   *)
(* that no reply is reported that was not received, and none that was      *)
(* received is reported as lost.                                           *)
(***************************************************************************)
EXTENDS Network, SequenceTheorems, NaturalsInduction, WellFoundedInduction, TLAPS

-----------------------------------------------------------------------------
(* The strengthening that makes the four invariants inductive              *)

\* The cache is filled from the front, each entry with its owner's address.
CacheInv ==
    /\ \A k \in CacheIndex : arp_cache[k].valid => arp_cache[k].mac = arp_cache[k].ip
    /\ \A j, k \in CacheIndex : (j < k /\ arp_cache[k].valid) => arp_cache[j].valid
    /\ OneEntryPerNeighbour

\* A marked slot stands for an answer that was received.
SlotInv ==
    \A s \in PingSlot :
        ping_states[s].received =>
            \E h \in heard : h[2] = ping_states[s].ip /\ h[3] = ping_states[s].sequence

CountInv == pc \in {"ping_wait", "ping_scan"} => i < PING_COUNT

\* What a poll keeps, whoever polls and whatever arrives.
PollInv ==
    StackTypeOK /\ LinkTypeOK /\ CacheInv /\ SlotInv /\ FramesReachNextHop

\* What the steps of ping keep.
CommandInv == CommandTypeOK /\ CountInv /\ RepliesAreReal

NetInv == PollInv /\ CommandInv

-----------------------------------------------------------------------------
(* The helpers of the code                                                 *)

(***************************************************************************)
(* The search loops of arp_add_entry, icmp_receive and                     *)
(* icmp_send_echo_request find the least index when there is one.          *)
(***************************************************************************)
LEMMA FirstFound ==
    ASSUME NEW S \in SUBSET Nat, S # {}
    PROVE  First(S) \in S /\ \A n \in S : First(S) <= n
<1> DEFINE Less == {ss \in Nat \X Nat : ss[1] < ss[2]}
<1>1. IsWellFoundedOn(Less, Nat)
  BY NatLessThanWellFounded DEF OpToRel
<1>2. PICK m \in S : \A n \in S : <<n, m>> \notin Less
  BY <1>1, WFMin
<1>3. ASSUME NEW n \in S, ~ (m <= n) PROVE FALSE
  <2>1. n \in Nat /\ m \in Nat /\ n < m
    BY <1>3
  <2>2. <<n, m>> \in Nat \X Nat /\ <<n, m>>[1] = n /\ <<n, m>>[2] = m
    BY <2>1
  <2>3. <<n, m>> \in Less
    BY <2>1, <2>2
  <2> QED
    BY <1>2, <2>3
<1> QED
  BY <1>3 DEF First

\* The next hop is a neighbour, whatever the destination.
LEMMA NextHopType ==
    ASSUME NEW dest
    PROVE  NextHop(dest) \in Host
BY HostsAssumption DEF NextHop, Host

(***************************************************************************)
(* The innermost ip_send, and the stacks its steps leave.                  *)
(***************************************************************************)
LEMMA TopType ==
    ASSUME calls \in Seq(Call), calls # << >>
    PROVE  /\ Top \in Call
           /\ Popped \in Seq(Call)
           /\ \A call \in Call : WithTop(call) \in Seq(Call)
<1>1. Len(calls) \in 1 .. Len(calls) /\ \A k \in 1 .. Len(calls) : calls[k] \in Call
  BY EmptySeq, LenProperties, ElementOfSeq
<1>2. Popped \in Seq(Call)
  BY <1>1, SubSeqProperties DEF Popped
<1> QED
  BY <1>1, <1>2, AppendProperties DEF Top, WithTop

(***************************************************************************)
(* What the hosts answer is a packet, so what is on the link stays one.    *)
(***************************************************************************)
LEMMA SendType ==
    ASSUME LinkTypeOK, NEW mac \in Host \cup {Me, Broadcast}, NEW packet \in Packet,
           network_send_packet(mac, packet), UNCHANGED heard
    PROVE  LinkTypeOK'
<1>1. Answers(mac, packet) \subseteq Packet
  <2>1. \A k \in AnswerKinds : k[2] \in Kind
    BY DEF AnswerKinds, Kind
  <2>2. \A kind \in Kind :
            [packet EXCEPT !.kind = kind, !.from = packet.to, !.to = Me] \in Packet
    BY DEF Packet
  <2> QED
    BY <2>1, <2>2 DEF Answers
<1>2. [mac |-> mac, packet |-> packet] \in Frame
  BY DEF Frame
<1> QED
  BY <1>1, <1>2 DEF network_send_packet, LinkTypeOK

LEMMA NoFrameType == NoFrame \in Frame /\ NoFrame.packet.kind = "arp_reply"
BY DEF NoFrame, NoPacket, Frame, Packet, Kind

\* In a cache that holds what its neighbours said, the address found is theirs.
LEMMA ResolvedIsOwner ==
    ASSUME CacheInv, NEW ip \in Host \cup {Me}, arp_resolved(ip)
    PROVE  arp_resolve(ip) = ip
<1>1. Known(ip) \in SUBSET Nat /\ Known(ip) # {}
  BY NetworkAssumption DEF arp_resolved, Known, CacheIndex
<1>2. First(Known(ip)) \in Known(ip)
  BY <1>1, FirstFound
<1> QED
  BY <1>2 DEF arp_resolve, Known, CacheInv

(***************************************************************************)
(* arp_add_entry: a known neighbour is found although the search stops at  *)
(* the first unused entry, because the used ones are a prefix; a new one   *)
(* goes where no entry of its own can be.                                  *)
(***************************************************************************)
LEMMA EntryAdded ==
    ASSUME arp_cache \in [CacheIndex -> CacheEntry], CacheInv,
           NEW ip \in Host \cup {Me}, arp_add_entry(ip, ip)
    PROVE  arp_cache' \in [CacheIndex -> CacheEntry] /\ CacheInv'
<1> DEFINE entry == [valid |-> TRUE, ip |-> ip, mac |-> ip]
           Kept(k) == \A j \in CacheIndex \ {k} : arp_cache'[j] = arp_cache[j]
<1>0. /\ CacheIndex \in SUBSET Nat /\ 0 \in CacheIndex
      /\ Known(ip) \subseteq CacheIndex /\ Unused \subseteq CacheIndex
      /\ entry \in CacheEntry /\ entry.valid /\ entry.ip = ip /\ entry.mac = ip
  BY NetworkAssumption DEF CacheIndex, Known, Unused, CacheEntry
<1>1. Known(ip) \subseteq Searched
  <2> SUFFICES ASSUME NEW k \in Known(ip), NEW j \in Unused PROVE k < j
    BY <1>0 DEF Searched
  <2>1. k \in CacheIndex /\ j \in CacheIndex /\ arp_cache[k].valid /\ ~ arp_cache[j].valid
    BY DEF Known, Unused
  <2>2. k \in Nat /\ j \in Nat /\ j # k
    BY <1>0, <2>1
  <2>3. ~ (j < k)
    BY <2>1 DEF CacheInv
  <2> QED
    BY <2>2, <2>3
<1>2. CASE Known(ip) # {}
  <2>1. PICK k \in CacheIndex : k \in Known(ip) /\ arp_cache' = [arp_cache EXCEPT ![k] = entry]
    BY <1>0, <1>1, <1>2, FirstFound DEF arp_add_entry
  <2>2. arp_cache[k].valid /\ arp_cache[k].ip = ip /\ arp_cache'[k] = entry /\ Kept(k)
    BY <2>1 DEF Known
  <2>3. arp_cache' \in [CacheIndex -> CacheEntry]
    BY <1>0, <2>1
  <2>4. \A j \in CacheIndex : /\ arp_cache'[j].valid <=> arp_cache[j].valid
                             /\ arp_cache'[j].ip = arp_cache[j].ip
    BY <1>0, <2>2
  <2>5. \A j \in CacheIndex : arp_cache'[j].valid => arp_cache'[j].mac = arp_cache'[j].ip
    BY <1>0, <2>2 DEF CacheInv
  <2> QED
    BY <2>3, <2>4, <2>5 DEF CacheInv, OneEntryPerNeighbour
<1>3. CASE Known(ip) = {}
  <2>1. arp_cache' = [arp_cache EXCEPT ![Victim] = entry]
    BY <1>3 DEF arp_add_entry
  <2>2. /\ Victim \in CacheIndex
        /\ \A j \in CacheIndex : j < Victim => arp_cache[j].valid
        /\ \A j \in CacheIndex : arp_cache[j].valid /\ ~ arp_cache[Victim].valid => j < Victim
    <3>1. CASE Unused = {}
      BY <1>0, <3>1 DEF Victim, Unused
    <3>2. CASE Unused # {}
      <4>1. Victim \in Unused /\ \A j \in Unused : Victim <= j
        BY <1>0, <3>2, FirstFound DEF Victim
      <4> QED
        BY <1>0, <4>1 DEF Unused, CacheInv
    <3> QED
      BY <3>1, <3>2
  <2>3. arp_cache'[Victim] = entry /\ Kept(Victim)
    BY <2>1, <2>2
  <2>4. arp_cache' \in [CacheIndex -> CacheEntry]
    BY <1>0, <2>1, <2>2
  <2>5. \A j \in CacheIndex : arp_cache'[j].valid => arp_cache'[j].mac = arp_cache'[j].ip
    BY <1>0, <2>3 DEF CacheInv
  <2>6. \A j, k \in CacheIndex : (j < k /\ arp_cache'[k].valid) => arp_cache'[j].valid
    BY <1>0, <2>2, <2>3 DEF CacheInv
  <2>7. \A j \in CacheIndex : arp_cache[j].valid => arp_cache[j].ip # ip
    BY <1>3 DEF Known
  <2>8. OneEntryPerNeighbour'
    BY <1>0, <2>3, <2>7 DEF CacheInv, OneEntryPerNeighbour
  <2> QED
    BY <2>4, <2>5, <2>6, <2>8 DEF CacheInv
<1> QED
  BY <1>2, <1>3

-----------------------------------------------------------------------------
(* One poll, with all that handling its frame does                         *)

LEMMA ArpReceived ==
    ASSUME PollInv, NEW p \in Packet, NEW returned \in Seq(Call),
           arp_receive(p, returned), UNCHANGED icmp_timer,
           wire' \in SUBSET Packet, repeats' \in Nat
    PROVE  PollInv' /\ heard \subseteq heard'
<1>1. p.from \in Host \cup {Me} /\ arp_add_entry(p.from, p.from)
  BY DEF arp_receive, Packet
<1>2. arp_cache' \in [CacheIndex -> CacheEntry] /\ CacheInv'
  BY <1>1, EntryAdded DEF PollInv, StackTypeOK
<1>3. out' \in Frame /\ out'.packet.kind = "arp_reply"
  BY <1>1, NoFrameType DEF arp_receive, Frame, Packet, Kind
<1>4. StackTypeOK' /\ LinkTypeOK'
  BY <1>2, <1>3 DEF arp_receive, PollInv, StackTypeOK, LinkTypeOK
<1>5. SlotInv' /\ heard' = heard
  BY DEF arp_receive, PollInv, SlotInv
<1> QED
  BY <1>2, <1>3, <1>4, <1>5 DEF PollInv, FramesReachNextHop

LEMMA SilentHop == Silent => FramesReachNextHop'
BY NoFrameType DEF Silent, FramesReachNextHop

\* The conjuncts about the cache do not notice a step that leaves it alone.
LEMMA SameCache == CacheInv /\ UNCHANGED arp_cache => CacheInv'
BY DEF CacheInv, OneEntryPerNeighbour

LEMMA EchoReplyReceived ==
    ASSUME PollInv, NEW p \in Packet, NEW returned \in Seq(Call),
           echo_reply_receive(p, returned), UNCHANGED icmp_timer,
           wire' \in SUBSET Packet, repeats' \in Nat
    PROVE  PollInv' /\ heard \subseteq heard'
<1>0. /\ p.tag \in Nat /\ p.from \in Host \cup {Me} /\ p.n \in Nat
      /\ ping_states \in [PingSlot -> PingState]
  BY DEF Packet, PollInv, StackTypeOK
<1>1. heard' = heard \cup {<<p.tag, p.from, p.n>>}
  BY DEF echo_reply_receive
<1>2. LinkTypeOK'
  BY <1>0, <1>1, NoFrameType DEF echo_reply_receive, PollInv, LinkTypeOK, Silent
<1>3. CacheInv' /\ FramesReachNextHop'
  BY SilentHop, SameCache DEF echo_reply_receive, PollInv
<1>4. ping_states' \in [PingSlot -> PingState] => StackTypeOK'
  BY DEF echo_reply_receive, PollInv, StackTypeOK
<1>5. CASE Awaiting(p) = {}
  <2>1. ping_states' = ping_states
    BY <1>5 DEF echo_reply_receive
  <2>2. SlotInv'
    BY <1>1, <2>1 DEF PollInv, SlotInv
  <2> QED
    BY <1>0, <1>1, <1>2, <1>3, <1>4, <2>1, <2>2 DEF PollInv
<1>6. CASE Awaiting(p) # {}
  <2>1. PICK s \in PingSlot : /\ s \in Awaiting(p)
                              /\ ping_states' = [ping_states EXCEPT ![s].received = TRUE]
    <3>1. Awaiting(p) \in SUBSET Nat /\ Awaiting(p) \subseteq PingSlot
      BY NetworkAssumption DEF Awaiting, PingSlot
    <3> QED
      BY <1>6, <3>1, FirstFound DEF echo_reply_receive
  <2>2. ping_states' \in [PingSlot -> PingState]
    BY <1>0, <2>1 DEF PingState
  <2>3. /\ ping_states'[s].ip = p.from /\ ping_states'[s].sequence = p.n
        /\ \A t \in PingSlot \ {s} : ping_states'[t] = ping_states[t]
    BY <1>0, <2>1 DEF Awaiting, PingState
  <2>4. \E h \in heard' : h[2] = p.from /\ h[3] = p.n
    <3>1. <<p.tag, p.from, p.n>> \in heard'
      BY <1>1
    <3> QED
      BY <3>1, Zenon
  <2>5. SlotInv'
    BY <1>1, <2>3, <2>4 DEF PollInv, SlotInv
  <2> QED
    BY <1>1, <1>2, <1>3, <1>4, <2>2, <2>5 DEF PollInv
<1> QED
  BY <1>5, <1>6

LEMMA UdpReceived ==
    ASSUME PollInv, NEW p \in Packet, NEW returned \in Seq(Call),
           udp_receive(p, returned), UNCHANGED icmp_timer,
           wire' \in SUBSET Packet, repeats' \in Nat
    PROVE  PollInv' /\ heard \subseteq heard'
<1>0. p.tag \in Nat /\ p.from \in Host \cup {Me} /\ p.n \in Nat
  BY DEF Packet
<1>1. heard' = heard \cup {<<p.tag, p.from, p.n>>}
  BY DEF udp_receive
<1>2. LinkTypeOK'
  BY <1>0, <1>1, NoFrameType DEF udp_receive, PollInv, LinkTypeOK, Silent
<1>3. CacheInv' /\ FramesReachNextHop'
  BY SilentHop, SameCache DEF udp_receive, PollInv
<1>4. resolution_complete' \in BOOLEAN
  BY Zenon DEF udp_receive
<1>5. StackTypeOK'
  BY <1>4 DEF udp_receive, PollInv, StackTypeOK
<1>6. SlotInv'
  BY <1>1 DEF udp_receive, PollInv, SlotInv
<1> QED
  BY <1>1, <1>2, <1>3, <1>5, <1>6 DEF PollInv

\* A step that sends nothing and leaves cache, slots and answers as they are.
LEMMA Quietly ==
    ASSUME PollInv, calls' \in Seq(Call), Silent,
           UNCHANGED <<arp_cache, ping_states, heard>>,
           icmp_timer' \in Nat, resolution_complete' \in BOOLEAN,
           wire' \in SUBSET Packet, repeats' \in Nat
    PROVE  PollInv'
<1>1. CacheInv' /\ FramesReachNextHop' /\ SlotInv'
  BY SilentHop, SameCache DEF PollInv, SlotInv
<1>2. StackTypeOK' /\ LinkTypeOK'
  BY NoFrameType DEF PollInv, StackTypeOK, LinkTypeOK, Silent
<1> QED
  BY <1>1, <1>2 DEF PollInv

LEMMA SendingType ==
    ASSUME NEW packet \in Packet
    PROVE  Sending(packet) \in Call
BY NetworkAssumption DEF Sending, Call

(***************************************************************************)
(* A poll keeps the invariant, whatever it hands to the stack: the handler *)
(* of each kind of packet does.                                            *)
(***************************************************************************)
LEMMA Polled ==
    ASSUME PollInv, NEW returned \in Seq(Call), Poll(returned), UNCHANGED icmp_timer
    PROVE  PollInv' /\ heard \subseteq heard'
<1>0. /\ wire \in SUBSET Packet /\ repeats \in Nat
      /\ icmp_timer \in Nat /\ resolution_complete \in BOOLEAN
  BY DEF PollInv, StackTypeOK, LinkTypeOK
<1>1. CASE /\ calls' = returned /\ Silent
           /\ UNCHANGED <<arp_cache, ping_states, resolution_complete, link, heard>>
  BY <1>0, <1>1, Quietly DEF link
<1>2. ASSUME NEW p \in wire, Arrive(p), eth_receive_frame(p, returned)
      PROVE  PollInv' /\ heard \subseteq heard'
  <2>1. p \in Packet /\ wire' \in SUBSET Packet /\ repeats' \in Nat
    BY <1>0, <1>2 DEF Arrive
  <2>2. CASE arp_receive(p, returned)
    BY <2>1, <2>2, ArpReceived
  <2>3. CASE ip_discard(p, returned)
    BY <1>0, <2>1, <2>3, Quietly DEF ip_discard
  <2>4. CASE echo_request_receive(p, returned)
    <3>1. [p EXCEPT !.kind = "echo_reply", !.from = Me, !.to = p.from] \in Packet
      BY <2>1 DEF Packet, Kind
    <3>2. calls' \in Seq(Call)
      BY <2>4, <3>1, SendingType, AppendProperties DEF echo_request_receive
    <3> QED
      BY <1>0, <2>1, <2>4, <3>2, Quietly DEF echo_request_receive
  <2>5. CASE echo_reply_receive(p, returned)
    BY <2>1, <2>5, EchoReplyReceived
  <2>6. CASE udp_receive(p, returned)
    BY <2>1, <2>6, UdpReceived
  <2> QED
    BY <1>2, <2>2, <2>3, <2>4, <2>5, <2>6 DEF eth_receive_frame, ip_receive
<1> QED
  BY <1>1, <1>2 DEF Poll

(***************************************************************************)
(* The innermost ip_send transmits: its packet, to its own hop's address.  *)
(***************************************************************************)
LEMMA Transmitted ==
    ASSUME PollInv, calls # << >>, Transmit, UNCHANGED <<stack, heard>>
    PROVE  PollInv'
<1>1. Top \in Call /\ Popped \in Seq(Call)
  BY TopType DEF PollInv, StackTypeOK
<1>2. Hop \in Host /\ Top.packet \in Packet /\ Hop = NextHop(Top.packet.to)
  BY <1>1, NextHopType DEF Hop, Call
<1>3. arp_resolve(Hop) = Hop
  BY <1>2, ResolvedIsOwner DEF Transmit, PollInv
<1>4. out' = [mac |-> Hop, packet |-> Top.packet]
  BY <1>3 DEF Transmit, network_send_packet
<1>5. LinkTypeOK'
  BY <1>2, <1>3, SendType DEF Transmit, PollInv
<1>6. FramesReachNextHop'
  BY <1>2, <1>4 DEF FramesReachNextHop
<1>7. StackTypeOK' /\ CacheInv' /\ SlotInv'
  BY <1>1, SameCache DEF Transmit, PollInv, StackTypeOK, SlotInv, stack
<1> QED
  BY <1>5, <1>6, <1>7 DEF PollInv

-----------------------------------------------------------------------------
(* The invariant                                                           *)

LEMMA NetInit == Init => NetInv
<1> SUFFICES ASSUME Init PROVE NetInv
  OBVIOUS
<1> USE DEF Init
<1>1. StackTypeOK
  <2>1. NoEntry \in CacheEntry /\ NoPing \in PingState
    BY DEF NoEntry, NoPing, CacheEntry, PingState
  <2> QED
    BY <2>1, EmptySeq DEF StackTypeOK
<1>2. LinkTypeOK
  BY HostsAssumption, NoFrameType DEF LinkTypeOK
<1>3. CacheInv
  BY DEF CacheInv, OneEntryPerNeighbour, NoEntry
<1>4. SlotInv
  BY DEF SlotInv, NoPing
<1>5. FramesReachNextHop
  BY NoFrameType DEF FramesReachNextHop
<1>6. CommandInv
  BY NetworkAssumption DEF CommandInv, CommandTypeOK, CountInv, RepliesAreReal
<1> QED
  BY <1>1, <1>2, <1>3, <1>4, <1>5, <1>6 DEF NetInv, PollInv

LEMMA CommandKept ==
    ASSUME CommandInv, UNCHANGED <<pc, target, i, report, session>>,
           limit' \in Nat, heard \subseteq heard'
    PROVE  CommandInv'
BY DEF CommandInv, CommandTypeOK, CountInv, RepliesAreReal

(***************************************************************************)
(* A step of an ip_send.                                                   *)
(***************************************************************************)
LEMMA IpSendKeeps == NetInv /\ IpSend => NetInv'
<1> SUFFICES ASSUME NetInv, IpSend PROVE NetInv'
  OBVIOUS
<1> USE DEF NetInv
<1>0. /\ PollInv /\ calls # << >> /\ limit \in Nat
      /\ Top \in Call /\ Popped \in Seq(Call)
      /\ \A call \in Call : WithTop(call) \in Seq(Call)
      /\ wire \in SUBSET Packet /\ repeats \in Nat
      /\ icmp_timer \in Nat /\ resolution_complete \in BOOLEAN
  BY TopType DEF IpSend, IpResolve, IpPoll, IpCheck, PollInv, StackTypeOK,
     LinkTypeOK, CommandInv, CommandTypeOK
<1>1. CASE IpResolve
  <2>1. CommandInv'
    BY <1>0, <1>1, CommandKept DEF IpResolve, command
  <2>2. CASE Transmit
    BY <1>0, <1>1, <2>1, <2>2, Transmitted DEF IpResolve
  <2>3. CASE /\ arp_send_request(Hop)
             /\ calls' = WithTop([Top EXCEPT !.at = "poll"])
    <3> DEFINE request == [kind |-> "arp_request", from |-> Me, to |-> Hop,
                           n |-> 0, tag |-> 0]
    <3>1. request \in Packet /\ request.kind = "arp_request"
      BY NextHopType DEF Packet, Kind, Hop
    <3>2. network_send_packet(Broadcast, request)
      BY <2>3 DEF arp_send_request
    <3>3. LinkTypeOK'
      <4>1. UNCHANGED heard
        BY <1>1 DEF IpResolve
      <4> QED
        BY <1>0, <3>1, <3>2, <4>1, SendType DEF PollInv
    <3>4. out'.packet.kind = "arp_request"
      BY <3>2 DEF network_send_packet
    <3>5. calls' \in Seq(Call)
      BY <1>0, <2>3 DEF Call
    <3>6. StackTypeOK' /\ CacheInv' /\ SlotInv'
      BY <1>1, <3>5, SameCache DEF IpResolve, PollInv, StackTypeOK, SlotInv, stack
    <3>7. FramesReachNextHop'
      BY <3>4 DEF FramesReachNextHop
    <3> QED
      BY <2>1, <3>3, <3>6, <3>7 DEF PollInv
  <2> QED
    BY <1>1, <2>2, <2>3 DEF IpResolve
<1>2. CASE IpPoll
  <2>1. WithTop([Top EXCEPT !.at = "check"]) \in Seq(Call)
    BY <1>0 DEF Call
  <2>2. PollInv' /\ heard \subseteq heard'
    BY <1>0, <1>2, <2>1, Polled DEF IpPoll
  <2> QED
    BY <1>0, <1>2, <2>2, CommandKept DEF IpPoll, command
<1>3. CASE IpCheck
  <2>1. CommandInv'
    BY <1>0, <1>3, CommandKept DEF IpCheck, command
  <2>2. CASE Transmit
    BY <1>0, <1>3, <2>1, <2>2, Transmitted DEF IpCheck
  <2>3. CASE /\ calls' = IF MorePolls(Top.retry)
                         THEN WithTop([Top EXCEPT !.at = "poll", !.retry = Top.retry + 1])
                         ELSE Popped
             /\ Silent
             /\ UNCHANGED link
    <3>1. MorePolls(Top.retry) =>
             [Top EXCEPT !.at = "poll", !.retry = Top.retry + 1] \in Call
      <4>1. \A n \in 0 .. ARP_RETRIES - 1 :
                [Top EXCEPT !.at = "poll", !.retry = n] \in Call
        BY <1>0 DEF Call
      <4>2. MorePolls(Top.retry) => Top.retry + 1 \in 0 .. ARP_RETRIES - 1
        BY <1>0, NetworkAssumption DEF MorePolls, Call
      <4> QED
        BY <4>1, <4>2
    <3>2. calls' \in Seq(Call)
      BY <1>0, <2>3, <3>1
    <3> QED
      BY <1>0, <1>3, <2>1, <2>3, <3>2, Quietly DEF IpCheck, stack, link
  <2> QED
    BY <1>3, <2>2, <2>3 DEF IpCheck
<1> QED
  BY <1>1, <1>2, <1>3 DEF IpSend

(***************************************************************************)
(* A step of ping, while no ip_send runs.                                  *)
(***************************************************************************)
LEMMA CommandSteps == NetInv /\ (Dns \/ Echo \/ User) => NetInv'
<1> SUFFICES ASSUME NetInv, Dns \/ Echo \/ User PROVE NetInv'
  OBVIOUS
<1>0. /\ PollInv /\ CommandInv /\ calls \in Seq(Call)
      /\ wire \in SUBSET Packet /\ repeats \in Nat
      /\ icmp_timer \in Nat /\ resolution_complete \in BOOLEAN
      /\ ping_states \in [PingSlot -> PingState]
      /\ limit \in Nat /\ session \in Nat
      /\ target \in Host \cup {Me} /\ i \in 0 .. PING_COUNT
  BY DEF NetInv, PollInv, StackTypeOK, LinkTypeOK, CommandInv, CommandTypeOK
<1>1. << >> \in Seq(Call)
  BY EmptySeq
<1>2. \A packet \in Packet : << Sending(packet) >> \in Seq(Call)
  BY SendingType
<1>3. CASE OtherCommand
  <2>1. UNCHANGED vars
    BY <1>3 DEF OtherCommand
  <2>2. PollInv'
    BY <1>0, <2>1 DEF vars, stack, link, PollInv, StackTypeOK, LinkTypeOK,
       CacheInv, OneEntryPerNeighbour, SlotInv, FramesReachNextHop
  <2> QED
    BY <1>0, <2>1, <2>2, CommandKept DEF vars, command, NetInv
<1>4. ASSUME NEW host \in Host, NEW named \in BOOLEAN, Ping(host, named)
      PROVE  NetInv'
  <2>1. PollInv'
    BY <1>0, <1>4, Quietly DEF Ping, stack, link
  <2>2. CommandInv'
    <3>1. pc' \in {"dns_send", "ping_send"}
      BY <1>4, Zenon DEF Ping
    <3>2. /\ session' \in Nat /\ limit' \in Nat /\ i' \in 0 .. PING_COUNT
          /\ target' \in Host \cup {Me} /\ report' = "nothing"
      BY <1>0, <1>4, NetworkAssumption DEF Ping
    <3> QED
      BY <3>1, <3>2 DEF CommandInv, CommandTypeOK, CountInv, RepliesAreReal
  <2> QED
    BY <2>1, <2>2 DEF NetInv
<1>5. CASE DnsSend
  <2>1. calls' \in Seq(Call)
    <3>1. [kind |-> "dns_query", from |-> Me, to |-> dns_server,
           n |-> QueryPort, tag |-> session] \in Packet
      BY <1>0, HostsAssumption DEF Packet, Kind, QueryPort
    <3> QED
      BY <1>2, <1>5, <3>1 DEF DnsSend, udp_send
  <2>2. PollInv'
    BY <1>0, <1>5, <2>1, Quietly DEF DnsSend, link
  <2>3. CommandInv'
    BY <1>0, <1>5, NetworkAssumption
       DEF DnsSend, CommandInv, CommandTypeOK, CountInv, RepliesAreReal
  <2> QED
    BY <2>2, <2>3 DEF NetInv
<1>6. CASE DnsPoll
  <2>1. PollInv' /\ heard \subseteq heard'
    BY <1>0, <1>1, <1>6, Polled DEF DnsPoll
  <2>2. limit' \in Nat
    BY <1>0, <1>6 DEF DnsPoll
  <2> QED
    BY <1>0, <1>6, <2>1, <2>2, CommandKept DEF DnsPoll, NetInv
<1>7. CASE DnsReturn
  <2>1. PollInv'
    BY <1>0, <1>7, Quietly DEF DnsReturn, stack, link
  <2>2. CommandInv'
    BY <1>0, <1>7 DEF DnsReturn, CommandInv, CommandTypeOK, CountInv, RepliesAreReal
  <2> QED
    BY <2>1, <2>2 DEF NetInv
<1>8. CASE EchoSend
  <2>1. calls' \in Seq(Call)
    <3>1. [kind |-> "echo_request", from |-> Me, to |-> target,
           n |-> i + 1, tag |-> session] \in Packet
      BY <1>0, NetworkAssumption DEF Packet, Kind
    <3> QED
      BY <1>2, <1>8, <3>1 DEF EchoSend
  <2>2. \A s \in PingSlot : NewPing(s) \in PingState /\ ~ NewPing(s).received
    BY <1>0, NetworkAssumption DEF NewPing, PingState
  <2>3. \/ ping_states' = ping_states
        \/ \E s \in PingSlot : ping_states' = [ping_states EXCEPT ![s] = NewPing(s)]
    <3>1. Reusable \in SUBSET Nat /\ Reusable \subseteq PingSlot
      BY NetworkAssumption DEF Reusable, PingSlot
    <3> QED
      BY <1>8, <3>1, FirstFound DEF EchoSend
  <2>4. ping_states' \in [PingSlot -> PingState] /\ SlotInv'
    BY <1>0, <1>8, <2>2, <2>3 DEF EchoSend, PollInv, SlotInv
  <2>5. StackTypeOK' /\ LinkTypeOK' /\ CacheInv' /\ FramesReachNextHop'
    BY <1>0, <1>8, <2>1, <2>4, SilentHop, SameCache, NoFrameType
       DEF EchoSend, PollInv, StackTypeOK, LinkTypeOK, Silent, link
  <2>6. CommandInv'
    <3>1. limit' \in Nat /\ i' = i /\ target' = target /\ session' = session
      BY <1>0, <1>8, NetworkAssumption DEF EchoSend
    <3>2. pc' = "ping_wait" /\ report' = "nothing" /\ i < PING_COUNT
      BY <1>8 DEF EchoSend
    <3> QED
      BY <1>0, <3>1, <3>2 DEF CommandInv, CommandTypeOK, CountInv, RepliesAreReal
  <2> QED
    BY <2>4, <2>5, <2>6 DEF NetInv, PollInv
<1>9. CASE WaitPoll
  <2>1. PollInv' /\ heard \subseteq heard'
    BY <1>0, <1>1, <1>9, Polled DEF WaitPoll
  <2>2. CommandInv'
    BY <1>0, <1>9, <2>1
       DEF WaitPoll, CommandInv, CommandTypeOK, CountInv, RepliesAreReal
  <2> QED
    BY <2>1, <2>2 DEF NetInv
<1>10. CASE WaitScan
  <2>1. icmp_timer' \in Nat
    BY <1>0, <1>10 DEF WaitScan, Tick
  <2>2. PollInv'
    BY <1>0, <1>10, <2>1, Quietly DEF WaitScan, link
  <2>3. i < PING_COUNT
    BY <1>0, <1>10 DEF WaitScan, CommandInv, CountInv
  <2>4. CASE Answered
    <3>1. \E h \in heard : h[2] = target /\ h[3] = i + 1
      BY <1>0, <2>4 DEF Answered, PollInv, SlotInv
    <3>2. i' = i + 1 /\ i + 1 \in 0 .. PING_COUNT
      BY <1>0, <1>10, <2>3, <2>4, NetworkAssumption DEF WaitScan
    <3>3. /\ pc' = "ping_send" /\ report' = "reply"
          /\ UNCHANGED <<target, limit, session, heard>>
      BY <1>10, <2>4 DEF WaitScan
    <3> QED
      BY <1>0, <2>2, <3>1, <3>2, <3>3
         DEF NetInv, CommandInv, CommandTypeOK, CountInv, RepliesAreReal
  <2>5. CASE ~ Answered
    BY <1>0, <1>10, <2>2, <2>3, <2>5
       DEF WaitScan, NetInv, CommandInv, CommandTypeOK, CountInv, RepliesAreReal
  <2> QED
    BY <2>4, <2>5
<1>11. CASE WaitTimeout
  <2>1. PollInv'
    BY <1>0, <1>11, Quietly DEF WaitTimeout, stack, link
  <2>2. CommandInv'
    <3>1. i < PING_COUNT /\ i' = i + 1
      BY <1>0, <1>11 DEF WaitTimeout, CommandInv, CountInv
    <3>2. i' \in 0 .. PING_COUNT
      BY <1>0, <3>1, NetworkAssumption
    <3>3. pc' = "ping_send" /\ report' = "timed out" /\ UNCHANGED <<target, limit, session>>
      BY <1>11 DEF WaitTimeout
    <3> QED
      BY <1>0, <3>2, <3>3 DEF CommandInv, CommandTypeOK, CountInv, RepliesAreReal
  <2> QED
    BY <2>1, <2>2 DEF NetInv
<1>12. CASE PingDone
  <2>1. PollInv'
    BY <1>0, <1>12, Quietly DEF PingDone, stack, link
  <2>2. CommandInv'
    BY <1>0, <1>12 DEF PingDone, CommandInv, CommandTypeOK, CountInv, RepliesAreReal
  <2> QED
    BY <2>1, <2>2 DEF NetInv
<1> QED
  BY <1>3, <1>4, <1>5, <1>6, <1>7, <1>8, <1>9, <1>10, <1>11, <1>12
     DEF Dns, Echo, User

LEMMA NetNext == NetInv /\ [Next]_vars => NetInv'
<1> SUFFICES ASSUME NetInv, [Next]_vars PROVE NetInv'
  OBVIOUS
<1>1. CASE UNCHANGED vars
  <2>1. PollInv'
    BY <1>1 DEF NetInv, vars, stack, link, PollInv, StackTypeOK, LinkTypeOK,
       CacheInv, OneEntryPerNeighbour, SlotInv, FramesReachNextHop
  <2>2. CommandInv'
    BY <1>1, CommandKept DEF NetInv, CommandInv, CommandTypeOK, vars, command
  <2> QED
    BY <2>1, <2>2 DEF NetInv
<1> QED
  BY <1>1, IpSendKeeps, CommandSteps DEF Next, Kernel

LEMMA NetInvariant == Spec => []NetInv
BY NetInit, NetNext, PTL DEF Spec

-----------------------------------------------------------------------------
(* The theorems                                                            *)

(***************************************************************************)
(* The indices, counters and packets of the stack stay in their ranges, an *)
(* ip_send never polls more often than it should, and ping never sends     *)
(* more than its count, however deep the receive path re-enters itself.    *)
(***************************************************************************)
THEOREM NetworkTypeCorrect == Spec => []TypeOK
<1>1. NetInv => TypeOK
  BY DEF NetInv, PollInv, CommandInv, TypeOK
<1> QED
  BY <1>1, NetInvariant, PTL

(***************************************************************************)
(* The ARP cache, in any size and under any sequence of ARP packets, never *)
(* holds two entries of one neighbour.                                     *)
(***************************************************************************)
THEOREM CacheUnique == Spec => []OneEntryPerNeighbour
<1>1. NetInv => OneEntryPerNeighbour
  BY DEF NetInv, PollInv, CacheInv
<1> QED
  BY <1>1, NetInvariant, PTL

(***************************************************************************)
(* Every packet ip_send transmits goes to the hardware address of its own  *)
(* next hop, whatever was received while it waited for that address.       *)
(***************************************************************************)
THEOREM HopReached == Spec => []FramesReachNextHop
<1>1. NetInv => FramesReachNextHop
  BY DEF NetInv, PollInv
<1> QED
  BY <1>1, NetInvariant, PTL

(***************************************************************************)
(* ping prints "Reply from" only for a host and a sequence number of which *)
(* an echo reply was received, however slots are reused and replies come.  *)
(***************************************************************************)
THEOREM RepliesReceived == Spec => []RepliesAreReal
<1>1. NetInv => RepliesAreReal
  BY DEF NetInv, CommandInv
<1> QED
  BY <1>1, NetInvariant, PTL

-----------------------------------------------------------------------------
(* Timeouts: where the answer to a request can be                          *)

\* A request is recorded and waited for.
Asking == pc \in {"ping_wait", "ping_scan"}
Sent == IF Asking THEN i + 1 ELSE i
Spent == (session - 1) * PING_COUNT + Sent

\* What carries the tag of a ping was sent by it or answers what it sent.
Asked(tag, n) == tag < session \/ (tag = session /\ n <= Sent)
Traced(p) ==
    \/ p.tag = 0
    \/ p.kind \in {"dns_query", "dns_answer"} /\ p.n = QueryPort
    \/ p.kind \in {"echo_request", "echo_reply"} /\ Asked(p.tag, p.n)
TracedCall == {call \in Call : call.packet.to \in Host /\ Traced(call.packet)}

LinkTraced == \A p \in wire : p.from \in Host /\ Traced(p)
CallsTraced == calls \in Seq(TracedCall)
HeardTraced == \A h \in heard : h[1] = 0 \/ h[3] = QueryPort \/ Asked(h[1], h[3])

\* Slots are taken one after the other.
SlotsLeft ==
    \A s \in PingSlot :
        s >= Spent => ping_states[s].ip = Me /\ ~ ping_states[s].received

\* The request has a slot that no other request without an answer precedes.
RecordedIn(s) ==
    /\ ping_states[s].ip = target /\ ping_states[s].sequence = i + 1
    /\ \A u \in PingSlot : u < s => ping_states[u].received
Recorded == Asking => \E s \in PingSlot : RecordedIn(s)

\* If its answer was received, the next look at the slots finds it, and there is
\* one before the wait is over.
Marked == Asking /\ <<session, target, i + 1>> \in heard => Answered
Waiting ==
    pc = "ping_wait" => icmp_timer < limit \/ (calls = << >> /\ ~ Answered)

Resting ==
    /\ pc \in {"idle", "dns_send", "ping_send"} => calls = << >>
    /\ pc # "idle" => session >= 1 /\ target \in Host
    /\ report = "timed out" => pc \in {"idle", "ping_send"}
    /\ session <= MaxPings

TraceInv ==
    LinkTraced /\ CallsTraced /\ HeardTraced /\ SlotsLeft /\ Recorded /\ Marked
ReportInv == TraceInv /\ Waiting /\ Resting /\ AnswersAreReported

LEMMA TracedTypes ==
    ASSUME NetInv
    PROVE  /\ i \in Nat /\ session \in Nat /\ Sent \in Nat /\ PING_COUNT \in Nat
           /\ Spent \in Int /\ i <= Sent
           /\ PingSlot \subseteq Nat /\ Me \notin Host
           /\ ping_states \in [PingSlot -> PingState] /\ wire \subseteq Packet
<1>1. i \in Nat /\ session \in Nat /\ PING_COUNT \in Nat
  <2>1. PING_COUNT \in Nat
    BY NetworkAssumption
  <2>2. i \in 0 .. PING_COUNT /\ session \in Nat
    BY DEF NetInv, CommandInv, CommandTypeOK
  <2> QED
    BY <2>1, <2>2
<1>2. (session - 1) * PING_COUNT \in Int
  BY <1>1
<1> QED
  BY <1>1, <1>2, NetworkAssumption, HostsAssumption
  DEF NetInv, PollInv, StackTypeOK, LinkTypeOK, PingSlot, Sent, Spent

\* What was sent stays sent.
LEMMA TracedLater ==
    ASSUME NetInv, NetInv', session < session' \/ (session' = session /\ Sent <= Sent')
    PROVE  /\ \A tag, n \in Nat : Asked(tag, n) => Asked(tag, n)'
           /\ \A p \in Packet : Traced(p) => Traced(p)'
           /\ TracedCall \subseteq TracedCall'
<1>0. session \in Nat /\ Sent \in Nat /\ session' \in Nat /\ Sent' \in Nat
  <2>1. session \in Nat /\ Sent \in Nat
    BY TracedTypes
  <2>2. (session \in Nat /\ Sent \in Nat)'
    BY TracedTypes, PTL
  <2> QED
    BY <2>1, <2>2
<1>1. \A tag, n \in Nat : Asked(tag, n) => Asked(tag, n)'
  BY <1>0 DEF Asked
<1>2. \A p \in Packet : Traced(p) => Traced(p)'
  <2>1. \A p \in Packet : p.tag \in Nat /\ p.n \in Nat
    BY DEF Packet
  <2> QED
    BY <1>1, <2>1 DEF Traced
<1>3. TracedCall \subseteq TracedCall'
  BY <1>2 DEF TracedCall, Call
<1> QED
  BY <1>1, <1>2, <1>3

(***************************************************************************)
(* The hosts answer what was sent with its tag and its number.             *)
(***************************************************************************)
LEMMA AnswersTraced ==
    ASSUME NEW packet \in Packet, packet.to \in Host, Traced(packet),
           NEW mac, NEW a \in Answers(mac, packet)
    PROVE  a.from \in Host /\ Traced(a)
<1>1. PICK k \in AnswerKinds :
          k[1] = packet.kind
          /\ a = [packet EXCEPT !.kind = k[2], !.from = packet.to, !.to = Me]
  BY DEF Answers
<1>2. a.kind = k[2] /\ a.from = packet.to /\ a.tag = packet.tag /\ a.n = packet.n
  BY <1>1 DEF Packet
<1> QED
  BY <1>1, <1>2 DEF AnswerKinds, Traced, Asked

\* TraceInv reads only this of the state.
LEMMA TraceKept ==
    ASSUME NetInv, NetInv', TraceInv, UNCHANGED <<session, target, i, ping_states, heard>>,
           Asking' <=> Asking, LinkTraced', CallsTraced'
    PROVE  TraceInv'
<1>1. Sent' = Sent /\ Spent' = Spent
  BY DEF Sent, Spent
<1>2. HeardTraced' /\ SlotsLeft'
  BY <1>1 DEF TraceInv, HeardTraced, SlotsLeft, Asked
<1>3. Recorded' /\ Marked'
  BY DEF TraceInv, Recorded, RecordedIn, Marked, Answered
<1> QED
  BY <1>2, <1>3 DEF TraceInv

(***************************************************************************)
(* A reply marks the first slot that waits for it.  The slot of the        *)
(* present request precedes every other without an answer, so an answer to *)
(* the present request marks that one, unless it is marked already.        *)
(***************************************************************************)
LEMMA ReplyTraced ==
    ASSUME NetInv, NetInv', TraceInv, NEW p \in wire, echo_reply_receive(p, calls'),
           UNCHANGED <<session, target, i>>, Asking' <=> Asking,
           LinkTraced', CallsTraced'
    PROVE  TraceInv'
<1>1. Sent' = Sent /\ Spent' = Spent
  BY DEF Sent, Spent
<1>2. /\ p.from \in Host /\ Traced(p) /\ p.kind = "echo_reply"
      /\ heard' = heard \cup {<<p.tag, p.from, p.n>>}
  BY DEF TraceInv, LinkTraced, echo_reply_receive
<1>3. HeardTraced'
  <2>1. p.tag = 0 \/ Asked(p.tag, p.n)
    BY <1>2 DEF Traced
  <2>2. ASSUME NEW h \in heard'
        PROVE  h[1] = 0 \/ h[3] = QueryPort \/ Asked(h[1], h[3])
    <3>1. CASE h \in heard
      BY <3>1 DEF TraceInv, HeardTraced
    <3>2. CASE h = <<p.tag, p.from, p.n>>
      BY <2>1, <3>2
    <3> QED
      BY <1>2, <3>1, <3>2
  <2> QED
    BY <1>1, <2>2 DEF HeardTraced, Asked
<1>4. \A s \in PingSlot : /\ ping_states'[s].ip = ping_states[s].ip
                          /\ ping_states'[s].sequence = ping_states[s].sequence
                          /\ ping_states[s].received => ping_states'[s].received
                          /\ ping_states'[s].received =>
                                 ping_states[s].received \/ ping_states[s].ip = p.from
  <2>1. CASE Awaiting(p) = {}
    BY <2>1 DEF echo_reply_receive
  <2>2. CASE Awaiting(p) # {}
    <3>1. PICK t \in PingSlot : t \in Awaiting(p)
                                /\ ping_states' = [ping_states EXCEPT ![t].received = TRUE]
      <4>1. Awaiting(p) \in SUBSET Nat /\ Awaiting(p) \subseteq PingSlot
        BY TracedTypes DEF Awaiting
      <4> QED
        BY <2>2, <4>1, FirstFound DEF echo_reply_receive
    <3>2. /\ \A s \in PingSlot \ {t} : ping_states'[s] = ping_states[s]
          /\ ping_states'[t].ip = ping_states[t].ip /\ ping_states[t].ip = p.from
          /\ ping_states'[t].sequence = ping_states[t].sequence
          /\ ping_states'[t].received
      BY <3>1, TracedTypes DEF PingState, Awaiting
    <3> QED
      BY <3>2
  <2> QED
    BY <2>1, <2>2
<1>5. SlotsLeft'
  <2>1. \A s \in PingSlot : ping_states[s].ip = Me => ping_states[s].ip # p.from
    BY <1>2, TracedTypes
  <2> QED
    BY <1>1, <1>4, <2>1 DEF TraceInv, SlotsLeft
<1>6. Recorded'
  BY <1>4 DEF TraceInv, Recorded, RecordedIn
<1>7. Marked'
  <2> SUFFICES ASSUME Asking, <<session, target, i + 1>> \in heard'
               PROVE  Answered'
    BY DEF Marked
  <2>1. PICK s \in PingSlot : RecordedIn(s)
    BY DEF TraceInv, Recorded
  <2>2. CASE <<session, target, i + 1>> \in heard
    <3>1. PICK t \in PingSlot : /\ ping_states[t].ip = target
                                /\ ping_states[t].sequence = i + 1
                                /\ ping_states[t].received
      BY <2>2 DEF TraceInv, Marked, Answered
    <3> QED
      BY <1>4, <3>1 DEF Answered
  <2>3. CASE ping_states[s].received
    BY <1>4, <2>1, <2>3 DEF RecordedIn, Answered
  <2>4. CASE <<session, target, i + 1>> \notin heard /\ ~ ping_states[s].received
    <3>1. <<session, target, i + 1>> = <<p.tag, p.from, p.n>>
      BY <1>2, <2>4
    <3>2. p.from = target /\ p.n = i + 1
      BY <3>1
    <3>3. s \in Awaiting(p) /\ Awaiting(p) \in SUBSET Nat
      BY <2>1, <2>4, <3>2, TracedTypes DEF RecordedIn, Awaiting
    <3>4. First(Awaiting(p)) \in Awaiting(p) /\ First(Awaiting(p)) <= s
      BY <3>3, FirstFound
    <3>5. First(Awaiting(p)) = s
      <4>1. \A u \in Awaiting(p) : u \in PingSlot /\ ~ ping_states[u].received
        BY DEF Awaiting
      <4>2. ~ (First(Awaiting(p)) < s)
        BY <2>1, <3>4, <4>1 DEF RecordedIn
      <4> QED
        BY <3>3, <3>4, <4>2
    <3>6. ping_states' = [ping_states EXCEPT ![s].received = TRUE]
      BY <3>3, <3>5 DEF echo_reply_receive
    <3>7. ping_states'[s].received
      BY <3>6, TracedTypes DEF PingState
    <3> QED
      BY <1>4, <2>1, <3>7 DEF RecordedIn, Answered
  <2> QED
    BY <2>2, <2>3, <2>4
<1> QED
  BY <1>3, <1>5, <1>6, <1>7 DEF TraceInv

\* A datagram is no answer to an echo request.
LEMMA DatagramTraced ==
    ASSUME NetInv, NetInv', TraceInv, NEW p \in wire, udp_receive(p, calls'),
           UNCHANGED <<session, target, i>>, Asking' <=> Asking,
           Asking => session >= 1 /\ i < PING_COUNT,
           LinkTraced', CallsTraced'
    PROVE  TraceInv'
<1>1. Sent' = Sent /\ Spent' = Spent
  BY DEF Sent, Spent
<1>2. /\ p.tag = 0 \/ p.n = QueryPort
      /\ heard' = heard \cup {<<p.tag, p.from, p.n>>}
      /\ ping_states' = ping_states
  BY DEF TraceInv, LinkTraced, Traced, udp_receive
<1>3. HeardTraced'
  <2>1. ASSUME NEW h \in heard'
        PROVE  h[1] = 0 \/ h[3] = QueryPort \/ Asked(h[1], h[3])
    <3>1. CASE h \in heard
      BY <3>1 DEF TraceInv, HeardTraced
    <3>2. CASE h = <<p.tag, p.from, p.n>>
      BY <1>2, <3>2
    <3> QED
      BY <1>2, <3>1, <3>2
  <2> QED
    BY <1>1, <2>1 DEF HeardTraced, Asked
<1>4. SlotsLeft' /\ Recorded'
  BY <1>1, <1>2 DEF TraceInv, SlotsLeft, Recorded, RecordedIn
<1>5. Marked'
  <2> SUFFICES ASSUME Asking, <<session, target, i + 1>> \in heard'
               PROVE  Answered
    BY <1>2 DEF Marked, Answered
  <2>1. session # 0 /\ i + 1 # QueryPort
    BY TracedTypes, NetworkAssumption
  <2>2. <<session, target, i + 1>> # <<p.tag, p.from, p.n>>
    BY <1>2, <2>1
  <2> QED
    BY <1>2, <2>2 DEF TraceInv, Marked
<1> QED
  BY <1>3, <1>4, <1>5 DEF TraceInv

(***************************************************************************)
(* A poll, whatever arrives.                                               *)
(***************************************************************************)
LEMMA PollTraced ==
    ASSUME NetInv, NetInv', TraceInv, NEW returned \in Seq(TracedCall), Poll(returned),
           UNCHANGED <<session, target, i>>, Asking' <=> Asking,
           Asking => session >= 1 /\ i < PING_COUNT
    PROVE  TraceInv'
<1>1. Sent' = Sent /\ TracedCall' = TracedCall
  BY DEF Sent, TracedCall, Traced, Asked
<1>2. \A p : Traced(p)' <=> Traced(p)
  BY <1>1 DEF Traced, Asked
<1>3. CASE /\ calls' = returned
           /\ UNCHANGED <<arp_cache, ping_states, resolution_complete, link, heard>>
  <2>1. LinkTraced' /\ CallsTraced'
    BY <1>1, <1>2, <1>3 DEF TraceInv, LinkTraced, CallsTraced, link
  <2> QED
    BY <1>3, <2>1, TraceKept
<1>4. ASSUME NEW p \in wire, Arrive(p), eth_receive_frame(p, returned)
      PROVE  TraceInv'
  <2>1. LinkTraced'
    BY <1>2, <1>4 DEF Arrive, TraceInv, LinkTraced
  <2>2. calls' = returned => CallsTraced'
    BY <1>1 DEF CallsTraced
  <2>3. CASE arp_receive(p, returned)
    BY <2>1, <2>2, <2>3, TraceKept DEF arp_receive
  <2>4. CASE ip_discard(p, returned)
    BY <2>1, <2>2, <2>4, TraceKept DEF ip_discard
  <2>5. CASE echo_request_receive(p, returned)
    <3> DEFINE reply == [p EXCEPT !.kind = "echo_reply", !.from = Me, !.to = p.from]
    <3>1. p \in Packet /\ p.from \in Host /\ Traced(p) /\ p.kind = "echo_request"
      BY <2>5, TracedTypes DEF TraceInv, LinkTraced, echo_request_receive
    <3>2. /\ reply \in Packet /\ reply.to = p.from /\ reply.kind = "echo_reply"
          /\ reply.tag = p.tag /\ reply.n = p.n
      BY <3>1 DEF Packet, Kind
    <3> HIDE DEF reply
    <3>3. Traced(reply)
      BY <3>1, <3>2 DEF Traced
    <3>4. Sending(reply) \in TracedCall
      BY <3>1, <3>2, <3>3, SendingType DEF TracedCall, Sending
    <3>5. calls' = Append(returned, Sending(reply))
      BY <2>5 DEF echo_request_receive, reply
    <3>6. CallsTraced'
      BY <1>1, <3>4, <3>5, AppendProperties DEF CallsTraced
    <3> QED
      BY <2>1, <2>5, <3>6, TraceKept DEF echo_request_receive
  <2>6. CASE echo_reply_receive(p, returned)
    BY <2>1, <2>2, <2>6, ReplyTraced DEF echo_reply_receive
  <2>7. CASE udp_receive(p, returned)
    BY <2>1, <2>2, <2>7, DatagramTraced DEF udp_receive
  <2> QED
    BY <1>4, <2>3, <2>4, <2>5, <2>6, <2>7 DEF eth_receive_frame, ip_receive
<1> QED
  BY <1>3, <1>4 DEF Poll

(***************************************************************************)
(* A step of an ip_send: its packet is traced, so its answers are.         *)
(***************************************************************************)
LEMMA IpSendTraced ==
    ASSUME NetInv, NetInv', ReportInv, IpSend
    PROVE  ReportInv'
<1>1. calls # << >> /\ UNCHANGED <<command, icmp_timer>>
  BY DEF IpSend, IpResolve, IpPoll, IpCheck, stack
<1>2. /\ UNCHANGED <<pc, target, i, limit, report, session>>
      /\ pc \notin {"idle", "dns_send", "ping_send"}
      /\ session >= 1 /\ (Asking' <=> Asking)
      /\ TraceInv /\ NetInv
  BY <1>1 DEF command, ReportInv, Resting, Asking
<1>3. Asking => i < PING_COUNT
  BY <1>2 DEF Asking, NetInv, CommandInv, CountInv
<1>4. Waiting' /\ Resting' /\ AnswersAreReported'
  BY <1>1, <1>2 DEF ReportInv, Waiting, Resting, AnswersAreReported
<1>5. /\ Sent' = Sent /\ TracedCall' = TracedCall
      /\ \A p : Traced(p)' <=> Traced(p)
  BY <1>2 DEF Sent, TracedCall, Traced, Asked
<1>6. /\ Top \in TracedCall /\ Popped \in Seq(TracedCall)
      /\ \A call \in TracedCall : WithTop(call) \in Seq(TracedCall)
  <2>1. calls \in Seq(TracedCall)
    BY <1>2 DEF TraceInv, CallsTraced
  <2>2. Len(calls) \in 1 .. Len(calls) /\ \A k \in 1 .. Len(calls) : calls[k] \in TracedCall
    BY <1>1, <2>1, EmptySeq, LenProperties, ElementOfSeq
  <2>3. Popped \in Seq(TracedCall)
    BY <2>1, <2>2, SubSeqProperties DEF Popped
  <2> QED
    BY <2>2, <2>3, AppendProperties DEF Top, WithTop
<1>7. Top \in Call /\ Top.packet \in Packet /\ Top.packet.to \in Host /\ Traced(Top.packet)
  BY <1>6 DEF TracedCall, Call
<1>8. ASSUME NEW at, NEW n, [Top EXCEPT !.at = at, !.retry = n] \in Call
      PROVE  WithTop([Top EXCEPT !.at = at, !.retry = n]) \in Seq(TracedCall)
  <2>1. [Top EXCEPT !.at = at, !.retry = n].packet = Top.packet
    BY <1>7 DEF Call
  <2> QED
    BY <1>6, <1>7, <1>8, <2>1 DEF TracedCall
<1>9. ASSUME NEW at \in {"poll", "check"}
      PROVE  WithTop([Top EXCEPT !.at = at]) \in Seq(TracedCall)
  <2>1. /\ [Top EXCEPT !.at = at] \in Call
        /\ [Top EXCEPT !.at = at].packet = Top.packet
    BY <1>7 DEF Call
  <2> QED
    BY <1>6, <1>7, <2>1 DEF TracedCall
<1>10. ASSUME NEW mac, NEW packet \in Packet, packet.to \in Host, Traced(packet),
              network_send_packet(mac, packet)
       PROVE  LinkTraced'
  <2>1. wire' = wire \cup Answers(mac, packet)
    BY <1>10 DEF network_send_packet
  <2>2. \A p \in wire' : p.from \in Host /\ Traced(p)
    BY <1>2, <1>10, <2>1, AnswersTraced DEF TraceInv, LinkTraced
  <2> QED
    BY <1>5, <2>2 DEF LinkTraced
<1>11. ASSUME UNCHANGED <<stack, heard>>, LinkTraced', calls' \in Seq(TracedCall)
       PROVE  TraceInv'
  <2>1. CallsTraced'
    BY <1>5, <1>11 DEF CallsTraced
  <2> QED
    BY <1>2, <1>11, <2>1, TraceKept DEF stack
<1>12. ASSUME Transmit, UNCHANGED <<stack, heard>> PROVE TraceInv'
  BY <1>6, <1>7, <1>10, <1>11, <1>12 DEF Transmit
<1>13. ASSUME IpResolve, ~ Transmit PROVE TraceInv'
  <2> DEFINE request == [kind |-> "arp_request", from |-> Me, to |-> Hop,
                         n |-> 0, tag |-> 0]
  <2>1. request \in Packet /\ request.to \in Host /\ Traced(request)
    BY NextHopType DEF Packet, Kind, Hop, Traced
  <2>2. network_send_packet(Broadcast, request)
    BY <1>13 DEF IpResolve, arp_send_request
  <2> HIDE DEF request
  <2>3. LinkTraced'
    BY <1>10, <2>1, <2>2
  <2> QED
    BY <1>9, <1>11, <1>13, <2>3 DEF IpResolve
<1>14. ASSUME IpPoll PROVE TraceInv'
  <2>1. WithTop([Top EXCEPT !.at = "check"]) \in Seq(TracedCall)
    BY <1>9
  <2> QED
    BY <1>2, <1>3, <1>14, <2>1, PollTraced DEF IpPoll
<1>15. ASSUME IpCheck, ~ Transmit PROVE TraceInv'
  <2>1. /\ UNCHANGED <<wire, stack, heard>>
        /\ \/ calls' = Popped
           \/ /\ MorePolls(Top.retry)
              /\ calls' = WithTop([Top EXCEPT !.at = "poll", !.retry = Top.retry + 1])
    BY <1>15 DEF IpCheck, link
  <2>2. LinkTraced'
    BY <1>2, <1>5, <2>1 DEF TraceInv, LinkTraced
  <2>3. calls' \in Seq(TracedCall)
    <3>1. MorePolls(Top.retry) => Top.retry + 1 \in 0 .. ARP_RETRIES - 1
      BY <1>7, NetworkAssumption DEF MorePolls, Call
    <3>2. \A n \in 0 .. ARP_RETRIES - 1 : [Top EXCEPT !.at = "poll", !.retry = n] \in Call
      BY <1>7 DEF Call
    <3> QED
      BY <1>6, <1>8, <2>1, <3>1, <3>2
  <2> QED
    BY <1>11, <2>1, <2>2, <2>3
<1>16. TraceInv'
  BY <1>12, <1>13, <1>14, <1>15 DEF IpSend, IpResolve, IpCheck
<1> QED
  BY <1>4, <1>16 DEF ReportInv

\* Once ping has gone on, only what was sent and received matters.
LEMMA TraceMoved ==
    ASSUME NetInv, NetInv', TraceInv, ~ Asking', session' = session, Sent' = Sent,
           UNCHANGED <<wire, calls, heard, ping_states>>
    PROVE  TraceInv'
<1>1. TracedCall' = TracedCall /\ Spent' = Spent /\ \A p : Traced(p)' <=> Traced(p)
  BY DEF TracedCall, Traced, Asked, Spent
<1>2. LinkTraced' /\ CallsTraced' /\ HeardTraced' /\ SlotsLeft'
  BY <1>1 DEF TraceInv, LinkTraced, CallsTraced, HeardTraced, SlotsLeft, Asked
<1> QED
  BY <1>2 DEF TraceInv, Recorded, Marked

(***************************************************************************)
(* A new ping: no answer to it can be anywhere, and its slots are left.    *)
(***************************************************************************)
LEMMA PingTraced ==
    ASSUME NetInv, NetInv', ReportInv, NEW host \in Host, NEW named \in BOOLEAN,
           Ping(host, named)
    PROVE  ReportInv'
<1>1. /\ pc = "idle" /\ calls = << >> /\ ~ Asking /\ TraceInv
      /\ pc' \in {"dns_send", "ping_send"} /\ ~ Asking'
      /\ session' = session + 1 /\ i' = 0 /\ report' = "nothing" /\ target' = host
      /\ session < MaxPings
      /\ UNCHANGED <<wire, calls, heard, ping_states>>
  BY Zenon DEF Ping, ReportInv, Resting, stack, link, Asking
<1>2. /\ \A tag, n \in Nat : Asked(tag, n) => Asked(tag, n)'
      /\ \A p \in Packet : Traced(p) => Traced(p)'
  BY <1>1, TracedTypes, TracedLater
<1>3. LinkTraced' /\ CallsTraced'
  BY <1>1, <1>2, TracedTypes, EmptySeq DEF TraceInv, LinkTraced, CallsTraced
<1>4. HeardTraced'
  <2>1. \A h \in heard : h[1] \in Nat /\ h[3] \in Nat
    BY DEF NetInv, PollInv, LinkTypeOK
  <2> QED
    BY <1>1, <1>2, <2>1 DEF TraceInv, HeardTraced
<1>5. SlotsLeft'
  <2>1. Spent <= Spent' /\ Spent' \in Int
    <3>1. Sent' = 0 /\ Sent <= PING_COUNT
      <4>1. i \in 0 .. PING_COUNT
        BY DEF NetInv, CommandInv, CommandTypeOK
      <4> QED
        BY <1>1, <4>1, TracedTypes DEF Sent
    <3>2. (session - 1) * PING_COUNT + PING_COUNT = session * PING_COUNT
      BY TracedTypes
    <3>3. session * PING_COUNT \in Int /\ (session - 1) * PING_COUNT \in Int
      BY TracedTypes
    <3>4. Spent' = session * PING_COUNT
      <4>1. session' - 1 = session
        BY <1>1, TracedTypes
      <4> QED
        BY <3>1, <3>3, <4>1 DEF Spent
    <3> QED
      BY <3>1, <3>2, <3>3, <3>4, TracedTypes DEF Spent
  <2> QED
    BY <1>1, <2>1, TracedTypes DEF TraceInv, SlotsLeft
<1>6. Waiting' /\ Resting' /\ AnswersAreReported'
  <2>1. session + 1 >= 1 /\ session + 1 <= MaxPings
    BY <1>1, TracedTypes, NetworkAssumption
  <2> QED
    BY <1>1, <2>1 DEF Waiting, Resting, AnswersAreReported
<1> QED
  BY <1>1, <1>3, <1>4, <1>5, <1>6 DEF ReportInv, TraceInv, Recorded, Marked

(***************************************************************************)
(* A new request: the first slot that can be used precedes every slot      *)
(* without an answer, and while slots last there is one.                   *)
(***************************************************************************)
LEMMA EchoTraced ==
    ASSUME NetInv, NetInv', ReportInv, EchoSend, MaxPings * PING_COUNT <= MAX_PING_STATES
    PROVE  ReportInv'
<1>1. /\ pc = "ping_send" /\ calls = << >> /\ ~ Asking /\ TraceInv
      /\ i \in Nat /\ i < PING_COUNT /\ PING_COUNT \in Nat
      /\ session \in Nat /\ session >= 1 /\ session <= MaxPings /\ target \in Host
      /\ pc' = "ping_wait" /\ Asking' /\ report' = "nothing"
      /\ limit' = icmp_timer + PING_TIMEOUT
      /\ UNCHANGED <<icmp_timer, target, i, session, wire, heard>>
  BY TracedTypes DEF EchoSend, ReportInv, Resting, link, Asking
<1>2. Sent = i /\ Sent' = i + 1 /\ Spent \in Int /\ Spent' = Spent + 1
  <2>1. Sent = i /\ Sent' = i + 1
    BY <1>1 DEF Sent
  <2>2. (session - 1) * PING_COUNT \in Int
    BY <1>1
  <2> QED
    BY <1>1, <2>1, <2>2 DEF Spent
<1>3. /\ \A tag, n \in Nat : Asked(tag, n) => Asked(tag, n)'
      /\ \A p \in Packet : Traced(p) => Traced(p)'
  BY <1>1, <1>2, TracedLater
<1>4. LinkTraced'
  BY <1>1, <1>3, TracedTypes DEF TraceInv, LinkTraced
<1>5. CallsTraced'
  <2>1. PICK request \in Packet :
           /\ calls' = << Sending(request) >> /\ request.to = target
           /\ request.kind = "echo_request" /\ request.n = i + 1 /\ request.tag = session
    <3> DEFINE sent == [kind |-> "echo_request", from |-> Me, to |-> target,
                        n |-> i + 1, tag |-> session]
    <3>1. /\ sent \in Packet /\ sent.to = target
          /\ sent.kind = "echo_request" /\ sent.n = i + 1 /\ sent.tag = session
      BY <1>1 DEF Packet, Kind
    <3>2. calls' = << Sending(sent) >>
      BY DEF EchoSend
    <3> HIDE DEF sent
    <3> QED
      BY <3>1, <3>2
  <2>3. Traced(request)'
    BY <1>1, <1>2, <2>1 DEF Traced, Asked
  <2>4. Sending(request) \in TracedCall'
    BY <1>1, <2>1, <2>3, SendingType DEF TracedCall, Sending
  <2> QED
    BY <2>1, <2>4 DEF CallsTraced
<1>6. HeardTraced'
  <2>1. \A h \in heard : h[1] \in Nat /\ h[3] \in Nat
    BY DEF NetInv, PollInv, LinkTypeOK
  <2> QED
    BY <1>1, <1>3, <2>1 DEF TraceInv, HeardTraced
<1>7. Spent \in PingSlot
  <2>1. (session - 1) * PING_COUNT >= 0 /\ (session - 1) * PING_COUNT \in Int
    BY <1>1
  <2>2. (session - 1) * PING_COUNT + PING_COUNT <= MaxPings * PING_COUNT
    <3>1. (session - 1) * PING_COUNT + PING_COUNT = session * PING_COUNT
      BY <1>1
    <3>2. session * PING_COUNT <= MaxPings * PING_COUNT
      BY <1>1, NetworkAssumption
    <3> QED
      BY <3>1, <3>2
  <2>3. MaxPings * PING_COUNT \in Int /\ MAX_PING_STATES \in Int
    BY <1>1, NetworkAssumption
  <2> QED
    BY <1>1, <1>2, <2>1, <2>2, <2>3 DEF Spent, PingSlot
<1>8. Spent \in Reusable /\ Reusable \in SUBSET Nat /\ Reusable \subseteq PingSlot
  <2>1. Reusable \subseteq PingSlot
    BY DEF Reusable
  <2>2. ~ ping_states[Spent].received
    BY <1>1, <1>2, <1>7 DEF TraceInv, SlotsLeft
  <2> QED
    BY <1>7, <2>1, <2>2, TracedTypes DEF Reusable
<1>9. PICK r \in PingSlot :
         /\ ping_states' = [ping_states EXCEPT ![r] = NewPing(r)]
         /\ r <= Spent /\ \A u \in Reusable : r <= u
  BY <1>8, FirstFound DEF EchoSend
<1>10. /\ ping_states'[r] = NewPing(r)
       /\ \A u \in PingSlot \ {r} : ping_states'[u] = ping_states[u]
  BY <1>9, TracedTypes
<1>11. SlotsLeft'
  <2>1. ASSUME NEW s \in PingSlot, s >= Spent + 1 PROVE s # r /\ s >= Spent
    BY <1>2, <1>9, <2>1, TracedTypes
  <2> QED
    BY <1>1, <1>2, <1>10, <2>1 DEF TraceInv, SlotsLeft
<1>12. Recorded'
  <2>1. ASSUME NEW u \in PingSlot, u < r PROVE ping_states[u].received /\ u # r
    <3>1. u \in Nat /\ r \in Nat
      BY TracedTypes
    <3>2. u \notin Reusable
      BY <1>9, <2>1, <3>1
    <3> QED
      BY <2>1, <3>1, <3>2 DEF Reusable
  <2>2. RecordedIn(r)'
    BY <1>1, <1>10, <2>1 DEF RecordedIn, NewPing
  <2> QED
    BY <2>2 DEF Recorded
<1>13. Marked'
  <2>1. ~ Asked(session, i + 1)
    BY <1>1, <1>2 DEF Asked
  <2>2. <<session, target, i + 1>>[1] = session /\ <<session, target, i + 1>>[3] = i + 1
    OBVIOUS
  <2>3. session # 0 /\ i + 1 # QueryPort
    BY <1>1, NetworkAssumption
  <2>4. <<session, target, i + 1>> \notin heard
    BY <1>1, <2>1, <2>2, <2>3 DEF TraceInv, HeardTraced
  <2> QED
    BY <1>1, <2>4 DEF Marked
<1>14. Waiting' /\ Resting' /\ AnswersAreReported'
  <2>1. icmp_timer < limit'
    BY <1>1, NetworkAssumption DEF NetInv, PollInv, StackTypeOK
  <2> QED
    BY <1>1, <2>1 DEF Waiting, Resting, AnswersAreReported
<1> QED
  BY <1>4, <1>5, <1>6, <1>11, <1>12, <1>13, <1>14 DEF ReportInv, TraceInv

(***************************************************************************)
(* The other steps of ping: a wait ends without a reply only when the last *)
(* look at the slots found none and nothing was received after it.         *)
(***************************************************************************)
LEMMA CommandTraced ==
    ASSUME NetInv, NetInv', ReportInv, Dns \/ WaitPoll \/ WaitScan \/ WaitTimeout \/ PingDone
    PROVE  ReportInv'
<1>0. /\ TraceInv /\ << >> \in Seq(TracedCall) /\ Waiting /\ Resting
      /\ PING_COUNT \in Nat /\ i \in Nat /\ session \in Nat
      /\ Asking => session >= 1 /\ i < PING_COUNT
  BY TracedTypes, EmptySeq
  DEF ReportInv, Asking, Resting, NetInv, CommandInv, CountInv
<1>1. ASSUME UNCHANGED <<wire, session, target, i, ping_states, heard>>, Asking' <=> Asking,
             UNCHANGED calls
      PROVE  TraceInv'
  <2>1. Sent' = Sent /\ TracedCall' = TracedCall /\ \A p : Traced(p)' <=> Traced(p)
    BY <1>1 DEF Sent, TracedCall, Traced, Asked
  <2>2. LinkTraced' /\ CallsTraced'
    BY <1>0, <1>1, <2>1 DEF TraceInv, LinkTraced, CallsTraced
  <2> QED
    BY <1>0, <1>1, <2>2, TraceKept
<1>2. CASE DnsSend
  <2>1. PICK query \in Packet :
           /\ calls' = << Sending(query) >> /\ query.to \in Host
           /\ query.kind = "dns_query" /\ query.n = QueryPort
    <3> DEFINE sent == [kind |-> "dns_query", from |-> Me, to |-> dns_server,
                        n |-> QueryPort, tag |-> session]
    <3>1. /\ sent \in Packet /\ sent.to \in Host
          /\ sent.kind = "dns_query" /\ sent.n = QueryPort
      BY <1>0, HostsAssumption DEF Packet, Kind, QueryPort
    <3>2. calls' = << Sending(sent) >>
      BY <1>2 DEF DnsSend, udp_send
    <3> HIDE DEF sent
    <3> QED
      BY <3>1, <3>2
  <2>3. /\ ~ Asking /\ ~ Asking' /\ UNCHANGED <<session, target, i, report>>
        /\ UNCHANGED <<wire, ping_states, heard>> /\ pc = "dns_send" /\ pc' = "dns_poll"
    BY <1>2 DEF DnsSend, link, Asking
  <2>4. CallsTraced'
    <3>1. Traced(query)'
      BY <2>1 DEF Traced
    <3>2. Sending(query) \in TracedCall'
      BY <2>1, <3>1, SendingType DEF TracedCall, Sending
    <3> QED
      BY <2>1, <3>2 DEF CallsTraced
  <2>5. LinkTraced'
    <3>1. Sent' = Sent
      BY <2>3 DEF Sent
    <3> QED
      BY <1>0, <2>3, <3>1 DEF TraceInv, LinkTraced, Traced, Asked
  <2>6. TraceInv'
    BY <1>0, <2>3, <2>4, <2>5, TraceKept
  <2> QED
    BY <1>0, <2>3, <2>6 DEF ReportInv, Waiting, Resting, AnswersAreReported
<1>3. CASE DnsPoll
  <2>1. TraceInv'
    BY <1>0, <1>3, PollTraced DEF DnsPoll, Asking
  <2>2. pc = "dns_poll" /\ UNCHANGED <<pc, target, i, report, session>>
    BY <1>3 DEF DnsPoll
  <2> QED
    BY <1>0, <2>1, <2>2 DEF ReportInv, Waiting, Resting, AnswersAreReported
<1>4. CASE DnsReturn
  <2>1. /\ pc = "dns_poll" /\ pc' \in {"ping_send", "idle"} /\ calls = << >>
        /\ report' \in {report, "cannot resolve"}
        /\ UNCHANGED <<stack, calls, target, i, session, link, heard>>
    BY <1>4 DEF DnsReturn
  <2>2. TraceInv'
    BY <1>1, <2>1 DEF stack, link, Asking
  <2> QED
    BY <1>0, <2>1, <2>2 DEF ReportInv, Waiting, Resting, AnswersAreReported
<1>5. CASE WaitPoll
  <2>1. TraceInv'
    BY <1>0, <1>5, PollTraced DEF WaitPoll, Asking
  <2>2. pc = "ping_wait" /\ pc' = "ping_scan" /\ UNCHANGED <<target, i, report, session>>
    BY <1>5 DEF WaitPoll
  <2> QED
    BY <1>0, <2>1, <2>2 DEF ReportInv, Waiting, Resting, AnswersAreReported
<1>6. CASE WaitScan /\ Answered
  <2>1. /\ pc = "ping_scan" /\ pc' = "ping_send" /\ calls = << >>
        /\ i' = i + 1 /\ report' = "reply"
        /\ UNCHANGED <<ping_states, calls, target, session, wire, heard>>
    BY <1>6 DEF WaitScan, link
  <2>2. ~ Asking' /\ Sent' = Sent
    BY <2>1 DEF Asking, Sent
  <2>3. TraceInv'
    BY <1>0, <2>1, <2>2, TraceMoved
  <2> QED
    BY <1>0, <2>1, <2>3 DEF ReportInv, Waiting, Resting, AnswersAreReported
<1>7. CASE WaitScan /\ ~ Answered
  <2>1. /\ pc = "ping_scan" /\ pc' = "ping_wait" /\ calls = << >>
        /\ UNCHANGED <<ping_states, calls, target, i, report, session, wire, heard>>
    BY <1>7 DEF WaitScan, link
  <2>2. TraceInv'
    BY <1>1, <2>1 DEF Asking
  <2>3. ~ Answered'
    BY <1>7, <2>1 DEF Answered
  <2> QED
    BY <1>0, <2>1, <2>2, <2>3 DEF ReportInv, Waiting, Resting, AnswersAreReported
<1>8. CASE WaitTimeout
  <2>1. /\ pc = "ping_wait" /\ pc' = "ping_send" /\ calls = << >>
        /\ i' = i + 1 /\ report' = "timed out" /\ ~ (icmp_timer < limit)
        /\ UNCHANGED <<ping_states, calls, target, session, wire, heard>>
    <3>1. icmp_timer \in Nat /\ limit \in Nat
      BY DEF NetInv, PollInv, StackTypeOK, CommandInv, CommandTypeOK
    <3>2. ~ (icmp_timer < limit)
      <4>1. icmp_timer >= limit
        BY <1>8, Zenon DEF WaitTimeout
      <4> QED
        BY <3>1, <4>1
    <3> QED
      BY <1>8, <3>2 DEF WaitTimeout, link, stack
  <2>2. ~ Asking' /\ Sent' = Sent /\ Asking
    BY <2>1 DEF Asking, Sent
  <2>3. TraceInv'
    BY <1>0, <2>1, <2>2, TraceMoved
  <2>4. <<session, target, i + 1>> \notin heard
    BY <1>0, <2>1, <2>2 DEF Waiting, TraceInv, Marked
  <2> QED
    BY <1>0, <2>1, <2>3, <2>4 DEF ReportInv, Waiting, Resting, AnswersAreReported
<1>9. CASE PingDone
  <2>1. /\ pc = "ping_send" /\ pc' = "idle"
        /\ UNCHANGED <<stack, calls, target, i, report, session, link, heard>>
    BY <1>9 DEF PingDone
  <2>2. TraceInv'
    BY <1>1, <2>1 DEF stack, link, Asking
  <2> QED
    BY <1>0, <2>1, <2>2 DEF ReportInv, Waiting, Resting, AnswersAreReported
<1> QED
  BY <1>2, <1>3, <1>4, <1>5, <1>6, <1>7, <1>8, <1>9 DEF Dns

LEMMA ReportInit == Init => ReportInv
<1> SUFFICES ASSUME Init PROVE ReportInv
  OBVIOUS
<1>1. ~ Asking
  BY DEF Init, Asking
<1>2. LinkTraced
  BY HostsAssumption DEF Init, LinkTraced, Traced
<1>3. CallsTraced
  BY EmptySeq DEF Init, CallsTraced
<1>4. HeardTraced /\ SlotsLeft /\ Waiting
  BY DEF Init, HeardTraced, SlotsLeft, NoPing, Waiting
<1>5. Resting /\ AnswersAreReported
  BY NetworkAssumption DEF Init, Resting, AnswersAreReported
<1> QED
  BY <1>1, <1>2, <1>3, <1>4, <1>5 DEF ReportInv, TraceInv, Recorded, Marked

LEMMA ReportNext ==
    ASSUME MaxPings * PING_COUNT <= MAX_PING_STATES
    PROVE  NetInv /\ NetInv' /\ ReportInv /\ [Next]_vars => ReportInv'
<1> SUFFICES ASSUME NetInv, NetInv', ReportInv, [Next]_vars PROVE ReportInv'
  OBVIOUS
<1>1. CASE UNCHANGED vars
  BY <1>1 DEF vars, stack, command, link, ReportInv, TraceInv, LinkTraced, CallsTraced,
     HeardTraced, SlotsLeft, Recorded, RecordedIn, Marked, Waiting, Resting,
     AnswersAreReported, TracedCall, Traced, Asked, Asking, Sent, Spent, Answered
<1>2. CASE IpSend
  BY <1>2, IpSendTraced
<1>3. CASE Dns \/ WaitPoll \/ WaitScan \/ WaitTimeout \/ PingDone
  BY <1>3, CommandTraced
<1>4. CASE EchoSend
  BY <1>4, EchoTraced
<1>5. ASSUME NEW host \in Host, NEW named \in BOOLEAN, Ping(host, named)
      PROVE  ReportInv'
  BY <1>5, PingTraced
<1> QED
  BY <1>1, <1>2, <1>3, <1>4, <1>5 DEF Next, Kernel, Echo, User, OtherCommand

(***************************************************************************)
(* ping prints "Request timed out" only when no poll of the wait, nested   *)
(* or not, received the answer: for the requests of as many runs of ping   *)
(* as the slots last for (four, of four requests each), whatever else is   *)
(* received and however slots are reused.                                  *)
(***************************************************************************)
THEOREM TimeoutsAreReal ==
    ASSUME MaxPings * PING_COUNT <= MAX_PING_STATES
    PROVE  Spec => []AnswersAreReported
<1>1. ReportInv => AnswersAreReported
  BY DEF ReportInv
<1>2. NetInv /\ NetInv' /\ ReportInv /\ [Next]_vars => ReportInv'
  BY ReportNext
<1> QED
  BY <1>1, <1>2, ReportInit, NetInvariant, PTL DEF Spec

=============================================================================
