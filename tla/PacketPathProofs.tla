-------------------------- MODULE PacketPathProofs ---------------------------
(***************************************************************************)
(* Proofs about PacketPath, for a cache of any size, any set of hosts and  *)
(* any set of frames.  Nothing here depends on which slot Pick chooses.    *)
(***************************************************************************)
EXTENDS PacketPath, TLAPS

Slot == [ip : Hosts \cup {Own, None}, haddr : Macs \cup {Own, None}, age : Int]

\* The inductive invariant of the cache, and of the deferred packets.
CacheInv ==
    /\ arp_cache \in [Slots -> Slot] /\ tree \subseteq Slots
    /\ deferred \in Seq(Hosts) /\ heard \in Hosts \cup {None}
    /\ OneEntryPerAddress /\ AnswersWereClaimed /\ HeardResolves

\* What an insertion does to the cache: there is a slot for the address, and the
\* other slots in the tree are as before and are not for this address.
LEMMA InsertEffect ==
    ASSUME arp_cache \in [Slots -> Slot], tree \subseteq Slots, OneEntryPerAddress,
           NEW ip \in Hosts, NEW mac \in Macs, Insert(ip, mac)
    PROVE  \E i \in Slots :
              /\ i \in tree' /\ tree' \ {i} \subseteq tree
              /\ arp_cache' \in [Slots -> Slot]
              /\ arp_cache'[i].ip = ip /\ arp_cache'[i].age = 0
              /\ \A j \in Slots \ {i} : arp_cache'[j] = arp_cache[j]
              /\ \A j \in tree \ {i} : arp_cache[j].ip # ip
              /\ arp_cache'[i].haddr = mac
                 \/ (i \in tree /\ arp_cache[i].ip = ip /\ arp_cache'[i].haddr = arp_cache[i].haddr)
<1>1. ~broken /\ (Refresh(ip) \/ Replace(ip, mac))
  BY DEF Insert
<1>2. CASE Refresh(ip)
  <2>1. PICK i \in Entries(ip) : arp_cache' = [arp_cache EXCEPT ![i].age = ARP_CACHE_DYN]
    BY <1>2 DEF Refresh
  <2>2. i \in Slots /\ i \in tree /\ arp_cache[i].ip = ip /\ tree' = tree
    BY <1>2, <2>1 DEF Refresh, Entries
  <2>3. arp_cache[i] \in Slot
    BY <2>2
  <2>4. arp_cache'[i] = [arp_cache[i] EXCEPT !.age = 0]
    BY <2>1, <2>2 DEF ARP_CACHE_DYN
  <2>5. arp_cache'[i] \in Slot /\ arp_cache'[i].ip = ip /\ arp_cache'[i].age = 0
        /\ arp_cache'[i].haddr = arp_cache[i].haddr
    BY <2>2, <2>3, <2>4 DEF Slot
  <2>6. \A j \in Slots \ {i} : arp_cache'[j] = arp_cache[j]
    BY <2>1, <2>2
  <2>7. arp_cache' \in [Slots -> Slot]
    BY <2>1, <2>2, <2>5, <2>6
  <2>8. \A j \in tree \ {i} : arp_cache[j].ip # ip
    BY <1>1, <2>2 DEF OneEntryPerAddress
  <2> QED
    BY <2>2, <2>5, <2>6, <2>7, <2>8
<1>3. CASE Replace(ip, mac)
  <2>1. PICK i \in Slots :
           /\ arp_cache' = [arp_cache EXCEPT ![i] = [ip |-> ip, haddr |-> mac, age |-> ARP_CACHE_DYN]]
           /\ tree' = (IF arp_cache[i].age >= 0 THEN Remaining(i) ELSE tree) \cup {i}
    BY <1>3 DEF Replace
  <2>2. Entries(ip) = {}
    BY <1>3 DEF Replace
  <2>3. tree' \ {i} \subseteq tree /\ i \in tree'
    BY <2>1 DEF Remaining
  <2>4. [ip |-> ip, haddr |-> mac, age |-> ARP_CACHE_DYN] \in Slot
    BY DEF Slot, ARP_CACHE_DYN
  <2>5. arp_cache' \in [Slots -> Slot]
    BY <2>1, <2>4
  <2>6. arp_cache'[i].ip = ip /\ arp_cache'[i].age = 0 /\ arp_cache'[i].haddr = mac
    BY <2>1 DEF ARP_CACHE_DYN
  <2>7. \A j \in Slots \ {i} : arp_cache'[j] = arp_cache[j]
    BY <2>1
  <2>8. \A j \in tree \ {i} : arp_cache[j].ip # ip
    BY <2>2 DEF Entries
  <2> QED
    BY <2>3, <2>5, <2>6, <2>7, <2>8
<1> QED
  BY <1>1, <1>2, <1>3

\* An insertion keeps the invariant of the cache.
LEMMA InsertInv ==
    ASSUME CacheInv, NEW ip \in Hosts, NEW mac \in Macs, Insert(ip, mac)
    PROVE  /\ arp_cache' \in [Slots -> Slot] /\ tree' \subseteq Slots
           /\ heard' = ip /\ ip # None
           /\ OneEntryPerAddress' /\ AnswersWereClaimed' /\ HeardResolves'
<1>1. PICK i \in Slots :
         /\ i \in tree' /\ tree' \ {i} \subseteq tree
         /\ arp_cache' \in [Slots -> Slot]
         /\ arp_cache'[i].ip = ip /\ arp_cache'[i].age = 0
         /\ \A j \in Slots \ {i} : arp_cache'[j] = arp_cache[j]
         /\ \A j \in tree \ {i} : arp_cache[j].ip # ip
         /\ arp_cache'[i].haddr = mac
            \/ (i \in tree /\ arp_cache[i].ip = ip /\ arp_cache'[i].haddr = arp_cache[i].haddr)
  BY InsertEffect DEF CacheInv
<1>2. ~broken /\ heard' = ip /\ claims' = claims \cup {<<ip, mac>>} /\ tree \subseteq Slots
  BY DEF Insert, CacheInv
<1>3. tree' \subseteq Slots
  BY <1>1, <1>2
<1>4. OneEntryPerAddress'
  BY <1>1, <1>2, <1>3 DEF OneEntryPerAddress, CacheInv
<1>5. AnswersWereClaimed'
  <2> SUFFICES ASSUME NEW h \in Hosts, NEW j \in tree', arp_cache'[j].ip = h
               PROVE  <<h, arp_cache'[j].haddr>> \in claims'
    BY DEF AnswersWereClaimed, Entries
  <2>1. \A g \in Hosts : \A k \in tree : arp_cache[k].ip = g => <<g, arp_cache[k].haddr>> \in claims
    BY <1>2 DEF CacheInv, AnswersWereClaimed, Entries
  <2>2. CASE j = i
    BY <1>1, <1>2, <2>1, <2>2
  <2>3. CASE j # i
    BY <1>1, <1>2, <1>3, <2>1, <2>3
  <2> QED
    BY <2>2, <2>3
<1>6. HeardResolves'
  BY <1>1, <1>2 DEF HeardResolves, Resolves, Entries
<1> QED
  BY <1>1, <1>2, <1>3, <1>4, <1>5, <1>6, CacheAssumption

\* So does the arrival of a sender, with or without an address.
LEMMA LearnInv ==
    ASSUME CacheInv, NEW ip \in Hosts \cup {None}, NEW mac \in Macs, Learn(ip, mac)
    PROVE  /\ arp_cache' \in [Slots -> Slot] /\ tree' \subseteq Slots
           /\ heard' \in Hosts \cup {None}
           /\ OneEntryPerAddress' /\ AnswersWereClaimed' /\ HeardResolves'
<1>1. CASE ip = None /\ UNCHANGED cacheVars
  BY <1>1 DEF cacheVars, CacheInv, OneEntryPerAddress, AnswersWereClaimed, HeardResolves,
              Resolves, Entries
<1>2. CASE ip # None /\ Insert(ip, mac)
  BY <1>2, InsertInv
<1> QED
  BY <1>1, <1>2 DEF Learn

\* And so does the aging of all slots, which changes no address.
LEMMA UpdateInv ==
    ASSUME CacheInv, NEW delta \in Deltas, Update(delta)
    PROVE  /\ arp_cache' \in [Slots -> Slot] /\ tree' \subseteq Slots
           /\ heard' \in Hosts \cup {None}
           /\ OneEntryPerAddress' /\ AnswersWereClaimed' /\ HeardResolves'
<1>1. \A i \in Slots : /\ arp_cache'[i] \in Slot
                       /\ arp_cache'[i].ip = arp_cache[i].ip
                       /\ arp_cache'[i].haddr = arp_cache[i].haddr
  BY CacheAssumption DEF Update, CacheInv, Slot, Aged, ARP_CACHE_FREE
<1>2. arp_cache' \in [Slots -> Slot]
  BY <1>1 DEF Update
<1>3. ~broken /\ tree' = tree /\ heard' = None /\ claims' = claims /\ tree \subseteq Slots
  BY DEF Update, CacheInv
<1>4. OneEntryPerAddress'
  BY <1>1, <1>3 DEF OneEntryPerAddress, CacheInv
<1>5. AnswersWereClaimed'
  BY <1>1, <1>3 DEF AnswersWereClaimed, Entries, CacheInv
<1> QED
  BY <1>2, <1>3, <1>4, <1>5 DEF HeardResolves

-----------------------------------------------------------------------------
\* At boot the own address is the only one in the tree.
LEMMA InitInv == Init => CacheInv
<1> SUFFICES ASSUME Init PROVE CacheInv
  OBVIOUS
<1>1. 1 \in Slots /\ tree = {1} /\ heard = None /\ deferred = <<>>
  BY CacheAssumption DEF Init, CacheInit, Slots
<1>2. arp_cache \in [Slots -> Slot]
  BY DEF Init, CacheInit, Slot, ARP_CACHE_STATIC, ARP_CACHE_DYN
<1>3. arp_cache[1].ip = Own
  BY <1>1 DEF Init, CacheInit
<1> QED
  BY <1>1, <1>2, <1>3, CacheAssumption
  DEF CacheInv, OneEntryPerAddress, AnswersWereClaimed, HeardResolves, Entries

\* What runs out of the buffer is ip_input() of the packet in it.
LEMMA FaultReceived ==
    ASSUME Faults
    PROVE  rx' \in IpFrames /\ IpOverrun(rx')
<1>1. PICK f \in IpFrames : IpOverrun(f)
  BY DEF Faults
<1> QED
  BY <1>1 DEF IpOverrun, IpInput

\* Every step of the ingress, egress and periodic handlers keeps the invariant.
LEMMA NextInv == CacheInv /\ [Next]_vars => CacheInv'
<1> SUFFICES ASSUME CacheInv, [Next]_vars PROVE CacheInv'
  OBVIOUS
<1>1. CASE UNCHANGED <<cacheVars, deferred>>
  BY <1>1 DEF cacheVars, CacheInv, OneEntryPerAddress, AnswersWereClaimed, HeardResolves,
              Resolves, Entries
<1>2. ASSUME NEW f \in ArpFrames, ArpInput(f) PROVE CacheInv'
  <2>1. deferred' \in Seq(Hosts)
    BY <1>2 DEF ArpInput, HandleDeferred
  <2>2. f.spa \in Hosts \cup {None} /\ f.sha \in Macs /\ Learn(f.spa, f.sha)
    BY <1>2, FrameAssumption DEF ArpInput
  <2> QED
    BY <2>1, <2>2, LearnInv DEF CacheInv
<1>3. ASSUME NEW f \in IpFrames, Learn(f.packet.src, f.h_src), UNCHANGED deferred
      PROVE  CacheInv'
  <2>1. f.packet.src \in Hosts \cup {None} /\ f.h_src \in Macs
    BY FrameAssumption
  <2> QED
    BY <1>3, <2>1, LearnInv DEF CacheInv
<1>4. ASSUME NEW f \in ArpFrames \cup IpFrames, Receive(f) PROVE CacheInv'
  <2>1. CASE ArpInput(f)
    BY <1>2, <2>1 DEF ArpInput
  <2>2. CASE f \in IpFrames /\ IpInvalid(f)
    BY <1>1, <2>2 DEF IpInvalid
  <2>3. CASE /\ f \in IpFrames
             /\ \/ IpNotOwn(f) \/ IpFragmented(f) \/ IpNoProto(f) \/ IcmpEcho(f)
                \/ IcmpOther(f) \/ TcpAnswered(f) \/ TcpSilent(f)
                \/ UdpTooSmall(f) \/ UdpDelivered(f) \/ UdpNoSocket(f)
    <3>1. Learn(f.packet.src, f.h_src) /\ UNCHANGED deferred
      BY <2>3, Zenon DEF IpNotOwn, IpFragmented, IpNoProto, IcmpEcho, IcmpOther, TcpAnswered,
                         TcpSilent, UdpTooSmall, UdpDelivered, UdpNoSocket, IpOverrun, IpInput
    <3> QED
      BY <1>3, <2>3, <3>1
  <2> QED
    BY <1>4, <2>1, <2>2, <2>3, Zenon DEF Receive
<1>5. ASSUME Faults PROVE CacheInv'
  <2>1. rx' \in IpFrames /\ IpOverrun(rx')
    BY <1>5, FaultReceived
  <2> QED
    BY <1>3, <2>1 DEF IpOverrun, IpInput
<1>6. ASSUME NEW ip \in Hosts, UdpSendDeferred(ip) PROVE CacheInv'
  <2>1. deferred' \in Seq(Hosts)
    BY <1>6 DEF UdpSendDeferred, CacheInv
  <2>2. UNCHANGED cacheVars
    BY <1>6 DEF UdpSendDeferred
  <2> QED
    BY <2>1, <2>2 DEF cacheVars, CacheInv, OneEntryPerAddress, AnswersWereClaimed,
                      HeardResolves, Resolves, Entries
<1>7. ASSUME NEW delta \in Deltas, Periodic(delta) PROVE CacheInv'
  <2>1. deferred' \in Seq(Hosts)
    BY <1>7 DEF Periodic, HandleDeferred
  <2> QED
    BY <1>7, <2>1, UpdateInv DEF Periodic, CacheInv
<1>8. CASE UdpSendRefused \/ \E ip \in Hosts : UdpSendNow(ip) \/ UdpSendNoBuffer(ip)
  BY <1>1, <1>8, Zenon DEF UdpSendRefused, UdpSendNow, UdpSendNoBuffer
<1>9. CASE UNCHANGED vars
  <2>1. UNCHANGED <<cacheVars, deferred>>
    BY <1>9 DEF vars
  <2> QED
    BY <1>1, <2>1
<1> QED
  BY <1>4, <1>6, <1>7, <1>8, <1>9, <1>5, Zenon DEF Next, Runs

\* The cache of arp.c keeps its invariant whatever is received and sent, whatever
\* its size, and whichever slots arp_cache_insert() overwrites.
THEOREM CacheInvariant == Spec => []CacheInv
<1> QED
  BY InitInv, NextInv, PTL DEF Spec

\* An address is found in one slot of the cache only.
THEOREM OneEntry == Spec => []OneEntryPerAddress
<1>1. CacheInv => OneEntryPerAddress
  BY DEF CacheInv
<1> QED
  BY <1>1, CacheInvariant, PTL

\* The cache answers with hardware addresses that the host has claimed.
THEOREM AnswersClaimed == Spec => []AnswersWereClaimed
<1>1. CacheInv => AnswersWereClaimed
  BY DEF CacheInv
<1> QED
  BY <1>1, CacheInvariant, PTL

\* A reply to the host heard last needs no ARP request.
THEOREM HeardIsResolved == Spec => []HeardResolves
<1>1. CacheInv => HeardResolves
  BY DEF CacheInv
<1> QED
  BY <1>1, CacheInvariant, PTL
-----------------------------------------------------------------------------
\* What is sent after the deferred packets does not move them.
LEMMA ConcatPrefix ==
    ASSUME NEW n \in Nat, NEW g, g = [i \in 1..n |-> g[i]],
           NEW r, r = <<>> \/ \E x : r = <<x>>
    PROVE  \A i \in 1..n : (g \o r)[i] = g[i]
<1>1. CASE r = <<>>
  <2> DEFINE S == {g[i] : i \in 1..n}
  <2>1. g \in Seq(S) /\ Len(g) = n
    OBVIOUS
  <2>2. r \in Seq(S)
    BY <1>1
  <2> HIDE DEF S
  <2> QED
    BY <2>1, <2>2
<1>2. ASSUME NEW x, r = <<x>> PROVE \A i \in 1..n : (g \o r)[i] = g[i]
  <2> DEFINE S == {g[i] : i \in 1..n} \cup {x}
  <2>1. g \in Seq(S) /\ Len(g) = n
    OBVIOUS
  <2>2. r \in Seq(S)
    BY <1>2
  <2> HIDE DEF S
  <2> QED
    BY <2>1, <2>2
<1> QED
  BY <1>1, <1>2

\* ether_send() sends one frame or none.
LEMMA OneReply ==
    ASSUME NEW to, NEW bsize, NEW p
    PROVE  EtherSend(to, bsize, p) = <<>> \/ \E x : EtherSend(to, bsize, p) = <<x>>
<1> DEFINE x == [h_dst |-> to, bytes |-> bsize, packet |-> p]
<1> HIDE DEF x
<1>1. EtherSend(to, bsize, p) = <<>> \/ EtherSend(to, bsize, p) = <<x>>
  BY Zenon DEF EtherSend, x
<1> QED
  BY <1>1, Zenon

\* arp_input() sends the packets that wait for the sender, to an address it has
\* claimed, whichever slot the sender got.
LEMMA ArpAnswer ==
    ASSUME CacheInv, CacheInv', ~broken', NEW f \in ArpFrames, ArpInput(f),
           NEW k \in DOMAIN deferred, deferred[k] = f.spa
    PROVE  /\ tx'[k].packet = [order |-> "net", src |-> Own, dst |-> f.spa]
           /\ <<f.spa, tx'[k].h_dst>> \in claims'
<1>1. deferred \in Seq(Hosts) /\ DOMAIN deferred = 1..Len(deferred) /\ Len(deferred) \in Nat
  BY DEF CacheInv
<1>2. f.spa \in Hosts
  BY <1>1
<1>3. heard' = f.spa /\ heard' # None
  BY <1>2, CacheAssumption DEF ArpInput, Learn, Insert
<1>4. Resolves(f.spa)'
  BY <1>3 DEF CacheInv, HeardResolves
<1>5. tx'[k] = SentTo(f.spa)'
  <2> DEFINE g == [i \in DOMAIN deferred |-> Sending'[deferred[i]]]
             p == [oper |-> "reply", sha |-> OwnMac, spa |-> Own,
                   tha |-> f.sha, tpa |-> f.spa]
             r == IF f.oper = "request" /\ f.tpa = Own
                    THEN EtherOutputReply(f, f.bsize, p) ELSE <<>>
  <2>1. tx' = g \o r
    BY Zenon DEF ArpInput, HandleDeferred
  <2>2. r = <<>> \/ \E x : r = <<x>>
    <3> HIDE DEF p
    <3>1. \/ EtherSend(f.h_src, f.bsize, p) = <<>>
          \/ \E x : EtherSend(f.h_src, f.bsize, p) = <<x>>
      BY OneReply, Zenon
    <3>2. r = <<>> \/ r = EtherSend(f.h_src, f.bsize, p)
      BY Zenon DEF EtherOutputReply
    <3> QED
      BY <3>1, <3>2, Zenon
  <2>3. g = [i \in 1..Len(deferred) |-> g[i]]
    BY <1>1
  <2>4. g[k] = SentTo(f.spa)'
    BY <1>2 DEF Sending
  <2> HIDE DEF g, r
  <2>5. (g \o r)[k] = g[k]
    BY <1>1, <2>2, <2>3, ConcatPrefix
  <2> QED
    BY <2>1, <2>4, <2>5
<1>6. PICK i \in Entries(f.spa)' : tx'[k] =
         [h_dst |-> arp_cache'[i].haddr, bytes |-> 56,
          packet |-> [order |-> "net", src |-> Own, dst |-> f.spa]]
  <2> DEFINE i == CHOOSE i \in Entries(f.spa)' : TRUE
  <2>1. i \in Entries(f.spa)'
    BY <1>4 DEF Resolves
  <2> QED
    BY <1>4, <1>5, <2>1 DEF SentTo
<1>7. <<f.spa, arp_cache'[i].haddr>> \in claims'
  BY <1>2 DEF CacheInv, AnswersWereClaimed
<1> QED
  BY <1>6, <1>7

\* Packets that wait for a host leave when the host is heard by ARP.
THEOREM DeferredAreSent == Spec => AnswerSendsDeferred
<1> DEFINE Answered ==
       rx' \in ArpFrames /\ ~broken' =>
          \A i \in DOMAIN deferred : deferred[i] = rx'.spa =>
              /\ tx'[i].packet = [order |-> "net", src |-> Own, dst |-> rx'.spa]
              /\ <<rx'.spa, tx'[i].h_dst>> \in claims'
<1>1. CacheInv /\ CacheInv' /\ [Next]_vars => [Answered]_vars
  <2> SUFFICES ASSUME CacheInv, CacheInv', Next, rx' \in ArpFrames, ~broken' PROVE Answered
    BY Zenon
  <2>1. ArpInput(rx')
    <3>1. rx' # None /\ rx' \notin IpFrames
      BY FrameAssumption
    <3>2. PICK f \in ArpFrames \cup IpFrames : Receive(f)
      BY <3>1, FaultReceived, Zenon DEF Next, Runs, UdpSendNow, UdpSendDeferred, UdpSendNoBuffer,
            UdpSendRefused, Periodic
    <3>3. ArpInput(f) \/ (f \in IpFrames /\ rx' = f)
      BY <3>2, Zenon DEF Receive, IpInvalid, IpNotOwn, IpFragmented, IpNoProto, IcmpEcho, IcmpOther,
            TcpAnswered, TcpSilent, UdpTooSmall, UdpDelivered, UdpNoSocket, IpOverrun, IpInput
    <3>4. ArpInput(f) => rx' = f
      BY DEF ArpInput
    <3> QED
      BY <3>1, <3>3, <3>4
  <2> QED
    BY <2>1, ArpAnswer
<1> QED
  BY <1>1, CacheInvariant, PTL DEF Spec, AnswerSendsDeferred
-----------------------------------------------------------------------------
\* RepliesGoBack for one reply r to the frame f, and for all replies in t.
GoesBack(f, r) ==
    /\ r.h_dst = f.h_src /\ r.packet.order = "net"
    /\ r.packet.dst = f.packet.src /\ r.packet.src = f.packet.dst
    /\ Unreachable(r) \/ Returnable(r)

AllBack(f, t) == \A i \in DOMAIN t : GoesBack(f, t[i])

\* ip_reply_header() on a header in host order: the addresses change places, the
\* order is that of the network again, and the rest is left alone.
LEMMA HeaderTurned ==
    ASSUME NEW p, DOMAIN p = Fields, p.order = "host", NEW n
    PROVE  LET r == IpReplyHeader(p, n)
           IN  /\ r.order = "net" /\ r.src = p.dst /\ r.dst = p.src /\ r.len = n + p.hlen
               /\ r.hlen = p.hlen /\ r.at = p.at /\ r.what = p.what
               /\ r.frag = p.frag /\ r.ports = p.ports /\ r.summed = p.summed
BY DEF IpReplyHeader, Turned, Fields

\* ip_ntoh() on a packet as it came.
LEMMA HeaderRead ==
    ASSUME NEW f \in IpFrames
    PROVE  LET p == Turned(f.packet)
           IN  /\ DOMAIN p = Fields /\ p.order = "host"
               /\ p.src = f.packet.src /\ p.dst = f.packet.dst /\ p.hlen = f.packet.hlen
               /\ p.at = f.packet.at /\ p.frag = f.packet.frag /\ p.ports = "net"
<1>1. DOMAIN f.packet = Fields /\ f.packet.order = "net" /\ f.packet.ports = "net"
  BY FrameAssumption
<1> QED
  BY <1>1 DEF Turned, Fields

\* ether_output_reply() sends what it is given to the sender of the frame, or
\* nothing.
LEMMA OutputReply ==
    ASSUME NEW f, NEW n, NEW p, NEW i \in DOMAIN EtherOutputReply(f, n, p)
    PROVE  LET r == EtherOutputReply(f, n, p)[i]
           IN  r.h_dst = f.h_src /\ r.bytes = n /\ r.packet = p
<1> DEFINE x == [h_dst |-> f.h_src, bytes |-> n, packet |-> p]
           t == EtherOutputReply(f, n, p)
<1>1. x.h_dst = f.h_src /\ x.bytes = n /\ x.packet = p
  OBVIOUS
<1> HIDE DEF x
<1>2. t = <<>> \/ t = <<x>>
  BY Zenon DEF EtherOutputReply, EtherSend, x
<1>3. i \in DOMAIN t
  OBVIOUS
<1> HIDE DEF t
<1>4. t[i] = x
  BY <1>2, <1>3
<1> QED
  BY <1>1, <1>4 DEF t

\* What icmp_generate_dest_unreachable() writes is addressed to the sender.
LEMMA UnreachableBack ==
    ASSUME NEW f \in IpFrames, NEW p, DOMAIN p = Fields, p.order = "host",
           p.src = f.packet.src, p.dst = f.packet.dst, NEW code \in {"host", "proto", "port"}
    PROVE  AllBack(f, DestUnreachable(f, p, code))
<1> DEFINE size == ICMP_DESTUNREAC + Min({8, DataSize(f)})
           q == [p EXCEPT !.hlen = 20, !.proto = "icmp", !.what = code, !.summed = FALSE]
           reply == IpReplyHeader(q, size)
           t == EtherOutputReply(f, size + reply.len, reply)
<1>1. DestUnreachable(f, p, code) = t
  BY Zenon DEF DestUnreachable
<1>2. DOMAIN q = Fields /\ q.order = "host" /\ q.src = p.src /\ q.dst = p.dst /\ q.what = code
  BY DEF Fields
<1> HIDE DEF q, size
<1>3. reply.order = "net" /\ reply.src = p.dst /\ reply.dst = p.src /\ reply.what = code
  BY <1>2, HeaderTurned
<1> HIDE DEF reply
<1>4. ASSUME NEW i \in DOMAIN t PROVE GoesBack(f, t[i])
  <2>1. t[i].h_dst = f.h_src /\ t[i].packet = reply
    BY OutputReply
  <2> QED
    BY <1>3, <2>1 DEF GoesBack, Unreachable
<1> QED
  BY <1>1, <1>4 DEF AllBack

\* What icmp_input() and tcp_input() leave in the buffer of a whole packet is a
\* packet that can be returned, whatever options came with it.
LEMMA AnswerBack ==
    ASSUME NEW f \in IpFrames, Valid(f), ~f.packet.frag, NEW what, NEW n
    PROVE  AllBack(f, IpReply(f, Answer(f, what), n))
<1> DEFINE p == Turned(f.packet)
           q == Answer(f, what)
           reply == IpReplyHeader(q, n)
           t == EtherOutputReply(f, reply.len, reply)
<1>1. IpReply(f, q, n) = t
  BY Zenon DEF IpReply
<1>2. /\ DOMAIN p = Fields /\ p.order = "host"
      /\ p.src = f.packet.src /\ p.dst = f.packet.dst /\ p.hlen = f.packet.hlen
      /\ p.at = f.packet.at /\ p.frag = f.packet.frag /\ p.ports = "net"
  BY HeaderRead
<1>3. q = [p EXCEPT !.what = what, !.summed = TRUE]
  BY Zenon DEF Answer
<1> HIDE DEF p, q
<1>4. /\ DOMAIN q = Fields /\ q.order = "host" /\ q.src = p.src /\ q.dst = p.dst
      /\ q.hlen = p.hlen /\ q.at = p.at /\ q.frag = p.frag /\ q.ports = p.ports
      /\ q.summed = TRUE
  BY <1>2, <1>3 DEF Fields
<1>5. p.at = p.hlen
  BY <1>2, FrameAssumption DEF Valid
<1>6. /\ reply.order = "net" /\ reply.src = q.dst /\ reply.dst = q.src
      /\ reply.hlen = q.hlen /\ reply.at = q.at /\ reply.frag = q.frag
      /\ reply.ports = q.ports /\ reply.summed = q.summed
  BY <1>4, HeaderTurned
<1> HIDE DEF reply
<1>7. ASSUME NEW i \in DOMAIN t PROVE GoesBack(f, t[i])
  <2>1. t[i].h_dst = f.h_src /\ t[i].bytes = reply.len /\ t[i].packet = reply
    BY OutputReply
  <2>2. Returnable(t[i])
    BY <1>2, <1>4, <1>5, <1>6, <2>1, Zenon DEF Returnable
  <2> QED
    BY <1>2, <1>4, <1>6, <2>1, <2>2, Zenon DEF GoesBack
<1> QED
  BY <1>1, <1>7 DEF AllBack, q

\* What ip_input() may do with a packet.
IpStep(f) ==
    \/ IpInvalid(f) \/ IpNotOwn(f) \/ IpFragmented(f) \/ IpNoProto(f)
    \/ IcmpEcho(f) \/ IcmpOther(f) \/ TcpAnswered(f) \/ TcpSilent(f)
    \/ UdpTooSmall(f) \/ UdpDelivered(f) \/ UdpNoSocket(f) \/ IpOverrun(f)

\* A step that leaves an IP packet in the receive buffer is ip_input() of it.
LEMMA IpReceived ==
    ASSUME Next, rx' \in IpFrames
    PROVE  IpStep(rx')
<1>1. rx' # None /\ rx' \notin ArpFrames
  BY FrameAssumption
<1>2. CASE Faults
  BY <1>2, FaultReceived DEF IpStep
<1>3. CASE Runs
  <2>1. PICK f \in ArpFrames \cup IpFrames : Receive(f)
    BY <1>1, <1>3, Zenon DEF Runs, UdpSendNow, UdpSendDeferred, UdpSendNoBuffer, UdpSendRefused, Periodic
  <2>2. ~ArpInput(f)
    BY <1>1 DEF ArpInput
  <2>3. IpStep(f)
    BY <2>1, <2>2, Zenon DEF Receive, IpStep
  <2>4. rx' = f
    BY <2>3, Zenon DEF IpStep, IpInvalid, IpNotOwn, IpFragmented, IpNoProto, IcmpEcho, IcmpOther,
          TcpAnswered, TcpSilent, UdpTooSmall, UdpDelivered, UdpNoSocket, IpOverrun, IpInput
  <2> QED
    BY <2>3, <2>4
<1> QED
  BY <1>2, <1>3 DEF Next

\* Every handler leaves replies that go back.
LEMMA StepBack ==
    ASSUME NEW f \in IpFrames, IpStep(f)
    PROVE  AllBack(f, tx')
<1> DEFINE p == Turned(f.packet)
<1>1. DOMAIN p = Fields /\ p.order = "host" /\ p.src = f.packet.src /\ p.dst = f.packet.dst
  BY HeaderRead
<1>2. CASE tx' = <<>>
  BY <1>2 DEF AllBack
<1>3. CASE IpNotOwn(f)
  <2>1. tx' = DestUnreachable(f, p, "host")
    BY <1>3, Zenon DEF IpNotOwn, IpInput
  <2> HIDE DEF p
  <2> QED
    BY <1>1, <2>1, UnreachableBack
<1>4. CASE IpNoProto(f)
  <2>1. tx' = DestUnreachable(f, p, "proto")
    BY <1>4, Zenon DEF IpNoProto, IpInput
  <2> HIDE DEF p
  <2> QED
    BY <1>1, <2>1, UnreachableBack
<1>5. CASE UdpNoSocket(f)
  <2> DEFINE q == [p EXCEPT !.ports = "host"]
  <2>1. tx' = DestUnreachable(f, q, "port")
    BY <1>5, Zenon DEF UdpNoSocket, IpInput
  <2> HIDE DEF p
  <2>2. DOMAIN q = Fields /\ q.order = "host" /\ q.src = f.packet.src /\ q.dst = f.packet.dst
    BY <1>1 DEF Fields
  <2> HIDE DEF q
  <2> QED
    BY <2>1, <2>2, UnreachableBack
<1>6. CASE IcmpEcho(f)
  <2>1. tx' = IpReply(f, Answer(f, "echo reply"), DataSize(f)) /\ Valid(f) /\ ~f.packet.frag
    BY <1>6, Zenon DEF IcmpEcho, IpInput, For
  <2> QED
    BY <2>1, AnswerBack
<1>7. CASE TcpAnswered(f)
  <2>1. tx' = IpReply(f, Answer(f, "segment"), TCP_HDR) /\ Valid(f) /\ ~f.packet.frag
    BY <1>7, Zenon DEF TcpAnswered, IpInput, For
  <2> QED
    BY <2>1, AnswerBack
<1> QED
  BY <1>2, <1>3, <1>4, <1>5, <1>6, <1>7, Zenon DEF IpStep, IpInvalid, IpFragmented, IcmpOther,
        TcpSilent, UdpTooSmall, UdpDelivered, IpOverrun, IpInput

\* A reply that ip_input() leaves in the receive buffer goes to the host that
\* sent the packet, and what ICMP and TCP answer can be returned: for every set
\* of packets, of any size, with any options and checksums.
THEOREM RepliesReturn == Spec => []RepliesGoBack
<1>1. Init => RepliesGoBack
  BY FrameAssumption DEF Init, RepliesGoBack, IpReplies
<1>2. RepliesGoBack /\ [Next]_vars => RepliesGoBack'
  <2>1. ASSUME RepliesGoBack, UNCHANGED vars PROVE RepliesGoBack'
    BY <2>1 DEF vars, RepliesGoBack, IpReplies, Unreachable, Returnable
  <2>2. ASSUME Next PROVE RepliesGoBack'
    <3>1. CASE rx' \notin IpFrames
      BY <3>1 DEF RepliesGoBack, IpReplies
    <3>2. CASE rx' \in IpFrames
      <4>1. AllBack(rx', tx')
        BY <2>2, <3>2, IpReceived, StepBack
      <4>2. IpReplies' = {tx'[i] : i \in DOMAIN tx'}
        BY <3>2 DEF IpReplies
      <4>3. \A r \in IpReplies' : GoesBack(rx', r)
        BY <4>1, <4>2 DEF AllBack
      <4> QED
        BY <4>3, Zenon DEF RepliesGoBack, GoesBack, Unreachable, Returnable
    <3> QED
      BY <3>1, <3>2
  <2> QED
    BY <2>1, <2>2
<1> QED
  BY <1>1, <1>2, PTL DEF Spec
-----------------------------------------------------------------------------
\* The size of the data is their number, except that it has wrapped around when
\* the header is longer than the packet; then it exceeds the packet.
LEMMA SizeOfData ==
    ASSUME NEW f \in IpFrames
    PROVE  /\ f.bsize \in Nat /\ f.packet.hlen \in Nat /\ DataSize(f) \in Nat
           /\ f.packet.hlen <= f.bsize => DataSize(f) = f.bsize - f.packet.hlen
           /\ InPacket(f) <=> f.packet.hlen <= f.bsize
<1> DEFINE d == f.bsize - f.packet.hlen
<1>1. SizeMod \in Nat \ {0} /\ f.bsize \in 0..(SizeMod - 1) /\ f.packet.hlen \in 0..(SizeMod - 1)
  BY FrameAssumption
<1>2. CASE f.packet.hlen <= f.bsize
  <2>1. d \in 0..(SizeMod - 1)
    BY <1>1, <1>2
  <2>2. d % SizeMod = d
    BY <1>1, <2>1
  <2> QED
    BY <1>1, <1>2, <2>1, <2>2 DEF DataSize, InPacket
<1>3. CASE f.packet.hlen > f.bsize
  <2>1. d + SizeMod \in 0..(SizeMod - 1) /\ d + SizeMod > f.bsize
    BY <1>1, <1>3
  <2>2. d % SizeMod = d + SizeMod
    BY <1>1, <2>1
  <2> QED
    BY <1>1, <1>3, <2>1, <2>2 DEF DataSize, InPacket
<1> QED
  BY <1>1, <1>2, <1>3

\* An unreachable message fits a frame: ether_send() does send it, although its
\* size is counted twice.
LEMMA UnreachableFits ==
    ASSUME NEW f, DataSize(f) \in Nat, NEW p, DOMAIN p = Fields, p.order = "host", NEW code
    PROVE  \E r : DestUnreachable(f, p, code) = <<r>> /\ r.packet.what = code
<1> DEFINE k == Min({8, DataSize(f)})
           size == ICMP_DESTUNREAC + k
           q == [p EXCEPT !.hlen = 20, !.proto = "icmp", !.what = code, !.summed = FALSE]
           reply == IpReplyHeader(q, size)
           n == size + reply.len
           x == [h_dst |-> f.h_src, bytes |-> n, packet |-> reply]
<1>1. k \in 0..8
  <2>1. \E y \in {8, DataSize(f)} : \A z \in {8, DataSize(f)} : y =< z
    OBVIOUS
  <2>2. k \in {8, DataSize(f)} /\ \A z \in {8, DataSize(f)} : k =< z
    BY <2>1 DEF Min
  <2> QED
    BY <2>2
<1> HIDE DEF k
<1>2. DOMAIN q = Fields /\ q.order = "host" /\ q.hlen = 20 /\ q.what = code
  BY DEF Fields
<1> HIDE DEF q
<1>3. reply.len = size + 20 /\ reply.what = code
  BY <1>2, HeaderTurned
<1> HIDE DEF reply
<1>4. n \in 0..108
  BY <1>1, <1>3 DEF ICMP_DESTUNREAC
<1>5. DestUnreachable(f, p, code) = EtherSend(f.h_src, n, reply)
  BY Zenon DEF DestUnreachable, EtherOutputReply, k, q, reply
<1>6. x.packet = reply
  OBVIOUS
<1> HIDE DEF n, x
<1> DEFINE m == Max({n, ETHER_MINLEN - ETHER_FCS_LEN})
<1>7. m \in 0..108
  <2>1. \E y \in {n, 56} : \A z \in {n, 56} : y >= z
    BY <1>4
  <2>2. m \in {n, 56}
    BY <2>1 DEF Max, ETHER_MINLEN, ETHER_FCS_LEN
  <2> QED
    BY <1>4, <2>2
<1>8. ~(ETHER_HEADER_LEN + m + ETHER_FCS_LEN > ETHER_MAXLEN + ETHER_FCS_LEN)
  <2> HIDE DEF m
  <2> QED
    BY <1>7 DEF ETHER_HEADER_LEN, ETHER_FCS_LEN, ETHER_MAXLEN
<1>9. EtherSend(f.h_src, n, reply) = <<x>>
  BY <1>8, Zenon DEF EtherSend, x
<1> QED
  BY <1>3, <1>5, <1>6, <1>9

\* The datagram in the receive buffer is a whole one for this host.
WholeDatagram(f) ==
    /\ Valid(f) /\ f.packet.proto = "udp" /\ f.packet.dst = Own /\ ~f.packet.frag
    /\ f.bsize >= f.packet.hlen + UDP_HDR

\* udp_input() is the only handler that takes a whole datagram, and it hands on
\* nothing else.
LEMMA StepDatagram ==
    ASSUME NEW f \in IpFrames, IpStep(f)
    PROVE  /\ WholeDatagram(f) /\ f.packet.what \in Ports =>
                dgram' = [port |-> f.packet.what, src |-> f.packet.src,
                          size |-> f.bsize - f.packet.hlen - UDP_HDR]
           /\ WholeDatagram(f) /\ f.packet.what \notin Ports =>
                \E r : tx' = <<r>> /\ r.packet.what = "port"
           /\ dgram' # None => WholeDatagram(f)
<1>1. /\ f.bsize \in Nat /\ f.packet.hlen \in Nat /\ DataSize(f) \in Nat
      /\ f.packet.hlen <= f.bsize => DataSize(f) = f.bsize - f.packet.hlen
      /\ InPacket(f) <=> f.packet.hlen <= f.bsize
  BY SizeOfData
<1>2. (DataSize(f) >= UDP_HDR /\ InPacket(f)) <=> (f.bsize >= f.packet.hlen + UDP_HDR)
  BY <1>1 DEF UDP_HDR
<1>3. ~(DataSize(f) >= UDP_HDR) <=> DataSize(f) < UDP_HDR
  BY <1>1 DEF UDP_HDR
<1>4. WholeDatagram(f) => UdpDelivered(f) \/ UdpNoSocket(f)
  <2> SUFFICES ASSUME WholeDatagram(f) PROVE UdpDelivered(f) \/ UdpNoSocket(f)
    OBVIOUS
  <2>1. For(f, "udp") /\ ~For(f, "icmp") /\ ~For(f, "tcp") /\ Valid(f)
    BY DEF WholeDatagram, For
  <2>2. ~UdpTooSmall(f)
    BY <1>2, <1>3 DEF WholeDatagram, UdpTooSmall
  <2>3. ~IpNoProto(f)
    BY <2>1, Zenon DEF IpNoProto
  <2>4. ~IpInvalid(f) /\ ~IpNotOwn(f) /\ ~IpFragmented(f)
    BY <2>1, Zenon DEF IpInvalid, IpNotOwn, IpFragmented, WholeDatagram
  <2>5. ~IcmpEcho(f) /\ ~IcmpOther(f) /\ ~TcpAnswered(f) /\ ~TcpSilent(f)
    BY <2>1, Zenon DEF IcmpEcho, IcmpOther, TcpAnswered, TcpSilent
  <2>6. ~IpOverrun(f)
    BY <1>2 DEF WholeDatagram, IpOverrun
  <2> QED
    BY <2>2, <2>3, <2>4, <2>5, <2>6, Zenon DEF IpStep
<1>5. dgram' # None => UdpDelivered(f)
  BY Zenon DEF IpStep, IpInvalid, IpNotOwn, IpFragmented, IpNoProto, IcmpEcho, IcmpOther,
        TcpAnswered, TcpSilent, UdpTooSmall, UdpNoSocket, IpOverrun, IpInput
<1>6. UdpDelivered(f) => WholeDatagram(f)
  BY <1>2, Zenon DEF UdpDelivered, WholeDatagram, For, IpInput
<1>7. UdpDelivered(f) => dgram' = [port |-> f.packet.what, src |-> f.packet.src,
                                   size |-> DataSize(f) - UDP_HDR]
  BY Zenon DEF UdpDelivered, IpInput
<1>8. UdpDelivered(f) => DataSize(f) - UDP_HDR = f.bsize - f.packet.hlen - UDP_HDR
  BY <1>1, Zenon DEF UdpDelivered
<1>9. UdpNoSocket(f) => \E r : tx' = <<r>> /\ r.packet.what = "port"
  <2> SUFFICES ASSUME UdpNoSocket(f) PROVE \E r : tx' = <<r>> /\ r.packet.what = "port"
    OBVIOUS
  <2> DEFINE p == Turned(f.packet)
             q == [p EXCEPT !.ports = "host"]
  <2>1. tx' = DestUnreachable(f, q, "port")
    BY Zenon DEF UdpNoSocket, IpInput
  <2>2. DOMAIN p = Fields /\ p.order = "host" /\ p.hlen = f.packet.hlen
    BY HeaderRead
  <2> HIDE DEF p
  <2>3. DOMAIN q = Fields /\ q.order = "host" /\ q.hlen = f.packet.hlen
    BY <2>2 DEF Fields
  <2> HIDE DEF q
  <2> QED
    BY <1>1, <2>1, <2>3, UnreachableFits
<1>10. UdpDelivered(f) => f.packet.what \in Ports
  BY Zenon DEF UdpDelivered, FindUdpSocket
<1>11. UdpNoSocket(f) => f.packet.what \notin Ports
  BY Zenon DEF UdpNoSocket, FindUdpSocket
<1> QED
  BY <1>4, <1>5, <1>6, <1>7, <1>8, <1>9, <1>10, <1>11, Zenon

\* udp_input() puts a datagram on the queue of a socket exactly when a whole one
\* came for its port, with the sender and the size it came with, and answers one
\* for a port without a socket: for every set of packets and of ports.
THEOREM DatagramsDelivered == Spec => []DatagramsReachTheirSocket
<1>1. Init => DatagramsReachTheirSocket
  BY FrameAssumption DEF Init, DatagramsReachTheirSocket
<1>2. DatagramsReachTheirSocket /\ [Next]_vars => DatagramsReachTheirSocket'
  <2>1. ASSUME DatagramsReachTheirSocket, UNCHANGED vars PROVE DatagramsReachTheirSocket'
    BY <2>1, Zenon DEF vars, DatagramsReachTheirSocket, IpReplies, Valid
  <2>2. ASSUME Next PROVE DatagramsReachTheirSocket'
    <3>1. CASE rx' \notin IpFrames
      <4>1. dgram' = None
        <5>1. ASSUME NEW f \in ArpFrames \cup IpFrames, Receive(f) PROVE dgram' = None
          <6>1. IpStep(f) => rx' = f
            BY Zenon DEF IpStep, IpInvalid, IpNotOwn, IpFragmented, IpNoProto, IcmpEcho, IcmpOther,
                  TcpAnswered, TcpSilent, UdpTooSmall, UdpDelivered, UdpNoSocket, IpOverrun, IpInput
          <6>2. ArpInput(f) \/ (f \in IpFrames /\ IpStep(f))
            BY <5>1, Zenon DEF Receive, IpStep
          <6>3. ArpInput(f)
            BY <3>1, <6>1, <6>2
          <6> QED
            BY <6>3 DEF ArpInput
        <5> QED
          BY <2>2, <3>1, <5>1, FaultReceived, Zenon DEF Next, Runs, UdpSendNow, UdpSendDeferred, UdpSendNoBuffer,
                UdpSendRefused, Periodic
      <4> QED
        BY <3>1, <4>1, Zenon DEF DatagramsReachTheirSocket
    <3>2. CASE rx' \in IpFrames
      <4>1. IpStep(rx')
        BY <2>2, <3>2, IpReceived
      <4>2. /\ WholeDatagram(rx') /\ rx'.packet.what \in Ports =>
                 dgram' = [port |-> rx'.packet.what, src |-> rx'.packet.src,
                           size |-> rx'.bsize - rx'.packet.hlen - UDP_HDR]
            /\ WholeDatagram(rx') /\ rx'.packet.what \notin Ports =>
                 \E r : tx' = <<r>> /\ r.packet.what = "port"
            /\ dgram' # None => WholeDatagram(rx')
        BY <3>2, <4>1, StepDatagram
      <4>3. ASSUME NEW r, tx' = <<r>> PROVE r \in IpReplies'
        <5>1. 1 \in DOMAIN tx' /\ tx'[1] = r
          BY <4>3
        <5> QED
          BY <3>2, <5>1 DEF IpReplies
      <4> QED
        BY <3>2, <4>2, <4>3, Zenon DEF DatagramsReachTheirSocket, WholeDatagram, Valid
    <3> QED
      BY <3>1, <3>2
  <2> QED
    BY <2>1, <2>2
<1> QED
  BY <1>1, <1>2, PTL DEF Spec
=============================================================================
