------------------------------ MODULE ArpCache -------------------------------
(***************************************************************************)
(* The ARP cache of src/arp.c: an array of slots and a red-black tree over *)
(* the slots in use, keyed by IP address.  Only the ingress thread changes *)
(* it: arp_input() and ip_input() insert the sender of what they receive,  *)
(* and the periodic task arp_cache_update() ages the slots.                *)
(*                                                                         *)
(* The tree is the set of slots that RB_FIND can reach.  RB_INSERT and     *)
(* RB_REMOVE do not look whether the slot they are given is in the tree,   *)
(* and the code does not either.  What follows from src/tree.h:            *)
(*   - removing a slot whose links are NULL makes the root NULL, so every  *)
(*     slot leaves the tree at once;                                       *)
(*     a slot that was alone in the tree has such links, too;              *)
(*   - removing a slot with links into an abandoned tree, or inserting one *)
(*     that is in the tree already, relinks slots of two trees or twice in *)
(*     one: broken is set and the model does not follow the links further. *)
(***************************************************************************)
EXTENDS Integers, FiniteSets, Sequences, SequencesExt

CONSTANTS Size,      \* NSTACK_ARP_CACHE_SIZE
          AgeMax,    \* ARP_CACHE_AGE_MAX
          Deltas,    \* seconds between two periodic events; the first is the
                     \* time since boot, for eval_timer() starts from 0
          Hosts,     \* addresses of other hosts
          Macs,      \* hardware addresses they may have
          Own,       \* the stack's own address
          None       \* address 0, no hardware address, no slot

ASSUME CacheAssumption ==
    /\ Size \in Nat \ {0, 1} /\ AgeMax \in Nat /\ Deltas \subseteq Nat \ {0}
    /\ Own \notin Hosts /\ None \notin Hosts \cup Macs \cup {Own}

ARP_CACHE_FREE   == -2
ARP_CACHE_STATIC == -1
ARP_CACHE_DYN    == 0

VARIABLES
    arp_cache,   \* the slots
    tree,        \* slots reachable from arp_cache_head
    stale,       \* slots with links into a tree that was abandoned
    broken,      \* the links may not form a search tree any more
    heard,       \* the host last heard of, since the last periodic event
    claims       \* pairs of addresses that hosts have claimed

cacheVars == <<arp_cache, tree, stale, broken, heard, claims>>

Slots == 1..Size

\* Zeroed memory, which is an entry of age 0 for address 0, and not a free one;
\* then ip_config() has inserted the own address.
CacheInit ==
    /\ arp_cache = [i \in Slots |->
          IF i = 1 THEN [ip |-> Own, haddr |-> Own, age |-> ARP_CACHE_STATIC]
                   ELSE [ip |-> None, haddr |-> None, age |-> ARP_CACHE_DYN]]
    /\ tree = {1} /\ stale = {} /\ broken = FALSE
    /\ heard = None /\ claims = {}

\* arp_cache_get_entry()
Entries(ip) == {i \in tree : arp_cache[i].ip = ip}

\* arp_cache_get_haddr() has an answer for ip.
Resolves(ip) == \E i \in Entries(ip) : arp_cache[i].age >= 0
-----------------------------------------------------------------------------
\* The slot the loop of arp_cache_insert() ends up with: the last free one, or
\* else the first of those with the smallest age that come after one in use.
Pick ==
    LET Better(e, i) ==
            \/ arp_cache[i].age = ARP_CACHE_FREE
            \/ e # None /\ arp_cache[e].age > arp_cache[i].age
            \/ e = None /\ arp_cache[i].age >= 0
        Step(e, i) == IF Better(e, i) THEN i ELSE e
    IN  FoldLeft(Step, None, [i \in Slots |-> i])

\* The slots left in the tree when RB_REMOVE is called for i.
Remaining(i) == IF i \in tree THEN tree \ {i} ELSE {}

\* An address that is known only gets a new age, not its hardware address.
Refresh(ip) ==
    /\ \E i \in Entries(ip) :
          arp_cache' = [arp_cache EXCEPT ![i].age = ARP_CACHE_DYN]
    /\ UNCHANGED <<tree, stale, broken>>

\* Mutants: the hardware address is not copied; the slot is left out of the tree.
ReplaceKeepsHaddr(ip, mac) ==
    /\ Entries(ip) = {} /\ Pick # None
    /\ LET i == Pick
       IN  /\ arp_cache' = [arp_cache EXCEPT ![i].ip = ip, ![i].age = ARP_CACHE_DYN]
           /\ tree' = (IF arp_cache[i].age >= 0 THEN Remaining(i) ELSE tree) \cup {i}
    /\ UNCHANGED <<stale, broken>>

ReplaceNotInserted(ip, mac) ==
    /\ Entries(ip) = {} /\ Pick # None
    /\ LET i == Pick
       IN  /\ arp_cache' = [arp_cache EXCEPT ![i] =
                               [ip |-> ip, haddr |-> mac, age |-> ARP_CACHE_DYN]]
           /\ tree' = Remaining(i)
    /\ UNCHANGED <<stale, broken>>

\* Mutant: the address is not looked up in the cache first.
ReplaceAny(ip, mac) ==
    /\ Pick # None
    /\ LET i == Pick
       IN  /\ arp_cache' = [arp_cache EXCEPT ![i] =
                               [ip |-> ip, haddr |-> mac, age |-> ARP_CACHE_DYN]]
           /\ tree' = tree \cup {i}
    /\ UNCHANGED <<stale, broken>>

\* A slot is overwritten and inserted under its new address.  RB_REMOVE comes
\* before, but only for a slot with an age, whether it is in the tree or not.
\* There always is a slot (SlotFound), so that ENOMEM is not returned.
Replace(ip, mac) ==
    /\ Entries(ip) = {}
    /\ \E i \in Slots :
       LET removed == arp_cache[i].age >= 0
           left == IF removed THEN Remaining(i) ELSE tree
       IN  /\ i = Pick
           /\ arp_cache' = [arp_cache EXCEPT ![i] =
                               [ip |-> ip, haddr |-> mac, age |-> ARP_CACHE_DYN]]
           /\ tree' = left \cup {i}
           /\ stale' = (stale \ {i}) \cup
                       (IF removed /\ i \notin tree /\ Cardinality(tree) > 1
                          THEN tree ELSE {})
           /\ broken' = ((removed /\ i \in stale) \/ (~removed /\ i \in tree))

\* arp_input() and ip_input(): the sender of a frame is inserted.
Insert(ip, mac) ==
    /\ ~broken
    /\ Refresh(ip) \/ Replace(ip, mac)
    /\ heard' = ip
    /\ claims' = claims \cup {<<ip, mac>>}

\* arp_cache_update(): a slot that expires stays in the tree.
Aged(age, delta) ==
    IF age > AgeMax THEN ARP_CACHE_FREE ELSE IF age >= 0 THEN age + delta ELSE age

Update(delta) ==
    /\ ~broken
    /\ arp_cache' = [i \in Slots |-> [arp_cache[i] EXCEPT !.age = Aged(@, delta)]]
    /\ heard' = None
    /\ UNCHANGED <<tree, stale, broken, claims>>

CacheNext ==
    \/ \E ip \in Hosts, mac \in Macs : Insert(ip, mac)
    \/ \E delta \in Deltas : Update(delta)

CacheSpec == CacheInit /\ [][CacheNext]_cacheVars
-----------------------------------------------------------------------------
\* Types: slots with an address and an age, some of them in the tree.
TypeOK ==
    /\ \A i \in Slots :
          /\ arp_cache[i].ip \in Hosts \cup {Own, None}
          /\ arp_cache[i].haddr \in Macs \cup {Own, None}
          /\ arp_cache[i].age \in {ARP_CACHE_FREE, ARP_CACHE_STATIC} \cup Nat
    /\ tree \subseteq Slots /\ stale \subseteq Slots
    /\ heard \in Hosts \cup {None} /\ claims \subseteq Hosts \X Macs

\* arp_cache_insert() finds a slot for every host, since only the own address is
\* static: its return with ENOMEM is not reached.
SlotFound == Pick # None

\* "Insert to ARP table so it's possible/faster to send a reply" (ip_input()):
\* until the next periodic event a reply to the host heard last needs no ARP
\* request, whatever state expiry and eviction have left the cache in.
HeardResolves == ~broken /\ heard # None => Resolves(heard)

\* An address is found in one slot only: expired slots that stay in the tree
\* and slots overwritten while they are in it do not make two of one address.
OneEntryPerAddress ==
    ~broken => \A i, j \in tree : arp_cache[i].ip = arp_cache[j].ip => i = j

\* What the cache answers for a host is an address this host has claimed: no
\* slot keeps the hardware address of the host it belonged to before.
AnswersWereClaimed ==
    ~broken => \A ip \in Hosts : \A i \in Entries(ip) : <<ip, arp_cache[i].haddr>> \in claims

Overwritten(i) ==
    i \in tree /\ arp_cache[i].age >= 0 /\ arp_cache'[i].ip # arp_cache[i].ip

\* config.h: out of slots, the cache frees "the oldest" dynamic entry.
EvictsOldest ==
    [][\A i \in Slots : Overwritten(i) =>
          \A j \in tree : arp_cache[j].age <= arp_cache[i].age]_cacheVars

\* config.h: it frees an entry "if ARP runs out of slots", so not while there
\* is a slot that was never used.
EvictsOnlyWhenFull ==
    [][\A i \in Slots : Overwritten(i) => \A j \in Slots : arp_cache[j].ip # None]_cacheVars
=============================================================================
