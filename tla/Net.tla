--------------------------------- MODULE Net --------------------------------
(***************************************************************************)
(* ARP and ICMP of kernel/net.c: a task in net_ping, and the receive path, *)
(* which the task enters through nic_poll and which may interrupt it       *)
(* anywhere else through nic_handle_irq.  Either way it runs with          *)
(* interrupts off.  To answer an echo request it may have to resolve an    *)
(* address itself, and polls the controller again inside net_arp_resolve.  *)
(*                                                                         *)
(* An address stands for its owner; hosts tell the truth about themselves. *)
(* Frames from other networks carry the address of the gateway's card.     *)
(***************************************************************************)
EXTENDS Integers, Sequences

CONSTANTS
  Locals,              \* hosts of the local network, the gateway one of them
  gateway,
  Fars,                \* hosts behind the gateway
  Silent,              \* local hosts that are switched off
  NET_ARP_CACHE_SIZE,
  Count,               \* echo requests of one ping command, numbered from 1
  per_try,             \* ticks of an attempt to resolve an address
  max_ticks,           \* ticks net_ping waits for the reply
  Budget,              \* frames one poll takes at most
  MaxRing,             \* bound: frames in the receive ring
  MaxDepth,            \* bound: receive handlers inside each other
  MaxPings,            \* bound: calls of net_ping
  Pinged,              \* hosts that are pinged
  Callers,             \* hosts that ping us or ask for our address
  Lost                 \* types of frames that may get lost

ASSUME NetAssumption ==
  /\ gateway \in Locals /\ Locals \cap Fars = {}
  /\ NET_ARP_CACHE_SIZE \in Nat \ {0}
  /\ per_try \in Nat \ {0} /\ max_ticks \in Nat

VARIABLES
  cache,     \* arp_cache: slots with the address and the card it is said to have
  flight,    \* frames on the wire to us
  ring,      \* frames the controller has received
  pc, dst, seq, hop, slot, mac, attempt, \* net_ping and net_arp_resolve of the task
  elapsed,   \* timer_get_ticks() - start, of the loop the task is in
  expected_seq, reply_received,
  budget,    \* what each active poll of the controller may still take, innermost last
  resolving, \* the addresses that the handlers which called the inner polls wait for
  ping,      \* number of the current ping
  answered,  \* the ping whose echo the accepted reply is
  result     \* of the last ping

task == <<pc, dst, seq, hop, slot, mac, attempt, ping, result>>
icmp == <<expected_seq, reply_received, answered>>
vars == <<elapsed, cache, flight, ring, task, icmp, budget, resolving>>

Hosts == Locals \cup Fars
Slots == 1..NET_ARP_CACHE_SIZE
Empty == [ip |-> "none", mac |-> "none"]
rx == budget # <<>>      \* the receive path runs, with interrupts off
Forever == 1 + IF per_try > max_ticks THEN per_try ELSE max_ticks   \* beyond every timeout
route_next_hop(ip) == IF ip \in Locals THEN ip ELSE gateway
Cached(ip) == \E i \in Slots : cache[i].ip = ip

Init ==
  /\ elapsed = 0 /\ cache = [i \in Slots |-> Empty] /\ flight = {} /\ ring = <<>>
  /\ pc = "idle" /\ dst = "none" /\ seq = 0 /\ hop = "none" /\ slot = 0 /\ mac = "none"
  /\ attempt = 0
  /\ expected_seq = 0 /\ reply_received = FALSE /\ answered = 0
  /\ budget = <<>> /\ resolving = <<>> /\ ping = 0 /\ result = "none"

-----------------------------------------------------------------------------
(***************************************************************************)
(* The network and the controller.                                         *)
(***************************************************************************)
ArpReply(h) == [type |-> "arp", from |-> h, seq |-> 0, ping |-> 0]
EchoRequest(h) == [type |-> "echo", from |-> h, seq |-> 0, ping |-> 0]
EchoReply(h, s, p) == [type |-> "reply", from |-> h, seq |-> s, ping |-> p]

\* A frame of ours goes out; a host that gets it answers.
Answer(h, m) ==
  \/ h \notin Silent /\ flight' = flight \cup {m}
  \/ (h \in Silent \/ m.type \in Lost) /\ flight' = flight

\* Another host asks for our address, or pings us.
call ==
  /\ flight = {} /\ Len(resolving) < MaxDepth
  /\ \E h \in Callers :
       \/ h \in Locals /\ flight' = {ArpReply(h)}
       \/ flight' = {EchoRequest(h)}
  /\ UNCHANGED <<elapsed, cache, ring, task, icmp, budget, resolving>>

\* A frame arrives; order is not kept.
deliver ==
  /\ Len(ring) < MaxRing
  /\ \E m \in flight : ring' = Append(ring, m) /\ flight' = flight \ {m}
  /\ UNCHANGED <<elapsed, cache, task, icmp, budget, resolving>>

lose ==
  /\ \E m \in flight : m.type \in Lost /\ flight' = flight \ {m}
  /\ UNCHANGED <<elapsed, cache, ring, task, icmp, budget, resolving>>

-----------------------------------------------------------------------------
(***************************************************************************)
(* Interrupts.  A halted task goes on when one has been handled.           *)
(***************************************************************************)
Woken == CASE pc = "arp_hlt" -> "arp_loop" [] pc = "reply_hlt" -> "reply_loop" [] OTHER -> pc

Timing == attempt > 0 \/ pc \in {"send", "reply_loop", "check", "reply_hlt"}

\* The difference of two readings of the counter is right also when it wraps.
timer_irq ==
  /\ ~rx /\ Timing
  /\ elapsed' = IF elapsed < Forever THEN elapsed + 1 ELSE elapsed
  /\ pc' = Woken
  /\ UNCHANGED <<cache, flight, ring, dst, seq, hop, slot, mac, attempt, ping, result, icmp, budget, resolving>>

nic_handle_irq ==
  /\ ~rx /\ ring # <<>>
  /\ budget' = <<Budget>> /\ pc' = Woken
  /\ UNCHANGED <<elapsed, cache, flight, ring, dst, seq, hop, slot, mac, attempt, ping, result, icmp, resolving>>

-----------------------------------------------------------------------------
arp_cache_update(ip, card) ==
  LET free == {i \in Slots : cache[i] = Empty}
  IN \E i \in Slots :
       /\ IF Cached(ip) THEN cache[i].ip = ip
          ELSE IF free # {} THEN i \in free /\ \A j \in free : i <= j ELSE TRUE
       /\ cache' = [cache EXCEPT ![i] = [ip |-> ip, mac |-> card]]

\* handle_ipv4 keeps the sender's card if the sender is local.
Card(h) == IF h \in Locals THEN h ELSE gateway
Opportunistic(h) == IF h \in Locals THEN arp_cache_update(h, Card(h)) ELSE cache' = cache

Top(q) == q[Len(q)]
MutNoBudget == budget
Poll == [budget EXCEPT ![Len(budget)] = @ - 1]

handle_arp(m) ==
  /\ m.type = "arp"
  /\ arp_cache_update(m.from, Card(m.from))
  /\ budget' = Poll
  /\ UNCHANGED <<flight, resolving, icmp>>

\* Without the address of the next hop the handler resolves it, here and now.
handle_echo_request(m) ==
  /\ m.type = "echo"
  /\ Opportunistic(m.from)
  /\ LET h == route_next_hop(m.from)
     IN IF \E i \in Slots : cache'[i].ip = h THEN budget' = Poll /\ UNCHANGED <<flight, resolving>>
        ELSE budget' = Append(Poll, Budget) /\ resolving' = Append(resolving, h) /\ Answer(h, ArpReply(h))
  /\ UNCHANGED icmp

handle_echo_reply(m) ==
  /\ m.type = "reply"
  /\ Opportunistic(m.from)
  /\ budget' = Poll
  /\ IF m.seq = expected_seq
     THEN reply_received' = TRUE /\ answered' = m.ping /\ UNCHANGED expected_seq
     ELSE UNCHANGED icmp
  /\ UNCHANGED <<flight, resolving>>

net_rx_packet ==
  /\ rx /\ ring # <<>> /\ Top(budget) > 0
  /\ ring' = Tail(ring)
  /\ handle_arp(Head(ring)) \/ handle_echo_request(Head(ring)) \/ handle_echo_reply(Head(ring))
  /\ UNCHANGED <<elapsed, task>>

\* A poll ends.  The loop of net_arp_resolve inside a handler goes on polling until
\* the address is known: the clock stands still, so no attempt ever times out.
PollEnds == rx /\ (ring = <<>> \/ Top(budget) = 0)

resolve_loop ==
  /\ PollEnds /\ resolving # <<>>
  /\ IF Cached(Top(resolving))
     THEN /\ resolving' = SubSeq(resolving, 1, Len(resolving) - 1)
          /\ budget' = SubSeq(budget, 1, Len(budget) - 1)
     ELSE resolving' = resolving /\ budget' = [budget EXCEPT ![Len(budget)] = Budget]
  /\ UNCHANGED <<elapsed, cache, flight, ring, task, icmp>>

rx_return ==
  /\ PollEnds /\ resolving = <<>>
  /\ budget' = <<>>
  /\ UNCHANGED <<elapsed, cache, flight, ring, task, icmp, resolving>>

-----------------------------------------------------------------------------
(***************************************************************************)
(* The task: net_ping.                                                     *)
(***************************************************************************)
Shared == <<cache, ring, icmp, resolving>>
Goto(l) == ~rx /\ pc' = l

Done(rc) ==
  /\ Goto("idle")
  /\ dst' = "none" /\ seq' = 0 /\ hop' = "none" /\ slot' = 0 /\ mac' = "none"
  /\ attempt' = 0 /\ elapsed' = 0 /\ ping' = ping
  /\ result' = rc

net_ping ==
  /\ pc = "idle" /\ ping < MaxPings
  /\ Goto("lookup")
  /\ \E h \in Pinged : dst' = h /\ hop' = route_next_hop(h)
  /\ seq' = (ping % Count) + 1
  /\ ping' = ping + 1 /\ result' = "pending"
  /\ UNCHANGED <<slot, mac, attempt, flight, budget, elapsed, Shared>>

\* arp_cache_lookup finds the slot, and copies the card from it.
lookup ==
  /\ pc = "lookup"
  /\ IF Cached(hop) THEN Goto("copy") /\ slot' \in {i \in Slots : cache[i].ip = hop}
     ELSE Goto(IF attempt = 0 THEN "arp_send" ELSE "arp_hlt") /\ slot' = 0
  /\ UNCHANGED <<dst, seq, hop, mac, attempt, ping, result, flight, budget, elapsed, Shared>>

copy ==
  /\ pc = "copy"
  /\ Goto("arm")
  /\ mac' = cache[slot].mac /\ slot' = 0 /\ attempt' = 0 /\ elapsed' = 0
  /\ UNCHANGED <<dst, seq, hop, ping, result, flight, budget, Shared>>

arp_send ==
  /\ pc = "arp_send" /\ attempt < 3
  /\ Goto("arp_loop")
  /\ Answer(hop, ArpReply(hop))
  /\ attempt' = attempt + 1 /\ elapsed' = 0
  /\ UNCHANGED <<dst, seq, hop, slot, mac, ping, result, budget, Shared>>

arp_fail ==
  /\ pc = "arp_send" /\ attempt = 3
  /\ Done("unreachable")
  /\ UNCHANGED <<flight, budget, Shared>>

\* nic_poll, then the lookup; or the next attempt.
MutWaitsForever ==
  /\ pc = "arp_loop"
  /\ Goto("lookup") /\ budget' = <<Budget>>
  /\ UNCHANGED <<dst, seq, hop, slot, mac, attempt, ping, result, flight, elapsed, Shared>>
arp_loop ==
  /\ pc = "arp_loop"
  /\ IF elapsed < per_try THEN Goto("lookup") /\ budget' = <<Budget>>
     ELSE Goto("arp_send") /\ budget' = budget
  /\ UNCHANGED <<dst, seq, hop, slot, mac, attempt, ping, result, flight, elapsed, Shared>>

arm ==
  /\ pc = "arm"
  /\ Goto("clear")
  /\ expected_seq' = seq
  /\ UNCHANGED <<dst, seq, hop, slot, mac, attempt, ping, result, flight, budget,
                 elapsed, cache, ring, resolving, reply_received, answered>>

\* The flag is cleared and the clock started.
clear ==
  /\ pc = "clear"
  /\ Goto("send")
  /\ reply_received' = FALSE /\ elapsed' = 0
  /\ UNCHANGED <<dst, seq, hop, slot, mac, attempt, ping, result, flight, budget,
                 cache, ring, resolving, expected_seq, answered>>

\* The request leaves for the card that was found; its owner passes it on.
send ==
  /\ pc = "send"
  /\ Goto("reply_loop")
  /\ IF mac = hop THEN Answer(dst, EchoReply(dst, seq, ping)) ELSE flight' = flight
  /\ mac' = "none"
  /\ UNCHANGED <<dst, seq, hop, slot, attempt, ping, result, budget, elapsed, Shared>>

reply_loop ==
  /\ pc = "reply_loop" /\ elapsed <= max_ticks
  /\ Goto("check") /\ budget' = <<Budget>>
  /\ UNCHANGED <<dst, seq, hop, slot, mac, attempt, ping, result, flight, elapsed, Shared>>

reply_timeout ==
  /\ pc = "reply_loop" /\ elapsed > max_ticks
  /\ Done("timeout")
  /\ UNCHANGED <<flight, budget, Shared>>

check ==
  /\ pc = "check" /\ ~reply_received
  /\ Goto("reply_hlt")
  /\ UNCHANGED <<dst, seq, hop, slot, mac, attempt, ping, result, flight, budget, elapsed, Shared>>

reply ==
  /\ pc = "check" /\ reply_received
  /\ Done("ok")
  /\ UNCHANGED <<flight, budget, Shared>>

-----------------------------------------------------------------------------
Receive == net_rx_packet \/ resolve_loop \/ rx_return
Task ==
  \/ lookup \/ copy \/ arp_send \/ arp_fail \/ arp_loop \/ arm \/ clear \/ send
  \/ reply_loop \/ reply_timeout \/ check \/ reply
Irq == timer_irq \/ nic_handle_irq

Next == call \/ deliver \/ lose \/ Irq \/ Receive \/ net_ping \/ Task

Spec == Init /\ [][Next]_vars

\* The processor runs, and executes at least an instruction of the task between
\* two interrupts; the timer has the highest priority of all of them; the wire
\* delivers what is not lost.
Fairness ==
  WF_vars(Receive) /\ SF_vars(Task) /\ SF_vars(timer_irq) /\ WF_vars(nic_handle_irq) /\ WF_vars(deliver)
FairSpec == Spec /\ Fairness

-----------------------------------------------------------------------------
\* Type correctness.
TypeOK ==
  /\ elapsed \in 0..Forever
  /\ cache \in [Slots -> [ip : Hosts \cup {"none"}, mac : Locals \cup {"none"}]]
  /\ attempt \in 0..3 /\ Len(ring) <= MaxRing /\ Len(budget) \in {0, Len(resolving) + 1}
  /\ slot \in {0} \cup Slots /\ hop \in Locals \cup {"none"} /\ mac \in Locals \cup {"none"}

\* Every valid entry of the ARP cache names a local host and that host's card,
\* and no address has two entries.
CacheSound ==
  /\ \A i \in Slots : cache[i] # Empty => cache[i].ip \in Locals /\ cache[i].mac = cache[i].ip
  /\ \A i, j \in Slots : cache[i] # Empty /\ cache[i].ip = cache[j].ip => i = j

\* The echo request goes to the card of the next hop, whatever the receive path
\* does to the cache while the task reads it, as long as the cache has room.
SendsToHop ==
  pc \in {"arm", "clear", "send"} => mac = hop \/ \A i \in Slots : cache[i] # Empty



\* net_ping returns, with a reply or without.
PingReturns == pc # "idle" ~> pc = "idle"

\* The receive path returns: interrupts are not kept off for ever ("execute quickly
\* with interrupts masked and **never** block").
HandlerReturns == rx ~> ~rx

\* Neither the command that pings nor the handler that receives waits for ever.
BothReturn == PingReturns /\ HandlerReturns
=============================================================================
