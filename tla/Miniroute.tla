------------------------------ MODULE Miniroute ------------------------------
(***************************************************************************)
(* miniroute.c and miniroute_cache.c: source routing between hosts that    *)
(* reach only their neighbours.  A thread that sends to a host it has no   *)
(* fresh route to broadcasts a discovery, which every host passes on with  *)
(* its own address appended; the destination replies along the reverse     *)
(* path.  On each host the control thread handles one packet at a time.    *)
(*                                                                         *)
(* The network loses, repeats, delays and reorders packets.  A cache is a  *)
(* sequence, the entry that came first in front (list_head); hashing only  *)
(* makes the search for an address fast.  Time is whether a route is still *)
(* fresh and whether an alarm has fired.                                   *)
(***************************************************************************)
EXTENDS Naturals, Sequences, FiniteSets, SequencesExt

CONSTANTS Host, Links,          \* pairs of neighbours
          Thread, HostOf,       \* the threads that send, and where they are
          Dest,                 \* the hosts that each thread sends to
          NoPath,
          MAX_ROUTE_LENGTH,
          SIZE_OF_ROUTE_CACHE,
          MaxId                 \* bound: discoveries of a host

ASSUME RouteAssumption ==
    /\ HostOf \in [Thread -> Host]
    /\ \A t \in Thread : Dest[t] \subseteq Host \ {HostOf[t]}
    /\ Links \subseteq Host \X Host
    /\ \A l \in Links : <<l[2], l[1]>> \in Links
    /\ MAX_ROUTE_LENGTH \in Nat \ {0} /\ SIZE_OF_ROUTE_CACHE \in Nat \ {0} /\ MaxId \in Nat
    /\ NoPath \notin Seq(Host)

VARIABLES
    route_cache, disc_cache,  \* of each host
    discovery_id,             \* of each host: the number of discoveries it began
    discovery_mutex,          \* of each host: whether it is free
    discovery_sig,            \* of each host: its count
    discovery_alarm,          \* of each host: None, or the discovery it was registered for
    discovered_path,          \* of each host
    armed,                    \* of each host: the discoveries whose alarm is to fire
    thr,                      \* of each thread: where it is, whereto, along which path
    net                       \* every packet that was ever sent

discoveryVars == <<discovery_id, discovery_mutex, discovery_sig, discovery_alarm,
                   discovered_path, armed>>
vars == <<route_cache, disc_cache, discoveryVars, thr, net>>

None == 0

Init == /\ route_cache = [h \in Host |-> << >>]
        /\ disc_cache = [h \in Host |-> << >>]
        /\ discovery_id = [h \in Host |-> 0]
        /\ discovery_mutex = [h \in Host |-> TRUE]
        /\ discovery_sig = [h \in Host |-> 0]
        /\ discovery_alarm = [h \in Host |-> None]
        /\ discovered_path = [h \in Host |-> NoPath]
        /\ armed = [h \in Host |-> {}]
        /\ thr = [t \in Thread |-> [at |-> "out", dest |-> HostOf[t], path |-> NoPath]]
        /\ net = {}
-----------------------------------------------------------------------------
(* miniroute_cache.c                                                       *)

entries(cache, addr) == {e \in Range(cache) : e.addr = addr}

\* miniroute_cache_delete_item of what miniroute_cache_get_by_addr finds, if anything.
without(cache, addr) ==
    LET at == {i \in DOMAIN cache : cache[i].addr = addr}
    IN IF at = {} THEN cache ELSE RemoveAt(cache, CHOOSE i \in at : TRUE)

\* miniroute_cache_put_item: the entry of that address is replaced; if the cache is full
\* the entry at the head of the list goes.
put_item(cache, item) ==
    LET others == without(cache, item.addr)
        room == IF Len(others) >= SIZE_OF_ROUTE_CACHE THEN Tail(others) ELSE others
    IN Append(room, item)

\* Mutant of path_from_hdr: the path as it is in the header.
path_as_is(path) == path

\* miniroute_path_from_hdr: the path of a header, reversed.
path_from_hdr(path) == Reverse(path)
route_item(path) == [addr |-> Last(path), hop |-> path, fresh |-> TRUE]
dischist(orig, id) == [addr |-> orig, id |-> id]

-----------------------------------------------------------------------------
(* Packets.  from is who sent it last, over the link to to.                *)

PacketType == {"DATA", "DISCOVERY", "REPLY"}
Packet(type, from, to, dest, id, ttl, path) ==
    [type |-> type, from |-> from, to |-> to, dest |-> dest, id |-> id, ttl |-> ttl,
     path |-> path]

\* network_bcast_pkt
bcast(h, dest, id, ttl, path) ==
    {Packet("DISCOVERY", h, l[2], dest, id, ttl, path) : l \in {k \in Links : k[1] = h}}

\* Data and replies go the way their path says; a path to oneself has no hop[1].
along(type, h, id, path) ==
    Packet(type, h, path[2], Last(path), id, MAX_ROUTE_LENGTH, path)

-----------------------------------------------------------------------------
(* miniroute_send_pkt and miniroute_discover_path                          *)

Goto(t, place) == thr' = [thr EXCEPT ![t].at = place]

Call(t, d) == /\ thr[t].at = "out"
              /\ thr' = [thr EXCEPT ![t] = [at |-> "enter", dest |-> d, path |-> NoPath]]
              /\ UNCHANGED <<route_cache, disc_cache, discoveryVars, net>>

fresh(h, d) == {e \in entries(route_cache[h], d) : e.fresh}

\* discovery_mutex is free, and is given back with the route that was found.
SendCached(t) ==
    LET h == HostOf[t]
    IN /\ thr[t].at = "enter" /\ discovery_mutex[h]
       /\ \E e \in fresh(h, thr[t].dest) :
             thr' = [thr EXCEPT ![t].at = "send", ![t].path = e.hop]
       /\ UNCHANGED <<route_cache, disc_cache, discoveryVars, net>>

\* Mutant of Discover: discovery_mutex is not waited for.
DiscoverUnlocked(t) ==
    LET h == HostOf[t]
        id == discovery_id[h] + 1
    IN /\ thr[t].at = "enter"
       /\ fresh(h, thr[t].dest) = {}
       /\ id <= MaxId
       /\ discovery_mutex' = [discovery_mutex EXCEPT ![h] = FALSE]
       /\ discovery_id' = [discovery_id EXCEPT ![h] = id]
       /\ disc_cache' = [disc_cache EXCEPT ![h] = put_item(@, dischist(h, id))]
       /\ net' = net \cup bcast(h, thr[t].dest, id, MAX_ROUTE_LENGTH, <<h>>)
       /\ Goto(t, "register")
       /\ UNCHANGED <<route_cache, discovery_sig, discovery_alarm, discovered_path, armed>>

Discover(t) ==
    LET h == HostOf[t]
        id == discovery_id[h] + 1
    IN /\ thr[t].at = "enter" /\ discovery_mutex[h]
       /\ fresh(h, thr[t].dest) = {}
       /\ id <= MaxId
       /\ discovery_mutex' = [discovery_mutex EXCEPT ![h] = FALSE]
       /\ discovery_id' = [discovery_id EXCEPT ![h] = id]
       /\ disc_cache' = [disc_cache EXCEPT ![h] = put_item(@, dischist(h, id))]
       /\ net' = net \cup bcast(h, thr[t].dest, id, MAX_ROUTE_LENGTH, <<h>>)
       /\ Goto(t, "register")
       /\ UNCHANGED <<route_cache, discovery_sig, discovery_alarm, discovered_path, armed>>

\* A reply that is handled before the alarm is registered finds nothing to cancel.
RegisterAlarm(t) ==
    LET h == HostOf[t]
    IN /\ thr[t].at = "register"
       /\ discovery_alarm' = [discovery_alarm EXCEPT ![h] = discovery_id[h]]
       /\ armed' = [armed EXCEPT ![h] = @ \cup {discovery_id[h]}]
       /\ Goto(t, "wait")
       /\ UNCHANGED <<route_cache, disc_cache, discovery_id, discovery_mutex, discovery_sig,
                      discovered_path, net>>

\* Mutant of Woken: the mutex is kept when no reply came.
WokenKeepsMutex(t) ==
    LET h == HostOf[t]
        replied == discovery_alarm[h] = None
        path == IF replied THEN discovered_path[h] ELSE NoPath
    IN /\ thr[t].at = "wait" /\ discovery_sig[h] > 0
       /\ discovery_sig' = [discovery_sig EXCEPT ![h] = @ - 1]
       /\ discovered_path' = IF replied THEN [discovered_path EXCEPT ![h] = NoPath]
                                        ELSE discovered_path
       /\ discovery_mutex' = [discovery_mutex EXCEPT ![h] = replied]
       /\ thr' = [thr EXCEPT ![t].at = IF path = NoPath THEN "out" ELSE "send",
                             ![t].path = path]
       /\ UNCHANGED <<route_cache, disc_cache, discovery_id, discovery_alarm, armed, net>>

Woken(t) ==
    LET h == HostOf[t]
        replied == discovery_alarm[h] = None
        path == IF replied THEN discovered_path[h] ELSE NoPath
    IN /\ thr[t].at = "wait" /\ discovery_sig[h] > 0
       /\ discovery_sig' = [discovery_sig EXCEPT ![h] = @ - 1]
       /\ discovered_path' = IF replied THEN [discovered_path EXCEPT ![h] = NoPath]
                                        ELSE discovered_path
       /\ discovery_mutex' = [discovery_mutex EXCEPT ![h] = TRUE]
       /\ thr' = [thr EXCEPT ![t].at = IF path = NoPath THEN "out" ELSE "send",
                             ![t].path = path]
       /\ UNCHANGED <<route_cache, disc_cache, discovery_id, discovery_alarm, armed, net>>

SendData(t) == /\ thr[t].at = "send"
               /\ net' = net \cup {along("DATA", HostOf[t], 0, thr[t].path)}
               /\ thr' = [thr EXCEPT ![t].at = "out", ![t].path = NoPath]
               /\ UNCHANGED <<route_cache, disc_cache, discoveryVars>>

\* semaphore_Signal, 12 s after the alarm was registered.
AlarmFires(h, i) ==
    /\ i \in armed[h]
    /\ armed' = [armed EXCEPT ![h] = @ \ {i}]
    /\ discovery_sig' = [discovery_sig EXCEPT ![h] = @ + 1]
    /\ UNCHANGED <<route_cache, disc_cache, discovery_id, discovery_mutex, discovery_alarm,
                   discovered_path, thr, net>>

\* exp_time passes.
Expire(h, i) == /\ i \in DOMAIN route_cache[h] /\ route_cache[h][i].fresh
                /\ route_cache' = [route_cache EXCEPT ![h][i].fresh = FALSE]
                /\ UNCHANGED <<disc_cache, discoveryVars, thr, net>>

-----------------------------------------------------------------------------
(* miniroute_control, on the host that m was sent to                       *)

\* Mutant of relay: the index in the path is not advanced.
relay_same(m) ==
    LET h == m.to
        at == {i \in DOMAIN m.path : m.path[i] = h}
        i == CHOOSE j \in at : \A k \in at : j <= k
    IN IF at # {} /\ i < Len(m.path)
       THEN {[m EXCEPT !.from = h, !.to = m.path[i], !.ttl = @ - 1]}
       ELSE {}

\* miniroute_relay: to the host after this one in the path.
relay(m) ==
    LET h == m.to
        at == {i \in DOMAIN m.path : m.path[i] = h}
        i == CHOOSE j \in at : \A k \in at : j <= k
    IN IF at # {} /\ i < Len(m.path)
       THEN {[m EXCEPT !.from = h, !.to = m.path[i + 1], !.ttl = @ - 1]}
       ELSE {}

PassOn(m) == /\ m.dest # m.to /\ m.type \in {"DATA", "REPLY"}
             /\ net' = net \cup relay(m)
             /\ UNCHANGED <<route_cache, disc_cache, discoveryVars, thr>>

\* miniroute_process_discovery on a host that is not the destination, which has not, or not
\* just, seen this discovery.
Rebroadcast(m) ==
    LET h == m.to
        orig == m.path[1]
    IN /\ m.type = "DISCOVERY" /\ m.dest # h
       /\ \A e \in entries(disc_cache[h], orig) : e.id # m.id
       /\ disc_cache' = [disc_cache EXCEPT ![h] = put_item(@, dischist(orig, m.id))]
       /\ net' = net \cup bcast(h, m.dest, m.id, m.ttl - 1, Append(m.path, h))
       /\ UNCHANGED <<route_cache, discoveryVars, thr>>

Reply(m) ==
    LET h == m.to
        path == path_from_hdr(Append(m.path, h))
    IN /\ m.type = "DISCOVERY" /\ m.dest = h
       /\ route_cache' = [route_cache EXCEPT ![h] = put_item(@, route_item(path))]
       /\ net' = net \cup {along("REPLY", h, m.id, path)}
       /\ UNCHANGED <<disc_cache, discoveryVars, thr>>

\* miniroute_discovery_cancel.  An alarm that has fired is not there to deregister, but
\* discovery_alarm still holds its number.
Cancel(h) ==
    LET a == discovery_alarm[h]
    IN IF a = None
       THEN UNCHANGED <<armed, discovery_alarm, discovery_sig>>
       ELSE /\ armed' = [armed EXCEPT ![h] = @ \ {a}]
            /\ discovery_alarm' = [discovery_alarm EXCEPT ![h] = None]
            /\ discovery_sig' = [discovery_sig EXCEPT ![h] = @ + 1]

\* miniroute_process_reply.  Neither the id nor the end of the path is looked at.
TakeReply(m) ==
    LET h == m.to
        path == path_from_hdr(m.path)
    IN /\ m.type = "REPLY" /\ m.dest = h
       /\ discovered_path' = [discovered_path EXCEPT ![h] = path]
       /\ route_cache' = [route_cache EXCEPT ![h] = put_item(@, route_item(path))]
       /\ Cancel(h)
       /\ UNCHANGED <<disc_cache, discovery_id, discovery_mutex, thr, net>>

\* Mutant of Control: a packet whose ttl is used up is still passed on.
ControlOnceMore(m) == /\ m.ttl >= 0
                      /\ PassOn(m) \/ Rebroadcast(m) \/ Reply(m) \/ TakeReply(m)

\* A packet whose ttl is used up is dropped, wherever it is (dest is never set there).
Control(m) == /\ m.ttl > 0
              /\ PassOn(m) \/ Rebroadcast(m) \/ Reply(m) \/ TakeReply(m)

-----------------------------------------------------------------------------

Sending(t) == SendCached(t) \/ Discover(t) \/ RegisterAlarm(t) \/ Woken(t) \/ SendData(t)

Next == \/ \E t \in Thread : Sending(t) \/ \E d \in Dest[t] : Call(t, d)
        \/ \E h \in Host : \/ \E i \in armed[h] : AlarmFires(h, i)
                           \/ \E i \in DOMAIN route_cache[h] : Expire(h, i)
        \/ \E m \in net : Control(m)

\* Threads run and alarms fire; semaphores are first come, first served; the network owes
\* nothing.
Fairness == /\ \A t \in Thread : SF_vars(Sending(t))
            /\ \A h \in Host : \A i \in 1..MaxId : WF_vars(AlarmFires(h, i))

Spec == Init /\ [][Next]_vars /\ Fairness
-----------------------------------------------------------------------------
(* Properties                                                              *)

Walk(path) == \A i \in 1..Len(path) - 1 : <<path[i], path[i + 1]>> \in Links

\* Every variable has its type.
TypeOK == /\ \A h \in Host :
                /\ \A i \in DOMAIN route_cache[h] :
                      /\ route_cache[h][i].addr \in Host /\ route_cache[h][i].hop \in Seq(Host)
                      /\ route_cache[h][i].fresh \in BOOLEAN
                /\ \A i \in DOMAIN disc_cache[h] : /\ disc_cache[h][i].addr \in Host
                                                   /\ disc_cache[h][i].id \in 1..MaxId
                /\ discovered_path[h] = NoPath \/ discovered_path[h] \in Seq(Host)
                /\ armed[h] \subseteq 1..MaxId
          /\ discovery_id \in [Host -> 0..MaxId]
          /\ discovery_alarm \in [Host -> 0..MaxId]
          /\ discovery_mutex \in [Host -> BOOLEAN]
          /\ discovery_sig \in [Host -> Nat]
          /\ \A t \in Thread : /\ thr[t].at \in {"out", "enter", "register", "wait", "send"}
                               /\ thr[t].dest \in Host
          /\ \A m \in net : /\ m.type \in PacketType /\ m.dest \in Host
                            /\ m.ttl \in 0..MAX_ROUTE_LENGTH /\ m.path \in Seq(Host)

\* Every cached route, and the path a thread sends along, leads from the host over links to
\* the address it is filed under, however the discoveries and replies were mixed up.
RoutesLead ==
    \A h \in Host :
        /\ \A e \in Range(route_cache[h]) :
              Head(e.hop) = h /\ Last(e.hop) = e.addr /\ Walk(e.hop)
        /\ discovered_path[h] # NoPath => Head(discovered_path[h]) = h /\ Walk(discovered_path[h])
        /\ \A t \in Thread : thr[t].path # NoPath /\ HostOf[t] = h =>
              Head(thr[t].path) = h /\ Walk(thr[t].path)

\* No host sends to one that is not its neighbour.
OnlyOverLinks == \A m \in net : <<m.from, m.to>> \in Links

\* miniroute.h: several calls that need a route to the same destination cause one broadcast.
OneBroadcast ==
    [][\A t, u \in Thread :
          thr[t].at = "enter" /\ thr'[t].at = "register" /\ t # u /\ HostOf[t] = HostOf[u]
              => ~(thr[u].at \in {"register", "wait"} /\ thr[u].dest = thr[t].dest)]_vars

\* A call of miniroute_send_pkt returns, whatever the network does.
SendReturns ==
    \A t \in Thread : thr[t].at = "enter" ~>
        thr[t].at = "out" \/ (thr[t].at = "enter" /\ discovery_id[HostOf[t]] = MaxId)

=============================================================================
