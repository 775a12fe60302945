--------------------------- MODULE MinisocketProofs ---------------------------
(***************************************************************************)
(* Proofs about Minisocket, for any clients, programs and bounds.          *)
(***************************************************************************)
EXTENDS Minisocket, SequenceTheorems, TLAPS

Struct == [state : State, remote : Socket \cup {NoSocket}, seq : Nat, ack : Nat,
           alarm : {"SUCCESS", "WAKEUP", "id"}, data : Seq(Entry), receive : Nat,
           receive_count : 0 .. 1, synchonize : Nat]
TxType == {Idle} \cup [at : {"send", "wait"}, hdr : Packet, try : Nat]
RcvType == [at : {"idle", "wait", "loop"}] \cup [at : {"rest"}, packet : Entry]
Handshake == {"LISTEN", "SYNSENT", "SYNRECEIVED"}

(***************************************************************************)
(* TypeInv: the types, of tx and rcv whole.                                *)
(***************************************************************************)
TypeInv ==
    /\ skt \in [Socket -> Struct]
    /\ exists \subseteq Socket /\ closing \subseteq Socket /\ finAlarm \subseteq Socket
    /\ tx \in [Socket -> TxType]
    /\ app \in [Socket -> {"new", "listen", "check", "creating", "failed", "open", "send", "sending"}]
    /\ rcv \in [Socket -> RcvType]
    /\ cls \in [Socket -> {"no", "unblock", "fin", "transmit", "done"}]
    /\ cleanup \in [Socket -> Nat]
    /\ net \subseteq Packet
    /\ sentOk \in [Socket -> SUBSET Nat]
    /\ read \in [Socket -> Seq(Nat)]

(***************************************************************************)
(* RoleInv: the server talks to clients and clients to the server; only a  *)
(* client sends a SYN, its first transmission.                             *)
(***************************************************************************)
RoleOf(c) == /\ skt[c].remote = (IF app[c] = "new" THEN NoSocket ELSE Server)
             /\ skt[c].state \notin {"LISTEN", "SYNRECEIVED"}
             /\ skt[c].state = "SYNSENT" => /\ skt[c].seq = 1 /\ skt[c].ack = 0
                                           /\ app[c] \in {"creating", "open", "failed"}
             /\ app[c] \notin {"listen", "check"}
RoleInv ==
    /\ \A c \in Client : RoleOf(c)
    /\ \A m \in net : /\ m.src = Server <=> m.dst # Server
                      /\ m.type = "SYN" => m.src # Server /\ m.seq = 1
                      /\ m.type = "SYNACK" => m.src = Server /\ m.seq > 0 /\ m.ack = 1

(***************************************************************************)
(* ServerInv: what minisocket_server_create has done.  While the server    *)
(* listens for the first time it has transmitted nothing and has no peer;  *)
(* it listens again only after a SYNACK.                                   *)
(***************************************************************************)
ServerInv ==
    LET k == skt[Server]
        at == app[Server]
    IN  /\ k.remote # Server /\ k.state # "SYNSENT"
        /\ k.state = "LISTEN" => at = "listen" /\ (k.seq = 0 => k.remote = NoSocket) /\ k.ack <= 1
        /\ k.state = "SYNRECEIVED" => k.ack = 1 /\ at \in {"listen", "creating", "check"}
        /\ k.synchonize = (IF at = "listen" /\ k.state # "LISTEN" THEN 1 ELSE 0)
        /\ at = "check" /\ k.state = "SYNRECEIVED" => k.seq > 0
        /\ k.remote = NoSocket => at \in {"new", "listen"} /\ (at = "listen" => k.state = "LISTEN")
        /\ Server \in closing => at # "new" /\ k.state \in {"LASTACK", "TIMEWAIT", "CLOSED"}

(***************************************************************************)
(* CallInv: where the threads of a socket are.                             *)
(***************************************************************************)
CallOf(s) ==
    /\ app[s] = "new" => skt[s] = NewSocket
    /\ s \in exists \/ tx[s].at # "idle" \/ cls[s] # "no" \/ rcv[s].at # "idle" => app[s] # "new"
    /\ cls[s] # "no" => skt[s].state \in {"LASTACK", "CLOSED"}
    /\ sentOk[s] # {} \/ cls[s] # "no" => Returned(s)
CallInv == \A s \in Socket : CallOf(s)

(***************************************************************************)
(* TransmitInv: a transmission under way has the last number of its        *)
(* socket, and the header that its caller asked for; if its alarm was      *)
(* cancelled, the remote end has counted it.                               *)
(***************************************************************************)
TransmitOf(s) ==
    LET h == tx[s].hdr
        k == skt[s]
    IN  tx[s].at # "idle" =>
            /\ h.src = s /\ h.dst = k.remote /\ h.seq = k.seq /\ h.seq > 0 /\ h.ack <= k.ack
            /\ h.type = "SYN" => s \in Client /\ app[s] = "creating" /\ h.seq = 1
            /\ h.type = "SYNACK" => s = Server /\ app[s] = "creating" /\ h.ack = 1
            /\ h.type = "ACK" => app[s] = "sending"
            /\ h.type = "FIN" => cls[s] = "transmit"
            /\ tx[s].at = "wait" /\ k.alarm = "SUCCESS" => skt[k.remote].ack >= k.seq
TransmitInv == \A s \in Socket : TransmitOf(s)

(***************************************************************************)
(* NetInv: no packet is ahead of who sent it, but the refusal that the     *)
(* server sends to another client before it has transmitted anything; who  *)
(* is connected without having counted a transmission is the server's      *)
(* first peer, to whom it sends no refusal.                                *)
(***************************************************************************)
Refusal(m) == /\ m.type = "FIN" /\ m.src = Server /\ m.seq = 1
              /\ skt[Server].remote \notin {NoSocket, m.dst}

NetInv ==
    /\ \A m \in net : /\ m.seq <= skt[m.src].seq \/ Refusal(m)
                      /\ m.type # "FIN" => m.ack <= skt[m.src].ack
                      /\ m.src = Server /\ m.seq = 0 /\ skt[Server].seq = 0 => skt[Server].remote = m.dst
    /\ \A c \in Client : skt[c].state \in {"ESTABLISHED", "LASTACK"} /\ skt[c].ack = 0 /\ skt[Server].seq = 0
          => skt[Server].remote = c

(***************************************************************************)
(* ReadInv: what was read, then the packet of which a part was read, then  *)
(* what is in the queue (but for packets freed there) is in order, and     *)
(* none is ahead of ack.                                                   *)
(***************************************************************************)
Kept(p) == ~p.freed
ReadOf(s) ==
    LET k == skt[s]
        part == rcv[s].packet
    IN  /\ \A i \in DOMAIN read[s] : read[s][i] <= k.ack
        /\ \A i, j \in DOMAIN read[s] : i < j => read[s][i] < read[s][j]
        /\ \A i \in DOMAIN k.data : Kept(k.data[i]) =>
              /\ k.data[i].seq <= k.ack
              /\ \A j \in DOMAIN read[s] : read[s][j] < k.data[i].seq
              /\ \A j \in DOMAIN k.data : i < j /\ Kept(k.data[j]) => k.data[i].seq < k.data[j].seq
        /\ rcv[s].at = "rest" /\ Kept(part) =>
              /\ part.seq <= k.ack
              /\ \A j \in DOMAIN read[s] : read[s][j] < part.seq
              /\ \A j \in DOMAIN k.data : Kept(k.data[j]) => part.seq < k.data[j].seq
ReadInv == \A s \in Socket : ReadOf(s)

(***************************************************************************)
(* WakeInv: a thread that waits is counted; whoever may come to wait finds *)
(* the semaphore up when there is data.                                    *)
(***************************************************************************)
WakeOf(s) ==
    /\ skt[s].receive_count = (IF rcv[s].at = "wait" THEN 1 ELSE 0)
    /\ skt[s].data # << >> \/ rcv[s].at # "idle" => skt[s].state \notin Handshake
    /\ skt[s].data # << >> => \/ skt[s].receive > 0
                              \/ rcv[s].at \in {"loop", "rest"}
                              \/ rcv[s].at = "idle" /\ skt[s].state # "ESTABLISHED"
WakeInv == \A s \in Socket : WakeOf(s)

IInv == /\ TypeInv /\ RoleInv /\ ServerInv /\ CallInv /\ TransmitInv /\ NetInv /\ AckNotAhead
        /\ SuccessMeansTaken /\ ReadInv /\ WakeInv
-----------------------------------------------------------------------------
(***************************************************************************)
(* What minisocket_process_packet may do to a socket k, for a packet m:    *)
(* the socket becomes j and out is sent.                                   *)
(***************************************************************************)
Moves == {<<"LISTEN", "SYNRECEIVED">>, <<"SYNSENT", "ESTABLISHED">>, <<"SYNSENT", "TIMEWAIT">>,
          <<"SYNRECEIVED", "ESTABLISHED">>, <<"ESTABLISHED", "TIMEWAIT">>, <<"LASTACK", "CLOSED">>}

\* Nothing is transmitted, nobody stops waiting, and the state goes forward.
Forward(k, j) == /\ j \in Struct /\ j.seq = k.seq /\ j.receive_count = k.receive_count
                 /\ j.receive >= k.receive
                 /\ j.state # k.state => <<k.state, j.state>> \in Moves

\* A SYN is taken.
Listens(m, k, j) == /\ k.state = "LISTEN" /\ j.state = "SYNRECEIVED" /\ m.type = "SYN"
                    /\ j.remote = m.src /\ j.ack = m.seq
                    /\ j.synchonize = k.synchonize + 1
                    /\ j.alarm = k.alarm /\ j.data = k.data

\* The answer to a SYN is taken.
Answered(m, k, j) == /\ k.state = "SYNSENT" /\ j.state = "ESTABLISHED"
                     /\ j.ack = m.seq /\ j.data = k.data /\ m.src = k.remote

\* The alarm is cancelled.
Cancels(m, k, j) == /\ j.alarm = "SUCCESS" /\ m.src = k.remote /\ m.ack = k.seq
                    /\ m.type \in {"SYNACK", "ACK"}

\* The next packet is counted; without data to keep, or alone in the queue.
Counts(m, k, j) == /\ j.ack = k.ack + 1 /\ m.seq = j.ack /\ m.src = k.remote
                   /\ k.state \in {"SYNRECEIVED", "ESTABLISHED", "LASTACK"}
Keeps(m, k, j) == /\ Counts(m, k, j) /\ j.state = "ESTABLISHED"
                  /\ k.data = << >> /\ j.receive > 0
                  /\ j.data = Append(k.data, [seq |-> m.seq, data |-> m.data, freed |-> FALSE])
Frees(m, k, j) == /\ j.ack = k.ack /\ j.state = "ESTABLISHED" /\ k.data # << >>
                  /\ j.data = Append(k.data, [seq |-> m.seq, data |-> m.data, freed |-> TRUE])

Reacts(m, k, j) ==
    /\ Forward(k, j)
    /\ \/ Listens(m, k, j)
       \/ /\ j.remote = k.remote /\ j.synchonize = k.synchonize
          /\ j.state # "SYNRECEIVED" \/ j.state = k.state
          /\ j.alarm = k.alarm \/ Cancels(m, k, j)
          /\ \/ Answered(m, k, j) /\ m.type = "SYNACK"
             \/ j.ack = k.ack /\ j.data = k.data
             \/ Counts(m, k, j) /\ j.data = k.data /\ k.state # "SYNRECEIVED"
             \/ Keeps(m, k, j) \/ Frees(m, k, j)
          /\ k.state = "SYNSENT" /\ j.state = "ESTABLISHED" => j.ack = m.seq /\ m.src = k.remote

Acknowledges(s, m, k, j, p) ==
    /\ m.src = k.remote
    /\ p.type = "ACK" /\ p.src = s /\ p.dst = k.remote /\ p.seq = k.seq /\ p.ack <= j.ack
Refuses(m, k, p) ==
    /\ k.state \notin {"LISTEN", "SYNSENT"} /\ m.src # k.remote /\ m.type \in {"SYN", "SYNACK"}
    /\ p.type = "FIN" /\ p.src = m.dst /\ p.dst = m.src /\ p.seq = 1

Work == [k : Struct, out : SUBSET Packet]

\* acked
LEMMA AckedFacts ==
    ASSUME NEW k \in Struct, NEW m \in Packet, NEW j, j = acked(k, m)
    PROVE  /\ Forward(k, j)
           /\ j.remote = k.remote /\ j.ack = k.ack /\ j.data = k.data /\ j.receive = k.receive
           /\ j.synchonize = k.synchonize
           /\ j.alarm = (IF k.alarm = "id" THEN "SUCCESS" ELSE k.alarm)
           /\ k.state = "SYNSENT" => j.state = IF k.ack = m.seq THEN "ESTABLISHED" ELSE "SYNSENT"
           /\ k.state # "SYNRECEIVED" => j.state # "SYNRECEIVED"
           /\ k.state # "SYNSENT" => j.state # "SYNSENT"
<1>1. PICK a, st : /\ a = IF k.alarm = "id" THEN "SUCCESS" ELSE k.alarm
                   /\ st = CASE k.state = "SYNSENT" /\ k.ack = m.seq -> "ESTABLISHED"
                             [] k.state = "SYNRECEIVED" -> "ESTABLISHED"
                             [] k.state = "LASTACK" -> "CLOSED"
                             [] OTHER -> k.state
  OBVIOUS
<1>2. j = [k EXCEPT !.alarm = a, !.state = st]
  BY <1>1 DEF acked
<1>3. a \in {"SUCCESS", "WAKEUP", "id"}
  BY <1>1 DEF Struct
<1>4. /\ k.state \in State /\ st \in State
      /\ st # k.state => <<k.state, st>> \in Moves
      /\ k.state = "SYNSENT" => st = IF k.ack = m.seq THEN "ESTABLISHED" ELSE "SYNSENT"
      /\ k.state # "SYNRECEIVED" => st # "SYNRECEIVED"
      /\ k.state # "SYNSENT" => st # "SYNSENT"
  <2>1. k.state \in State
    BY DEF Struct
  <2>2. CASE k.state = "SYNSENT" /\ k.ack = m.seq
    BY <1>1, <2>2 DEF State, Moves
  <2>3. CASE k.state = "SYNRECEIVED"
    BY <1>1, <2>3 DEF State, Moves
  <2>4. CASE k.state = "LASTACK"
    BY <1>1, <2>4 DEF State, Moves
  <2>5. CASE ~(k.state = "SYNSENT" /\ k.ack = m.seq) /\ k.state \notin {"SYNRECEIVED", "LASTACK"}
    BY <1>1, <2>1, <2>5
  <2> QED
    BY <2>1, <2>2, <2>3, <2>4, <2>5
<1>5. /\ j \in Struct /\ j.seq = k.seq /\ j.receive_count = k.receive_count /\ j.receive = k.receive
      /\ j.state = st /\ j.alarm = a /\ j.remote = k.remote /\ j.ack = k.ack /\ j.data = k.data
      /\ j.synchonize = k.synchonize
  BY <1>2, <1>3, <1>4 DEF Struct
<1>6. k.receive \in Nat
  BY DEF Struct
<1> QED
  BY <1>1, <1>4, <1>5, <1>6 DEF Forward

\* acknowledge
LEMMA AcknowledgeFacts ==
    ASSUME NEW s \in Socket, NEW w \in Work, w.k.remote \in Socket, NEW v, v = acknowledge(s, w)
    PROVE  /\ v \in Work /\ v.k = w.k
           /\ \A p \in v.out : \/ p \in w.out
                               \/ /\ p.type = "ACK" /\ p.src = s /\ p.dst = w.k.remote
                                  /\ p.seq = w.k.seq /\ p.ack = w.k.ack
<1>1. packhdr(s, w.k, "ACK", FALSE) \in Packet
  BY DEF packhdr, Packet, Type, Work, Struct
<1>2. PICK p : p = packhdr(s, w.k, "ACK", FALSE)
  OBVIOUS
<1>3. v = [w EXCEPT !.out = @ \cup {p}]
  BY <1>2 DEF acknowledge
<1>4. v \in Work /\ v.k = w.k /\ v.out = w.out \cup {p}
  BY <1>1, <1>2, <1>3 DEF Work
<1>5. p.type = "ACK" /\ p.src = s /\ p.dst = w.k.remote /\ p.seq = w.k.seq /\ p.ack = w.k.ack
  BY <1>2 DEF packhdr
<1> QED
  BY <1>4, <1>5
\* store
LEMMA StoreFacts ==
    ASSUME NEW s \in Socket, NEW w \in Work, w.k.remote \in Socket, NEW m \in Packet,
           NEW v, v = store(s, w, m), m.seq = w.k.ack + 1, w.k.state = "ESTABLISHED", m.src = w.k.remote
    PROVE  /\ v \in Work
           /\ v.k.state = w.k.state /\ v.k.remote = w.k.remote /\ v.k.seq = w.k.seq
           /\ v.k.alarm = w.k.alarm /\ v.k.receive_count = w.k.receive_count
           /\ v.k.synchonize = w.k.synchonize /\ v.k.receive >= w.k.receive
           /\ Keeps(m, w.k, v.k) \/ Frees(m, w.k, v.k)
           /\ \A p \in v.out : p \in w.out \/ Acknowledges(s, m, w.k, v.k, p)
<1>1. PICK e, k : /\ e = [seq |-> m.seq, data |-> m.data, freed |-> ~(w.k.data = << >>)]
                  /\ k = w.k
  OBVIOUS
<1>2. PICK q : q = Append(k.data, e)
  OBVIOUS
<1>3. k \in Struct /\ e \in Entry /\ q \in Seq(Entry) /\ m.seq \in Nat
  <2>1. k \in Struct /\ k.data \in Seq(Entry)
    BY <1>1 DEF Work, Struct
  <2>2. m.seq \in Nat /\ m.data \in BOOLEAN
    BY DEF Packet
  <2>3. e \in Entry
    BY <1>1, <2>2 DEF Entry
  <2> QED
    BY <1>2, <2>1, <2>2, <2>3
<1>4. CASE w.k.data = << >>
  <2>1. PICK u : u = [[w EXCEPT !.k.data = q] EXCEPT !.k.receive = @ + 1, !.k.ack = @ + 1]
    OBVIOUS
  <2>2. v = acknowledge(s, u)
    BY <1>1, <1>2, <1>4, <2>1 DEF store
  <2>3. PICK j, x, y : x = k.receive + 1 /\ y = k.ack + 1 /\ j = [k EXCEPT !.data = q, !.receive = x, !.ack = y]
    OBVIOUS
  <2>4. /\ j \in Struct /\ j.data = q /\ j.receive = k.receive + 1 /\ j.ack = k.ack + 1
        /\ j.state = k.state /\ j.remote = k.remote /\ j.seq = k.seq /\ j.alarm = k.alarm
        /\ j.receive_count = k.receive_count /\ j.synchonize = k.synchonize
        /\ k.receive \in Nat /\ k.ack \in Nat
    <3>1. k.receive \in Nat /\ k.ack \in Nat
      BY <1>3 DEF Struct
    <3>2. x \in Nat /\ y \in Nat
      BY <2>3, <3>1
    <3>3. /\ j \in Struct /\ j.data = q /\ j.receive = x /\ j.ack = y
          /\ j.state = k.state /\ j.remote = k.remote /\ j.seq = k.seq /\ j.alarm = k.alarm
          /\ j.receive_count = k.receive_count /\ j.synchonize = k.synchonize
      BY <1>3, <2>3, <3>2 DEF Struct
    <3> QED
      BY <2>3, <3>1, <3>3
  <2>5. u = [w EXCEPT !.k = j]
    <3>1. PICK u1 : u1 = [w EXCEPT !.k.data = q]
      OBVIOUS
    <3>2. u1 = [w EXCEPT !.k = [k EXCEPT !.data = q]]
      BY <1>1, <3>1 DEF Work
    <3>3. u1.k = [k EXCEPT !.data = q] /\ DOMAIN u1 = {"k", "out"} /\ u1.out = w.out
      BY <3>2 DEF Work
    <3>4. u1.k.receive = k.receive /\ u1.k.ack = k.ack
      BY <1>3, <3>3 DEF Struct
    <3>5. PICK u2 : u2 = [u1 EXCEPT !.k.receive = @ + 1]
      OBVIOUS
    <3>6. u = [u2 EXCEPT !.k.ack = @ + 1]
      BY <2>1, <3>1, <3>5
    <3>7. u2 = [u1 EXCEPT !.k = [k EXCEPT !.data = q, !.receive = x]]
      BY <2>3, <3>3, <3>4, <3>5
    <3>8. u2.k = [k EXCEPT !.data = q, !.receive = x] /\ u2.k.ack = k.ack
      BY <1>3, <3>3, <3>7 DEF Struct
    <3>9. u = [u2 EXCEPT !.k = j]
      BY <2>3, <3>6, <3>8
    <3>10. u = [u1 EXCEPT !.k = j]
      BY <3>7, <3>9
    <3> QED
      BY <3>2, <3>10 DEF Work
  <2>6. u \in Work /\ u.k = j /\ u.out = w.out
    BY <2>4, <2>5 DEF Work
  <2>7. /\ v \in Work /\ v.k = u.k
        /\ \A p \in v.out : \/ p \in u.out
                            \/ /\ p.type = "ACK" /\ p.src = s /\ p.dst = u.k.remote
                               /\ p.seq = u.k.seq /\ p.ack = u.k.ack
    BY <1>1, <2>2, <2>4, <2>6, AcknowledgeFacts
  <2>8. Keeps(m, k, j)
    <3>1. e = [seq |-> m.seq, data |-> m.data, freed |-> FALSE]
      BY <1>1, <1>4
    <3>2. j.receive > 0 /\ k.state \notin {"LISTEN", "SYNSENT"}
      BY <1>1, <2>4
    <3> QED
      BY <1>1, <1>2, <1>4, <2>4, <3>1, <3>2 DEF Keeps, Counts
  <2> QED
    BY <1>1, <2>4, <2>6, <2>7, <2>8 DEF Acknowledges
<1>5. CASE w.k.data # << >>
  <2>1. v = [w EXCEPT !.k.data = q]
    BY <1>1, <1>2, <1>5 DEF store
  <2>2. PICK j : j = [k EXCEPT !.data = q]
    OBVIOUS
  <2>3. /\ j \in Struct /\ j.data = q /\ j.receive = k.receive /\ j.ack = k.ack
        /\ j.state = k.state /\ j.remote = k.remote /\ j.seq = k.seq /\ j.alarm = k.alarm
        /\ j.receive_count = k.receive_count /\ j.synchonize = k.synchonize
        /\ k.receive \in Nat
    BY <1>3, <2>2 DEF Struct
  <2>4. v = [w EXCEPT !.k = j]
    BY <1>1, <2>1, <2>2 DEF Work
  <2>5. v \in Work /\ v.k = j /\ v.out = w.out
    BY <2>3, <2>4 DEF Work
  <2>6. Frees(m, k, j)
    BY <1>1, <1>2, <1>5, <2>3 DEF Frees
  <2> QED
    BY <1>1, <2>3, <2>5, <2>6
<1> QED
  BY <1>4, <1>5

\* process_syn
LEMMA SynFacts ==
    ASSUME NEW s \in Socket, NEW w \in Work, NEW m \in Packet, m.dst = s, m.type \in {"SYN", "SYNACK"},
           NEW v, v = process_syn(s, w, m)
    PROVE  /\ v \in Work
           /\ w.k.state = "LISTEN" /\ m.type = "SYN" => Forward(w.k, v.k) /\ Listens(m, w.k, v.k)
           /\ w.k.state = "SYNSENT" /\ m.src = w.k.remote =>
                /\ v.k.ack = m.seq /\ v.k.state = w.k.state /\ v.k.remote = w.k.remote
                /\ v.k.seq = w.k.seq /\ v.k.receive = w.k.receive
                /\ v.k.receive_count = w.k.receive_count /\ v.k.data = w.k.data
                /\ v.k.alarm = w.k.alarm /\ v.k.synchonize = w.k.synchonize
           /\ w.k.state \notin {"LISTEN", "SYNSENT"} => v.k = w.k
           /\ \A p \in v.out : p \in w.out \/ Acknowledges(s, m, w.k, v.k, p) \/ Refuses(m, w.k, p)
<1>1. m.src \in Socket /\ m.seq \in Nat /\ w.k \in Struct
  BY DEF Packet, Work
<1>2. CASE w.k.state = "LISTEN"
  <2>1. v = [w EXCEPT !.k.state = "SYNRECEIVED", !.k.remote = m.src, !.k.ack = m.seq, !.k.synchonize = @ + 1]
    BY <1>2 DEF process_syn
  <2>2. PICK j : j = [w.k EXCEPT !.state = "SYNRECEIVED", !.remote = m.src, !.ack = m.seq, !.synchonize = @ + 1]
    OBVIOUS
  <2>3. j \in Struct
    <3>1. PICK n : n = w.k.synchonize + 1
      OBVIOUS
    <3>2. j = [w.k EXCEPT !.state = "SYNRECEIVED", !.remote = m.src, !.ack = m.seq, !.synchonize = n]
      BY <1>1, <2>2, <3>1 DEF Struct
    <3>3. n \in Nat
      BY <1>1, <3>1 DEF Struct
    <3> QED
      BY <1>1, <3>2, <3>3 DEF Struct, State
  <2>4. v = [w EXCEPT !.k = j]
    BY <1>1, <2>1, <2>2 DEF Work, Struct
  <2>5. v \in Work /\ v.k = j /\ v.out = w.out
    BY <2>3, <2>4 DEF Work
  <2>6. /\ j.state = "SYNRECEIVED" /\ j.remote = m.src /\ j.ack = m.seq
        /\ j.synchonize = w.k.synchonize + 1 /\ j.alarm = w.k.alarm /\ j.data = w.k.data
        /\ j.seq = w.k.seq /\ j.receive_count = w.k.receive_count /\ j.receive = w.k.receive
        /\ w.k.receive \in Nat
    BY <1>1, <2>2 DEF Struct
  <2>7. Forward(w.k, j)
    BY <1>2, <2>3, <2>6 DEF Forward, Moves
  <2> QED
    BY <1>2, <2>5, <2>6, <2>7 DEF Listens
<1>3. CASE w.k.state = "SYNSENT" /\ m.src = w.k.remote
  <2>1. PICK u : u = [w EXCEPT !.k.ack = m.seq]
    OBVIOUS
  <2>2. v = acknowledge(s, u)
    BY <1>3, <2>1 DEF process_syn, fromRemote
  <2>3. PICK j : j = [w.k EXCEPT !.ack = m.seq]
    OBVIOUS
  <2>4. /\ j \in Struct /\ j.ack = m.seq /\ j.state = w.k.state /\ j.remote = w.k.remote
        /\ j.seq = w.k.seq /\ j.receive = w.k.receive
        /\ j.receive_count = w.k.receive_count /\ j.data = w.k.data
        /\ j.alarm = w.k.alarm /\ j.synchonize = w.k.synchonize
    BY <1>1, <2>3 DEF Struct
  <2>5. u = [w EXCEPT !.k = j]
    BY <2>1, <2>3 DEF Work
  <2>6. u \in Work /\ u.k = j /\ u.out = w.out
    BY <2>4, <2>5 DEF Work
  <2>7. /\ v \in Work /\ v.k = u.k
        /\ \A p \in v.out : \/ p \in u.out
                            \/ /\ p.type = "ACK" /\ p.src = s /\ p.dst = u.k.remote
                               /\ p.seq = u.k.seq /\ p.ack = u.k.ack
    BY <1>1, <1>3, <2>2, <2>4, <2>6, AcknowledgeFacts
  <2> QED
    BY <1>1, <1>3, <2>4, <2>6, <2>7 DEF Acknowledges
<1>4. CASE w.k.state = "SYNSENT" /\ m.src # w.k.remote
  BY <1>4 DEF process_syn, fromRemote
<1>5. CASE w.k.state \notin {"LISTEN", "SYNSENT"} /\ m.src = w.k.remote
  <2>1. v = acknowledge(s, w)
    BY <1>5 DEF process_syn, fromRemote
  <2>2. /\ v \in Work /\ v.k = w.k
        /\ \A p \in v.out : \/ p \in w.out
                            \/ /\ p.type = "ACK" /\ p.src = s /\ p.dst = w.k.remote
                               /\ p.seq = w.k.seq /\ p.ack = w.k.ack
    BY <1>1, <1>5, <2>1, AcknowledgeFacts
  <2>3. w.k.ack \in Nat
    BY <1>1 DEF Struct
  <2> QED
    BY <1>5, <2>2, <2>3 DEF Acknowledges
<1>6. CASE w.k.state \notin {"LISTEN", "SYNSENT"} /\ m.src # w.k.remote
  <2>1. PICK p : p = [type |-> "FIN", src |-> m.dst, dst |-> m.src, seq |-> 1, ack |-> 1, data |-> FALSE]
    OBVIOUS
  <2>2. v = [w EXCEPT !.out = @ \cup {p}]
    BY <1>6, <2>1 DEF process_syn, fromRemote, signal_busy
  <2>3. p \in Packet
    BY <1>1, <2>1 DEF Packet, Type
  <2>4. v \in Work /\ v.k = w.k /\ v.out = w.out \cup {p}
    BY <2>2, <2>3 DEF Work
  <2>5. m.type \in {"SYN", "SYNACK"} => Refuses(m, w.k, p)
    BY <1>6, <2>1 DEF Refuses
  <2> QED
    BY <1>6, <2>4, <2>5
<1> QED
  BY <1>2, <1>3, <1>4, <1>5, <1>6
\* process_ack
LEMMA AckFacts ==
    ASSUME NEW s \in Socket, NEW w \in Work, NEW m \in Packet, m.type \in {"SYNACK", "ACK"},
           NEW v, v = process_ack(s, w, m)
    PROVE  /\ v \in Work /\ Forward(w.k, v.k)
           /\ v.k.remote = w.k.remote /\ v.k.synchonize = w.k.synchonize
           /\ v.k.state # "SYNRECEIVED" \/ v.k.state = w.k.state
           /\ v.k.alarm = w.k.alarm \/ Cancels(m, w.k, v.k)
           /\ (v.k.ack = w.k.ack /\ v.k.data = w.k.data) \/ Keeps(m, w.k, v.k) \/ Frees(m, w.k, v.k)
           /\ w.k.state = "SYNSENT" /\ v.k.state = "ESTABLISHED" =>
                 v.k.ack = m.seq /\ w.k.ack = m.seq /\ m.src = w.k.remote
           /\ w.k.state = "SYNSENT" => v.k.data = w.k.data /\ v.k.ack = w.k.ack
           /\ w.k.state = "SYNSENT" /\ m.src = w.k.remote /\ m.ack = w.k.seq /\ m.seq = w.k.ack =>
                 v.k.state = "ESTABLISHED"
           /\ \A p \in v.out : p \in w.out \/ Acknowledges(s, m, w.k, v.k, p)
<1>1. PICK k : k = w.k
  OBVIOUS
<1>2. k \in Struct /\ k.state \in State /\ k.ack \in Nat /\ k.receive \in Nat /\ m.seq \in Nat /\ m.src \in Socket
  BY <1>1 DEF Work, Struct, Packet
<1>3. CASE m.src # k.remote
  <2>1. v = w
    BY <1>1, <1>3 DEF process_ack, fromRemote
  <2> QED
    BY <1>1, <1>2, <1>3, <2>1 DEF Forward
<1>4. CASE m.src = k.remote
  <2>1. PICK u : u = IF k.seq = m.ack THEN [w EXCEPT !.k = acked(@, m)] ELSE w
    OBVIOUS
  <2>2. PICK x : x = IF m.data /\ u.k.ack = m.seq THEN acknowledge(s, u) ELSE u
    OBVIOUS
  <2>3. v = IF IsNext(x.k, m) THEN store(s, x, m) ELSE x
    BY <1>1, <1>4, <2>1, <2>2 DEF process_ack, fromRemote
  <2>4. /\ u \in Work /\ u.out = w.out /\ Forward(k, u.k)
        /\ u.k.remote = k.remote /\ u.k.ack = k.ack /\ u.k.data = k.data /\ u.k.receive = k.receive
        /\ u.k.synchonize = k.synchonize
        /\ u.k.alarm = k.alarm \/ (u.k.alarm = "SUCCESS" /\ m.ack = k.seq)
        /\ k.state = "SYNSENT" /\ u.k.state # "SYNSENT" => k.ack = m.seq
        /\ k.state = "SYNSENT" /\ m.ack = k.seq /\ k.ack = m.seq => u.k.state = "ESTABLISHED"
        /\ k.state # "SYNRECEIVED" => u.k.state # "SYNRECEIVED"
    <3>1. CASE k.seq # m.ack
      BY <1>1, <1>2, <2>1, <3>1 DEF Forward
    <3>2. CASE k.seq = m.ack
      <4>1. PICK j : j = acked(k, m)
        OBVIOUS
      <4>2. /\ Forward(k, j)
            /\ j.remote = k.remote /\ j.ack = k.ack /\ j.data = k.data /\ j.receive = k.receive
            /\ j.synchonize = k.synchonize
            /\ j.alarm = (IF k.alarm = "id" THEN "SUCCESS" ELSE k.alarm)
            /\ k.state = "SYNSENT" => j.state = IF k.ack = m.seq THEN "ESTABLISHED" ELSE "SYNSENT"
            /\ k.state # "SYNRECEIVED" => j.state # "SYNRECEIVED"
            /\ k.state # "SYNSENT" => j.state # "SYNSENT"
        BY <1>2, <4>1, AckedFacts
      <4>3. u = [w EXCEPT !.k = j]
        BY <1>1, <2>1, <3>2, <4>1
      <4>4. u \in Work /\ u.k = j /\ u.out = w.out
        BY <4>2, <4>3 DEF Work, Forward
      <4> QED
        BY <3>2, <4>2, <4>4
    <3> QED
      BY <3>1, <3>2
  <2>5. /\ x \in Work /\ x.k = u.k
        /\ \A p \in x.out : \/ p \in w.out
                            \/ /\ p.type = "ACK" /\ p.src = s /\ p.dst = k.remote
                               /\ p.seq = k.seq /\ p.ack = k.ack
    <3>1. CASE m.data /\ u.k.ack = m.seq
      <4>1. x = acknowledge(s, u)
        BY <2>2, <3>1
      <4>2. /\ x \in Work /\ x.k = u.k
            /\ \A p \in x.out : \/ p \in u.out
                                \/ /\ p.type = "ACK" /\ p.src = s /\ p.dst = u.k.remote
                                   /\ p.seq = u.k.seq /\ p.ack = u.k.ack
        BY <4>1, <1>2, <1>4, <2>4, AcknowledgeFacts
      <4> QED
        BY <4>2, <2>4 DEF Forward
    <3>2. CASE ~(m.data /\ u.k.ack = m.seq)
      BY <2>2, <2>4, <3>2
    <3> QED
      BY <3>1, <3>2
  <2>6. u.k.seq = k.seq /\ u.k.receive_count = k.receive_count /\ u.k.state \in State
    BY <2>4 DEF Forward, Struct
  <2>7. CASE ~IsNext(x.k, m)
    <3>1. v = x
      BY <2>3, <2>7
    <3> QED
      BY <1>1, <1>2, <1>4, <2>4, <2>5, <3>1 DEF Cancels, Acknowledges
  <2>8. CASE IsNext(x.k, m)
    <3>1. v = store(s, x, m) /\ x.k.state = "ESTABLISHED" /\ m.seq = x.k.ack + 1
      BY <2>3, <2>8 DEF IsNext
    <3>2. /\ v \in Work
          /\ v.k.state = x.k.state /\ v.k.remote = x.k.remote /\ v.k.seq = x.k.seq
          /\ v.k.alarm = x.k.alarm /\ v.k.receive_count = x.k.receive_count
          /\ v.k.synchonize = x.k.synchonize /\ v.k.receive >= x.k.receive
          /\ Keeps(m, x.k, v.k) \/ Frees(m, x.k, v.k)
          /\ \A p \in v.out : p \in x.out \/ Acknowledges(s, m, x.k, v.k, p)
      BY <1>2, <1>4, <2>4, <2>5, <3>1, StoreFacts
    <3>3. k.state \in {"SYNRECEIVED", "ESTABLISHED"}
      <4>1. k.state # "SYNSENT"
        BY <1>2, <2>4, <2>5, <3>1
      <4>2. u.k.state = "ESTABLISHED"
        BY <2>4, <2>5, <3>1
      <4> QED
        BY <2>4, <4>1, <4>2 DEF Forward, Moves
    <3>4. Keeps(m, k, v.k) \/ Frees(m, k, v.k)
      BY <2>4, <2>5, <3>2, <3>3 DEF Keeps, Frees, Counts
    <3>5. v.k.ack \in Nat /\ k.ack <= v.k.ack
      BY <1>2, <3>4 DEF Keeps, Frees, Counts
    <3>6. \A p \in v.out : p \in w.out \/ Acknowledges(s, m, k, v.k, p)
      BY <1>2, <1>4, <2>4, <2>5, <2>6, <3>2, <3>5 DEF Acknowledges
    <3>7. Forward(k, v.k)
      BY <2>4, <2>5, <2>6, <3>2 DEF Forward, Work
    <3> QED
      BY <1>1, <1>4, <2>4, <2>5, <3>1, <3>2, <3>3, <3>4, <3>6, <3>7 DEF Cancels
  <2> QED
    BY <2>7, <2>8
<1> QED
  BY <1>3, <1>4
\* process_fin
LEMMA FinFacts ==
    ASSUME NEW s \in Socket, NEW w \in Work, NEW m \in Packet, NEW v, v = process_fin(s, w, m)
    PROVE  /\ v \in Work /\ Forward(w.k, v.k)
           /\ v.k.remote = w.k.remote /\ v.k.synchonize = w.k.synchonize
           /\ v.k.state = w.k.state \/ v.k.state = "TIMEWAIT"
           /\ v.k.alarm = w.k.alarm /\ v.k.data = w.k.data
           /\ v.k.ack = w.k.ack \/ (Counts(m, w.k, v.k) /\ w.k.state # "SYNRECEIVED")
           /\ \A p \in v.out : p \in w.out \/ Acknowledges(s, m, w.k, v.k, p)
<1>1. PICK k : k = w.k
  OBVIOUS
<1>2. /\ k \in Struct /\ k.state \in State /\ k.ack \in Nat /\ k.receive \in Nat /\ k.receive_count \in Nat
      /\ m.seq \in Nat /\ m.src \in Socket
  BY <1>1 DEF Work, Struct, Packet
<1>3. PICK n : n = k.ack + 1
  OBVIOUS
<1>4. PICK i : i = [k EXCEPT !.ack = n]
  OBVIOUS
<1>5. /\ i \in Struct /\ i.ack = n /\ i.state = k.state /\ i.remote = k.remote /\ i.seq = k.seq
      /\ i.alarm = k.alarm /\ i.data = k.data /\ i.receive = k.receive
      /\ i.receive_count = k.receive_count /\ i.synchonize = k.synchonize
  BY <1>2, <1>3, <1>4 DEF Struct
<1>6. CASE v = w
  BY <1>1, <1>2, <1>6 DEF Forward
<1>7. CASE k.state = "SYNSENT" /\ v = [w EXCEPT !.k.state = "TIMEWAIT"]
  <2>1. PICK j : j = [k EXCEPT !.state = "TIMEWAIT"]
    OBVIOUS
  <2>2. /\ j \in Struct /\ j.state = "TIMEWAIT" /\ j.remote = k.remote /\ j.seq = k.seq /\ j.ack = k.ack
        /\ j.alarm = k.alarm /\ j.data = k.data /\ j.receive = k.receive
        /\ j.receive_count = k.receive_count /\ j.synchonize = k.synchonize
    BY <1>2, <2>1 DEF Struct, State
  <2>3. v = [w EXCEPT !.k = j]
    BY <1>1, <1>7, <2>1 DEF Work
  <2>4. v \in Work /\ v.k = j /\ v.out = w.out
    BY <2>2, <2>3 DEF Work
  <2> QED
    BY <1>1, <1>2, <1>7, <2>2, <2>4 DEF Forward, Moves
<1>8. CASE /\ m.src = k.remote /\ k.state = "ESTABLISHED" /\ k.ack + 1 = m.seq
           /\ v = [acknowledge(s, [[w EXCEPT !.k.ack = @ + 1] EXCEPT !.k.state = "TIMEWAIT"])
                      EXCEPT !.k = unblocked(@)]
  <2>1. PICK u : u = [w EXCEPT !.k.ack = @ + 1]
    OBVIOUS
  <2>2. u = [w EXCEPT !.k = i]
    BY <1>1, <1>3, <1>4, <2>1 DEF Work
  <2>3. u \in Work /\ u.k = i /\ u.out = w.out
    BY <1>5, <2>2 DEF Work
  <2>4. PICK x : x = [u EXCEPT !.k.state = "TIMEWAIT"]
    OBVIOUS
  <2>5. PICK j : j = [i EXCEPT !.state = "TIMEWAIT"]
    OBVIOUS
  <2>6. /\ j \in Struct /\ j.state = "TIMEWAIT" /\ j.remote = k.remote /\ j.seq = k.seq /\ j.ack = n
        /\ j.alarm = k.alarm /\ j.data = k.data /\ j.receive = k.receive
        /\ j.receive_count = k.receive_count /\ j.synchonize = k.synchonize
    BY <1>5, <2>5 DEF Struct, State
  <2>7. x = [u EXCEPT !.k = j]
    BY <2>3, <2>4, <2>5 DEF Work
  <2>8. x \in Work /\ x.k = j /\ x.out = w.out
    BY <2>3, <2>6, <2>7 DEF Work
  <2>9. PICK y : y = acknowledge(s, x)
    OBVIOUS
  <2>10. /\ y \in Work /\ y.k = j
         /\ \A p \in y.out : \/ p \in w.out
                             \/ /\ p.type = "ACK" /\ p.src = s /\ p.dst = k.remote
                                /\ p.seq = k.seq /\ p.ack = n
    BY <1>2, <1>8, <2>6, <2>8, <2>9, AcknowledgeFacts
  <2>11. PICK z, r : r = j.receive + j.receive_count /\ z = [j EXCEPT !.receive = r]
    OBVIOUS
  <2>12. r \in Nat /\ r >= k.receive
    BY <1>2, <2>6, <2>11
  <2>13. /\ z \in Struct /\ z.state = "TIMEWAIT" /\ z.remote = k.remote /\ z.seq = k.seq /\ z.ack = n
         /\ z.alarm = k.alarm /\ z.data = k.data /\ z.receive = r
         /\ z.receive_count = k.receive_count /\ z.synchonize = k.synchonize
    BY <2>6, <2>11, <2>12 DEF Struct
  <2>14. v = [y EXCEPT !.k = unblocked(@)]
    BY <1>8, <2>1, <2>4, <2>9
  <2>15. z = unblocked(j)
    BY <2>6, <2>11 DEF unblocked
  <2>16. v = [y EXCEPT !.k = z]
    BY <2>10, <2>14, <2>15
  <2>17. v \in Work /\ v.k = z /\ v.out = y.out
    BY <2>10, <2>13, <2>16 DEF Work
  <2>18. Counts(m, k, z) /\ Forward(k, z)
    BY <1>2, <1>3, <1>8, <2>12, <2>13 DEF Counts, Forward, Moves
  <2>19. \A p \in v.out : p \in w.out \/ Acknowledges(s, m, k, z, p)
    BY <1>2, <1>3, <1>8, <2>10, <2>13, <2>17 DEF Acknowledges
  <2> QED
    BY <1>1, <1>8, <2>13, <2>17, <2>18, <2>19
<1>9. CASE /\ m.src = k.remote /\ k.state = "LASTACK" /\ k.ack + 1 = m.seq
           /\ v = acknowledge(s, [w EXCEPT !.k.ack = @ + 1])
  <2>1. PICK u : u = [w EXCEPT !.k.ack = @ + 1]
    OBVIOUS
  <2>2. u = [w EXCEPT !.k = i]
    BY <1>1, <1>3, <1>4, <2>1 DEF Work
  <2>3. u \in Work /\ u.k = i /\ u.out = w.out
    BY <1>5, <2>2 DEF Work
  <2>4. /\ v \in Work /\ v.k = i
        /\ \A p \in v.out : \/ p \in w.out
                            \/ /\ p.type = "ACK" /\ p.src = s /\ p.dst = k.remote
                               /\ p.seq = k.seq /\ p.ack = n
    <3>1. v = acknowledge(s, u)
      BY <1>9, <2>1
    <3>2. u.k.remote \in Socket /\ u \in Work
      BY <1>2, <1>5, <1>9, <2>3
    <3>3. /\ v \in Work /\ v.k = u.k
          /\ \A p \in v.out : \/ p \in u.out
                              \/ /\ p.type = "ACK" /\ p.src = s /\ p.dst = u.k.remote
                                 /\ p.seq = u.k.seq /\ p.ack = u.k.ack
      BY <3>1, <3>2, AcknowledgeFacts
    <3> QED
      BY <1>5, <2>3, <3>3
  <2>5. Counts(m, k, i) /\ Forward(k, i)
    BY <1>2, <1>3, <1>5, <1>9 DEF Counts, Forward
  <2>6. \A p \in v.out : p \in w.out \/ Acknowledges(s, m, k, i, p)
    BY <1>2, <1>3, <1>5, <1>9, <2>4 DEF Acknowledges
  <2> QED
    BY <1>1, <1>5, <1>9, <2>4, <2>5, <2>6
<1>10. CASE m.src = k.remote /\ v = acknowledge(s, w)
  <2>1. /\ v \in Work /\ v.k = w.k
        /\ \A p \in v.out : \/ p \in w.out
                            \/ /\ p.type = "ACK" /\ p.src = s /\ p.dst = w.k.remote
                               /\ p.seq = w.k.seq /\ p.ack = w.k.ack
    BY <1>1, <1>2, <1>10, AcknowledgeFacts
  <2> QED
    BY <1>1, <1>2, <1>10, <2>1 DEF Forward, Acknowledges
<1>11. \/ v = w
       \/ k.state = "SYNSENT" /\ v = [w EXCEPT !.k.state = "TIMEWAIT"]
       \/ /\ m.src = k.remote /\ k.state = "ESTABLISHED" /\ k.ack + 1 = m.seq
          /\ v = [acknowledge(s, [[w EXCEPT !.k.ack = @ + 1] EXCEPT !.k.state = "TIMEWAIT"])
                     EXCEPT !.k = unblocked(@)]
       \/ /\ m.src = k.remote /\ k.state = "LASTACK" /\ k.ack + 1 = m.seq
          /\ v = acknowledge(s, [w EXCEPT !.k.ack = @ + 1])
       \/ m.src = k.remote /\ v = acknowledge(s, w)
  <2> DEFINE wait == [w EXCEPT !.k.state = "TIMEWAIT"]
             ended == [acknowledge(s, [[w EXCEPT !.k.ack = @ + 1] EXCEPT !.k.state = "TIMEWAIT"])
                          EXCEPT !.k = unblocked(@)]
             last == acknowledge(s, [w EXCEPT !.k.ack = @ + 1])
             again == acknowledge(s, w)
  <2>1. v = IF ~(m.src = w.k.remote) THEN w
            ELSE CASE w.k.state = "SYNSENT" -> wait
                   [] w.k.state = "ESTABLISHED" /\ w.k.ack + 1 = m.seq -> ended
                   [] w.k.state = "LASTACK" /\ w.k.ack + 1 = m.seq -> last
                   [] w.k.state = "TIMEWAIT" /\ w.k.ack = m.seq -> again
                   [] OTHER -> w
    BY Zenon DEF process_fin, fromRemote
  <2> HIDE DEF wait, ended, last, again
  <2>2. \/ v = w
        \/ k.state = "SYNSENT" /\ v = wait
        \/ m.src = k.remote /\ k.state = "ESTABLISHED" /\ k.ack + 1 = m.seq /\ v = ended
        \/ m.src = k.remote /\ k.state = "LASTACK" /\ k.ack + 1 = m.seq /\ v = last
        \/ m.src = k.remote /\ v = again
    BY <1>1, <2>1
  <2> QED
    BY <2>2, Zenon DEF wait, ended, last, again
<1> QED
  BY <1>6, <1>7, <1>8, <1>9, <1>10, <1>11

(***************************************************************************)
(* minisocket_process_packet, as a whole.                                  *)
(***************************************************************************)
LEMMA ProcessFacts ==
    ASSUME IInv, NEW m \in net, m.dst \in exists, NEW v, v = process(m.dst, m)
    PROVE  /\ v \in Work /\ Reacts(m, skt[m.dst], v.k)
           /\ \A p \in v.out : \/ Acknowledges(m.dst, m, skt[m.dst], v.k, p)
                               \/ Refuses(m, skt[m.dst], p)
<1>1. PICK s, k, w : s = m.dst /\ k = skt[s] /\ w = [k |-> k, out |-> {}]
  OBVIOUS
<1>2. /\ s \in Socket /\ m \in Packet /\ k \in Struct /\ w \in Work /\ w.k = k /\ w.out = {}
      /\ m.type \in Type /\ m.seq \in Nat /\ k.ack \in Nat /\ k.seq \in Nat /\ k.state \in State
  <2>1. s \in Socket /\ m \in Packet /\ k \in Struct
    BY <1>1 DEF IInv, TypeInv
  <2> QED
    BY <1>1, <2>1 DEF Work, Packet, Struct
<1>3. CASE m.type = "SYN"
  <2>1. v = process_syn(s, w, m)
    BY <1>1, <1>3 DEF process
  <2>2. /\ v \in Work
        /\ k.state = "LISTEN" => Forward(k, v.k) /\ Listens(m, k, v.k)
        /\ k.state \notin {"LISTEN", "SYNSENT"} => v.k = k
        /\ \A p \in v.out : p \in w.out \/ Acknowledges(s, m, k, v.k, p) \/ Refuses(m, k, p)
    <3>1. m.dst = s /\ m.type \in {"SYN", "SYNACK"} /\ v = process_syn(s, w, m)
      BY <1>1, <1>3, <2>1
    <3>2. /\ v \in Work
          /\ w.k.state = "LISTEN" /\ m.type = "SYN" => Forward(w.k, v.k) /\ Listens(m, w.k, v.k)
          /\ w.k.state = "SYNSENT" /\ m.src = w.k.remote =>
               /\ v.k.ack = m.seq /\ v.k.state = w.k.state /\ v.k.remote = w.k.remote
               /\ v.k.seq = w.k.seq /\ v.k.receive = w.k.receive
               /\ v.k.receive_count = w.k.receive_count /\ v.k.data = w.k.data
               /\ v.k.alarm = w.k.alarm /\ v.k.synchonize = w.k.synchonize
          /\ w.k.state \notin {"LISTEN", "SYNSENT"} => v.k = w.k
          /\ \A p \in v.out : p \in w.out \/ Acknowledges(s, m, w.k, v.k, p) \/ Refuses(m, w.k, p)
      BY <1>2, <3>1, SynFacts
    <3> QED
      BY <1>2, <1>3, <3>2
  <2>3. k.state # "SYNSENT"
    BY <1>1, <1>2, <1>3 DEF IInv, RoleInv, ServerInv
  <2>4. Reacts(m, k, v.k)
    <3>1. CASE k.state = "LISTEN"
      BY <2>2, <3>1 DEF Reacts
    <3>2. CASE k.state # "LISTEN"
      <4>1. k.receive \in Nat
        BY <1>2 DEF Struct
      <4> QED
        BY <1>2, <2>2, <2>3, <3>2, <4>1 DEF Reacts, Forward
    <3> QED
      BY <3>1, <3>2
  <2> QED
    BY <1>1, <1>2, <2>2, <2>4
<1>4. CASE m.type = "SYNACK"
  <2>1. PICK x : x = process_syn(s, w, m)
    OBVIOUS
  <2>2. v = process_ack(s, x, m)
    BY <1>1, <1>4, <2>1 DEF process
  <2>3. s \in Client /\ m.src = Server /\ m.ack = 1 /\ k.remote = Server /\ k.state \notin {"LISTEN", "SYNRECEIVED"}
    <3>1. m.src = Server /\ m.ack = 1 /\ s # Server
      BY <1>1, <1>4 DEF IInv, RoleInv
    <3>2. s \in Client /\ app[s] # "new"
      BY <1>1, <1>2, <3>1 DEF Socket, IInv, CallInv, CallOf
    <3> QED
      BY <1>1, <3>1, <3>2 DEF IInv, RoleInv, RoleOf
  <2>4. /\ x \in Work
        /\ k.state = "SYNSENT" =>
             /\ x.k.ack = m.seq /\ x.k.state = k.state /\ x.k.remote = k.remote
             /\ x.k.seq = k.seq /\ x.k.receive = k.receive
             /\ x.k.receive_count = k.receive_count /\ x.k.data = k.data
             /\ x.k.alarm = k.alarm /\ x.k.synchonize = k.synchonize
        /\ k.state # "SYNSENT" => x.k = k
        /\ \A p \in x.out : p \in w.out \/ Acknowledges(s, m, k, x.k, p) \/ Refuses(m, k, p)
    <3>1. m.dst = s /\ m.type \in {"SYN", "SYNACK"} /\ x = process_syn(s, w, m)
      BY <1>1, <1>4, <2>1
    <3>2. /\ x \in Work
          /\ w.k.state = "LISTEN" /\ m.type = "SYN" => Forward(w.k, x.k) /\ Listens(m, w.k, x.k)
          /\ w.k.state = "SYNSENT" /\ m.src = w.k.remote =>
               /\ x.k.ack = m.seq /\ x.k.state = w.k.state /\ x.k.remote = w.k.remote
               /\ x.k.seq = w.k.seq /\ x.k.receive = w.k.receive
               /\ x.k.receive_count = w.k.receive_count /\ x.k.data = w.k.data
               /\ x.k.alarm = w.k.alarm /\ x.k.synchonize = w.k.synchonize
          /\ w.k.state \notin {"LISTEN", "SYNSENT"} => x.k = w.k
          /\ \A p \in x.out : p \in w.out \/ Acknowledges(s, m, w.k, x.k, p) \/ Refuses(m, w.k, p)
      BY <1>2, <3>1, SynFacts
    <3> QED
      BY <1>2, <1>4, <2>3, <3>2
  <2>5. /\ x.k.ack = IF k.state = "SYNSENT" THEN m.seq ELSE k.ack
        /\ x.k.state = k.state /\ x.k.remote = k.remote /\ x.k.seq = k.seq /\ x.k.receive = k.receive
        /\ x.k.receive_count = k.receive_count /\ x.k.data = k.data /\ x.k.alarm = k.alarm
        /\ x.k.synchonize = k.synchonize
    BY <2>4
  <2>6. /\ v \in Work /\ Forward(x.k, v.k)
        /\ v.k.remote = x.k.remote /\ v.k.synchonize = x.k.synchonize
        /\ v.k.state # "SYNRECEIVED" \/ v.k.state = x.k.state
        /\ v.k.alarm = x.k.alarm \/ Cancels(m, x.k, v.k)
        /\ (v.k.ack = x.k.ack /\ v.k.data = x.k.data) \/ Keeps(m, x.k, v.k) \/ Frees(m, x.k, v.k)
        /\ x.k.state = "SYNSENT" => v.k.data = x.k.data /\ v.k.ack = x.k.ack
        /\ x.k.state = "SYNSENT" /\ m.src = x.k.remote /\ m.ack = x.k.seq /\ m.seq = x.k.ack =>
              v.k.state = "ESTABLISHED"
        /\ \A p \in v.out : p \in x.out \/ Acknowledges(s, m, x.k, v.k, p)
    BY <1>2, <1>4, <2>2, <2>4, AckFacts
  <2>7. Forward(k, v.k) /\ (v.k.alarm = k.alarm \/ Cancels(m, k, v.k)) /\ v.k \in Struct
    BY <2>5, <2>6 DEF Forward, Cancels
  <2>8. v.k.ack \in Nat /\ x.k.ack <= v.k.ack
    <3>1. x.k.ack \in Nat /\ v.k.ack \in Nat
      BY <1>2, <2>5, <2>7 DEF Struct
    <3> QED
      BY <2>6, <3>1 DEF Keeps, Frees, Counts
  <2>9. \A p \in v.out : Acknowledges(s, m, k, v.k, p)
    <3> SUFFICES ASSUME NEW p \in v.out PROVE Acknowledges(s, m, k, v.k, p)
      OBVIOUS
    <3>1. CASE p \in x.out
      <4>1. Acknowledges(s, m, k, x.k, p)
        BY <1>2, <2>3, <2>4, <3>1 DEF Refuses
      <4>2. p \in Packet /\ p.ack \in Nat /\ x.k.ack \in Nat
        BY <1>2, <2>4, <2>5, <3>1 DEF Work, Packet
      <4> QED
        BY <2>8, <4>1, <4>2 DEF Acknowledges
    <3>2. CASE Acknowledges(s, m, x.k, v.k, p)
      BY <2>5, <3>2 DEF Acknowledges
    <3> QED
      BY <2>6, <3>1, <3>2
  <2>10. Reacts(m, k, v.k)
    <3>1. CASE k.state = "SYNSENT"
      <4>1. k.seq = 1
        BY <1>1, <2>3, <3>1 DEF IInv, RoleInv, RoleOf
      <4> QED
        BY <1>4, <2>3, <2>5, <2>6, <2>7, <3>1, <4>1 DEF Reacts, Answered
    <3>2. CASE k.state # "SYNSENT"
      <4>1. x.k = k
        BY <2>4, <3>2
      <4> QED
        BY <2>6, <3>2, <4>1 DEF Reacts, Keeps
    <3> QED
      BY <3>1, <3>2
  <2> QED
    BY <1>1, <2>6, <2>9, <2>10
<1>5. CASE m.type = "ACK"
  <2>1. v = process_ack(s, w, m)
    BY <1>1, <1>5 DEF process
  <2>2. /\ v \in Work /\ Forward(w.k, v.k)
        /\ v.k.remote = w.k.remote /\ v.k.synchonize = w.k.synchonize
        /\ v.k.state # "SYNRECEIVED" \/ v.k.state = w.k.state
        /\ v.k.alarm = w.k.alarm \/ Cancels(m, w.k, v.k)
        /\ (v.k.ack = w.k.ack /\ v.k.data = w.k.data) \/ Keeps(m, w.k, v.k) \/ Frees(m, w.k, v.k)
        /\ w.k.state = "SYNSENT" /\ v.k.state = "ESTABLISHED" =>
              v.k.ack = m.seq /\ w.k.ack = m.seq /\ m.src = w.k.remote
        /\ \A p \in v.out : p \in w.out \/ Acknowledges(s, m, w.k, v.k, p)
    BY <1>2, <1>5, <2>1, AckFacts
  <2> QED
    BY <1>1, <1>2, <2>2 DEF Reacts
<1>6. CASE m.type = "FIN"
  <2>1. v = process_fin(s, w, m)
    BY <1>1, <1>6 DEF process
  <2>2. /\ v \in Work /\ Forward(w.k, v.k)
        /\ v.k.remote = w.k.remote /\ v.k.synchonize = w.k.synchonize
        /\ v.k.state = w.k.state \/ v.k.state = "TIMEWAIT"
        /\ v.k.alarm = w.k.alarm /\ v.k.data = w.k.data
        /\ v.k.ack = w.k.ack \/ (Counts(m, w.k, v.k) /\ w.k.state # "SYNRECEIVED")
        /\ \A p \in v.out : p \in w.out \/ Acknowledges(s, m, w.k, v.k, p)
    BY <1>2, <2>1, FinFacts
  <2> QED
    BY <1>1, <1>2, <2>2 DEF Reacts
<1> QED
  BY <1>2, <1>3, <1>4, <1>5, <1>6 DEF Type
-----------------------------------------------------------------------------
(***************************************************************************)
(* What each action does to the socket it is about; no other is touched.   *)
(***************************************************************************)
Elsewhere(f, g, s) == \A u \in Socket : u # s => g[u] = f[u]

\* Who has a peer: the server once it was asked, a client once it was created.
LEMMA Peer ==
    ASSUME IInv, NEW s \in Socket,
           app[s] \notin {"new", "listen"} \/ (app[s] = "listen" /\ skt[s].state # "LISTEN")
    PROVE  skt[s].remote \in Socket /\ (s = Server <=> skt[s].remote # Server)
<1>1. skt[s].remote \in Socket \cup {NoSocket}
  BY DEF IInv, TypeInv, Struct
<1>2. CASE s = Server
  BY <1>1, <1>2 DEF IInv, ServerInv
<1>3. CASE s \in Client
  BY <1>1, <1>3, SocketAssumption DEF IInv, RoleInv, RoleOf, Socket
<1> QED
  BY <1>2, <1>3 DEF Socket

\* Begin
LEMMA BeginFacts ==
    ASSUME TypeInv, NEW s \in Socket, NEW k \in Struct, k.remote \in Socket, NEW type \in Type,
           NEW data \in BOOLEAN, Begin(s, k, type, data)
    PROVE  /\ skt' \in [Socket -> Struct] /\ tx' \in [Socket -> TxType]
           /\ Elsewhere(skt, skt', s) /\ Elsewhere(tx, tx', s)
           /\ skt'[s].seq = k.seq + 1 /\ skt'[s].state = k.state /\ skt'[s].remote = k.remote
           /\ skt'[s].ack = k.ack /\ skt'[s].alarm = k.alarm /\ skt'[s].data = k.data
           /\ skt'[s].receive = k.receive /\ skt'[s].receive_count = k.receive_count
           /\ skt'[s].synchonize = k.synchonize
           /\ tx'[s].at = "send" /\ tx'[s].hdr.type = type
           /\ tx'[s].hdr.src = s /\ tx'[s].hdr.dst = k.remote /\ tx'[s].hdr.seq = k.seq + 1
           /\ tx'[s].hdr.ack = k.ack
<1>1. PICK n, j : n = k.seq + 1 /\ j = [k EXCEPT !.seq = n]
  OBVIOUS
<1>2. PICK h : h = packhdr(s, j, type, data)
  OBVIOUS
<1>3. n \in Nat
  BY <1>1 DEF Struct
<1>4. /\ j \in Struct /\ j.seq = n
      /\ j.state = k.state /\ j.remote = k.remote /\ j.ack = k.ack /\ j.alarm = k.alarm /\ j.data = k.data
      /\ j.receive = k.receive /\ j.receive_count = k.receive_count /\ j.synchonize = k.synchonize
      /\ k.ack \in Nat
  BY <1>1, <1>3 DEF Struct
<1>5. /\ h \in Packet /\ h.type = type /\ h.src = s /\ h.dst = k.remote /\ h.seq = n /\ h.ack = k.ack
  BY <1>2, <1>3, <1>4 DEF packhdr, Packet
<1>6. PICK e : e = [at |-> "send", hdr |-> h, try |-> 1]
  OBVIOUS
<1>7. e \in TxType /\ e.at = "send" /\ e.hdr = h
  BY <1>5, <1>6 DEF TxType
<1>8. skt' = [skt EXCEPT ![s] = j] /\ tx' = [tx EXCEPT ![s] = e]
  BY <1>1, <1>2, <1>6 DEF Begin, Set
<1>9. skt'[s] = j /\ tx'[s] = e /\ skt' \in [Socket -> Struct] /\ tx' \in [Socket -> TxType]
  BY <1>4, <1>7, <1>8 DEF TypeInv
<1>10. Elsewhere(skt, skt', s) /\ Elsewhere(tx, tx', s)
  BY <1>8 DEF TypeInv, Elsewhere
<1> QED
  BY <1>1, <1>4, <1>5, <1>7, <1>9, <1>10

\* Return
LEMMA ReturnFacts ==
    ASSUME TypeInv, NEW s \in Socket, NEW ok \in BOOLEAN, tx[s].at # "idle", Return(s, ok)
    PROVE  /\ tx' \in [Socket -> TxType] /\ tx'[s].at = "idle" /\ Elsewhere(tx, tx', s)
           /\ app' \in [Socket -> {"new", "listen", "check", "creating", "failed", "open", "send", "sending"}]
           /\ cls' \in [Socket -> {"no", "unblock", "fin", "transmit", "done"}]
           /\ sentOk' \in [Socket -> SUBSET Nat] /\ closing' \subseteq Socket /\ cleanup' \in [Socket -> Nat]
           /\ Elsewhere(app, app', s) /\ Elsewhere(cls, cls', s) /\ Elsewhere(sentOk, sentOk', s)
           /\ tx[s].hdr.type \in Type
           /\ tx[s].hdr.type = "SYN" => app'[s] \in {"open", "failed"} /\ UNCHANGED <<cls, sentOk>>
           /\ tx[s].hdr.type = "SYNACK" => app'[s] = "check" /\ UNCHANGED <<cls, sentOk>>
           /\ tx[s].hdr.type = "ACK" =>
                /\ app'[s] = "open" /\ UNCHANGED cls
                /\ sentOk'[s] = IF ok THEN sentOk[s] \cup {tx[s].hdr.seq} ELSE sentOk[s]
           /\ tx[s].hdr.type = "FIN" => cls'[s] = "done" /\ UNCHANGED <<app, sentOk>>
           /\ closing' = closing \/ (tx[s].hdr.type \in {"SYN", "FIN"} /\ closing' = closing \cup {s})
<1>1. PICK h, type : h = tx[s].hdr /\ type = h.type
  OBVIOUS
<1>2. h \in Packet /\ type \in Type /\ h.seq \in Nat
  BY <1>1 DEF TypeInv, TxType, Packet, Idle
<1>3. tx' = [tx EXCEPT ![s] = Idle]
  BY DEF Return
<1>4. tx' \in [Socket -> TxType] /\ tx'[s].at = "idle" /\ Elsewhere(tx, tx', s)
  BY <1>3 DEF TypeInv, TxType, Idle, Elsewhere
<1>5. CASE type = "SYN"
  <2>1. /\ app' = [app EXCEPT ![s] = IF ok THEN "open" ELSE "failed"]
        /\ closing' = IF ok THEN closing ELSE closing \cup {s}
        /\ UNCHANGED <<cls, cleanup, sentOk>>
    BY <1>1, <1>5 DEF Return, Goto
  <2> QED
    BY <1>1, <1>4, <1>5, <2>1 DEF TypeInv, Elsewhere, Type
<1>6. CASE type = "SYNACK"
  <2>1. app' = [app EXCEPT ![s] = "check"] /\ UNCHANGED <<cls, closing, cleanup, sentOk>>
    BY <1>1, <1>6 DEF Return, Goto
  <2> QED
    BY <1>1, <1>4, <1>6, <2>1 DEF TypeInv, Elsewhere, Type
<1>7. CASE type = "ACK"
  <2>1. /\ app' = [app EXCEPT ![s] = "open"]
        /\ sentOk' = IF ok THEN [sentOk EXCEPT ![s] = @ \cup {h.seq}] ELSE sentOk
        /\ UNCHANGED <<cls, closing, cleanup>>
    BY <1>1, <1>7 DEF Return, Goto
  <2> QED
    BY <1>1, <1>2, <1>4, <1>7, <2>1 DEF TypeInv, Elsewhere, Type
<1>8. CASE type = "FIN"
  <2>1. /\ cls' = [cls EXCEPT ![s] = "done"] /\ cleanup' = [cleanup EXCEPT ![s] = @ + 1]
        /\ closing' = closing \cup {s} /\ UNCHANGED <<app, sentOk>>
    BY <1>1, <1>8 DEF Return
  <2> QED
    BY <1>1, <1>4, <1>8, <2>1 DEF TypeInv, Elsewhere, Type
<1> QED
  BY <1>2, <1>5, <1>6, <1>7, <1>8 DEF Type
\* Only the socket s and its threads are touched.
OnlyOf(s) == /\ Elsewhere(skt, skt', s) /\ Elsewhere(tx, tx', s) /\ Elsewhere(app, app', s)
             /\ Elsewhere(rcv, rcv', s) /\ Elsewhere(cls, cls', s)
             /\ Elsewhere(sentOk, sentOk', s) /\ Elsewhere(read, read', s)
             /\ exists' \subseteq exists \cup {s} /\ closing' \subseteq closing \cup {s}

LEMMA SetFacts ==
    ASSUME TypeInv, NEW s \in Socket, NEW k \in Struct, Set(s, k)
    PROVE  skt' \in [Socket -> Struct] /\ skt'[s] = k /\ Elsewhere(skt, skt', s)
BY DEF TypeInv, Set, Elsewhere

\* What each socket has for itself is kept on the others.
LEMMA OthersKept ==
    ASSUME IInv, NEW s \in Socket, TypeInv', OnlyOf(s), skt'[s].ack >= skt[s].ack,
           CallOf(s)', TransmitOf(s)', ReadOf(s)', WakeOf(s)'
    PROVE  CallInv' /\ TransmitInv' /\ ReadInv' /\ WakeInv'
<1> SUFFICES ASSUME NEW u \in Socket, u # s
             PROVE  CallOf(u)' /\ TransmitOf(u)' /\ ReadOf(u)' /\ WakeOf(u)'
  BY DEF CallInv, TransmitInv, ReadInv, WakeInv
<1>1. /\ skt'[u] = skt[u] /\ tx'[u] = tx[u] /\ app'[u] = app[u] /\ rcv'[u] = rcv[u] /\ cls'[u] = cls[u]
      /\ sentOk'[u] = sentOk[u] /\ read'[u] = read[u] /\ (u \in exists' => u \in exists)
  BY DEF OnlyOf, Elsewhere
<1>2. CallOf(u) /\ TransmitOf(u) /\ ReadOf(u) /\ WakeOf(u)
  BY DEF IInv, CallInv, TransmitInv, ReadInv, WakeInv
<1>3. CallOf(u)'
  BY <1>1, <1>2 DEF CallOf, Returned
<1>4. TransmitOf(u)'
  <2>1. CASE tx[u].at # "idle"
    <3>1. skt[u].remote \in Socket
      <4>1. tx[u].hdr \in Packet /\ tx[u].hdr.dst = skt[u].remote
        BY <1>2, <2>1 DEF IInv, TypeInv, TransmitOf, TxType, Idle
      <4> QED
        BY <4>1 DEF Packet
    <3>2. /\ skt[skt[u].remote].ack \in Nat /\ skt'[skt[u].remote].ack \in Nat
          /\ skt[u].seq \in Nat /\ skt[s].ack \in Nat /\ skt'[s].ack \in Nat
      BY <3>1 DEF IInv, TypeInv, Struct
    <3>3. skt'[skt[u].remote].ack >= skt[skt[u].remote].ack
      BY <3>1, <3>2 DEF OnlyOf, Elsewhere
    <3> QED
      BY <1>1, <1>2, <3>2, <3>3 DEF TransmitOf
  <2> QED
    BY <1>1, <2>1 DEF TransmitOf
<1>5. ReadOf(u)'
  BY <1>1, <1>2 DEF ReadOf
<1>6. WakeOf(u)'
  BY <1>1, <1>2 DEF WakeOf
<1> QED
  BY <1>3, <1>4, <1>5, <1>6

(***************************************************************************)
(* What every action but ProcessPacket has to show: it takes no packet, so *)
(* no socket counts a transmission.                                        *)
(***************************************************************************)
Quiet(s) == /\ OnlyOf(s) /\ skt'[s].ack = skt[s].ack
            /\ skt'[s].seq \in {skt[s].seq, skt[s].seq + 1}
            /\ \/ skt'[s].remote = skt[s].remote
               \/ s \in Client /\ app[s] = "new" /\ skt'[s].remote = Server
            /\ skt'[s].state \in {"ESTABLISHED", "LASTACK"} => skt[s].state \in {"ESTABLISHED", "LASTACK"}
            /\ net' = net \/ (tx[s].at = "send" /\ net' = net \cup {tx[s].hdr})
            /\ sentOk'[s] = sentOk[s] \/ (/\ sentOk'[s] = sentOk[s] \cup {skt[s].seq}
                                          /\ tx[s].at = "wait" /\ skt[s].alarm = "SUCCESS")

Local(s) == /\ s = Server => ServerInv
            /\ s \in Client => RoleOf(s)
            /\ CallOf(s) /\ TransmitOf(s) /\ ReadOf(s) /\ WakeOf(s)

\* The header of a transmission is no packet that NetInv or RoleInv excludes.
LEMMA HeaderFacts ==
    ASSUME IInv, NEW s \in Socket, tx[s].at # "idle", NEW h, h = tx[s].hdr
    PROVE  /\ h \in Packet /\ h.src = s /\ h.dst = skt[s].remote /\ h.seq = skt[s].seq
           /\ h.seq > 0 /\ h.ack <= skt[s].ack /\ skt[s].remote \in Socket
           /\ h.src = Server <=> h.dst # Server
           /\ h.type = "SYN" => h.src # Server /\ h.seq = 1
           /\ h.type = "SYNACK" => h.src = Server /\ h.ack = 1
<1>1. h \in Packet
  BY DEF IInv, TypeInv, TxType, Idle
<1>2. TransmitOf(s) /\ CallOf(s)
  BY DEF IInv, TransmitInv, CallInv
<1>3. /\ h.src = s /\ h.dst = skt[s].remote /\ h.seq = skt[s].seq /\ h.seq > 0 /\ h.ack <= skt[s].ack
      /\ h.type = "SYN" => s \in Client /\ h.seq = 1
      /\ h.type = "SYNACK" => s = Server /\ h.ack = 1
  BY <1>2 DEF TransmitOf
<1>4. skt[s].remote \in Socket
  BY <1>1, <1>3 DEF Packet
<1>5. s = Server <=> skt[s].remote # Server
  <2>1. CASE s = Server
    BY <2>1 DEF IInv, ServerInv
  <2>2. CASE s \in Client
    <3>1. app[s] # "new"
      BY <1>2 DEF CallOf
    <3> QED
      BY <2>2, <3>1, SocketAssumption DEF IInv, RoleInv, RoleOf
  <2> QED
    BY <2>1, <2>2 DEF Socket
<1> QED
  BY <1>1, <1>3, <1>4, <1>5, SocketAssumption

LEMMA Frame ==
    ASSUME IInv, NEW s \in Socket, TypeInv', Quiet(s), Local(s)'
    PROVE  IInv'
<1>1. /\ \A u \in Socket : skt[u] \in Struct /\ skt'[u] \in Struct
      /\ \A u \in Socket : /\ skt[u].ack \in Nat /\ skt[u].seq \in Nat /\ skt'[u].seq \in Nat
                           /\ skt[u].remote \in Socket \cup {NoSocket}
  BY DEF IInv, TypeInv, Struct
<1>2. \A u \in Socket : u # s => skt'[u] = skt[u] /\ sentOk'[u] = sentOk[u] /\ app'[u] = app[u]
  BY DEF Quiet, OnlyOf, Elsewhere
<1>3. \A u \in Socket : /\ skt'[u].ack = skt[u].ack
                        /\ skt'[u].seq >= skt[u].seq
                        /\ \/ skt'[u].remote = skt[u].remote
                           \/ u \in Client /\ app[u] = "new" /\ skt'[u].remote = Server
                        /\ skt'[u].state \in {"ESTABLISHED", "LASTACK"} =>
                              skt[u].state \in {"ESTABLISHED", "LASTACK"}
  BY <1>1, <1>2 DEF Quiet
<1>4. Server \in Socket /\ Client \subseteq Socket /\ Server \notin Client /\ NoSocket \notin Socket
  BY SocketAssumption DEF Socket
<1>5. skt'[Server].remote = skt[Server].remote
  BY <1>3, <1>4
<1>6. CallInv' /\ TransmitInv' /\ ReadInv' /\ WakeInv'
  <2>1. skt'[s].ack >= skt[s].ack
    BY <1>1, <1>3
  <2>2. OnlyOf(s) /\ CallOf(s)' /\ TransmitOf(s)' /\ ReadOf(s)' /\ WakeOf(s)'
    BY DEF Quiet, Local
  <2> QED
    BY <2>1, <2>2, OthersKept
<1>7. \A m \in net' : \/ m \in net
                      \/ /\ m \in Packet /\ m.src = s /\ m.seq = skt[s].seq /\ m.seq > 0
                         /\ m.ack <= skt[s].ack
                         /\ m.src = Server <=> m.dst # Server
                         /\ m.type = "SYN" => m.src # Server /\ m.seq = 1
                         /\ m.type = "SYNACK" => m.src = Server /\ m.ack = 1
  <2>1. CASE tx[s].at = "send"
    BY <2>1, HeaderFacts DEF Quiet
  <2>2. CASE net' = net
    BY <2>2
  <2> QED
    BY <2>1, <2>2 DEF Quiet
<1>8. RoleInv'
  <2>1. ASSUME NEW c \in Client PROVE RoleOf(c)'
    <3>1. CASE c = s
      BY <3>1 DEF Local
    <3>2. CASE c # s
      BY <1>2, <1>4, <3>2 DEF IInv, RoleInv, RoleOf
    <3> QED
      BY <3>1, <3>2
  <2> QED
    BY <1>7, <2>1 DEF IInv, RoleInv
<1>9. ServerInv'
  <2>1. CASE s = Server
    BY <2>1 DEF Local
  <2>2. CASE s # Server
    <3>1. Server \in closing' => Server \in closing
      BY <2>2 DEF Quiet, OnlyOf
    <3> QED
      BY <1>2, <1>4, <2>2, <3>1 DEF IInv, ServerInv
  <2> QED
    BY <2>1, <2>2
<1>10. NetInv'
  <2>1. ASSUME NEW m \in net'
        PROVE  /\ m.seq <= skt'[m.src].seq \/ Refusal(m)'
               /\ m.type # "FIN" => m.ack <= skt'[m.src].ack
               /\ m.src = Server /\ m.seq = 0 /\ skt'[Server].seq = 0 => skt'[Server].remote = m.dst
    <3>1. CASE m \in net
      <4>1. m.src \in Socket /\ m.seq \in Nat /\ m.ack \in Nat
        BY <3>1 DEF IInv, TypeInv, Packet
      <4>2. /\ m.seq <= skt[m.src].seq \/ Refusal(m)
            /\ m.type # "FIN" => m.ack <= skt[m.src].ack
            /\ m.src = Server /\ m.seq = 0 /\ skt[Server].seq = 0 => skt[Server].remote = m.dst
        BY <3>1 DEF IInv, NetInv
      <4>3. Refusal(m) => Refusal(m)'
        BY <1>5 DEF Refusal
      <4>4. skt'[Server].seq = 0 => skt[Server].seq = 0
        BY <1>1, <1>3, <1>4
      <4>5. m.seq <= skt[m.src].seq => m.seq <= skt'[m.src].seq
        BY <1>1, <1>3, <4>1
      <4> QED
        BY <1>3, <1>5, <4>1, <4>2, <4>3, <4>4, <4>5
    <3>2. CASE m \notin net
      BY <1>1, <1>3, <1>7, <3>2
    <3> QED
      BY <3>1, <3>2
  <2>2. ASSUME NEW c \in Client, skt'[c].state \in {"ESTABLISHED", "LASTACK"}, skt'[c].ack = 0,
               skt'[Server].seq = 0
        PROVE  skt'[Server].remote = c
    <3>1. skt[c].state \in {"ESTABLISHED", "LASTACK"} /\ skt[c].ack = 0 /\ skt[Server].seq = 0
      BY <1>1, <1>3, <1>4, <2>2
    <3> QED
      BY <1>5, <3>1 DEF IInv, NetInv
  <2> QED
    BY <2>1, <2>2 DEF NetInv
<1>11. AckNotAhead'
  <2> SUFFICES ASSUME NEW u \in Socket, skt'[u].remote # NoSocket
               PROVE  skt'[u].ack <= skt'[skt'[u].remote].seq
    BY DEF AckNotAhead
  <2>1. CASE skt'[u].remote = skt[u].remote
    <3>1. skt[u].remote \in Socket /\ skt[u].ack <= skt[skt[u].remote].seq
      BY <1>1, <2>1 DEF IInv, AckNotAhead
    <3> QED
      BY <1>1, <1>3, <2>1, <3>1
  <2>2. CASE u \in Client /\ app[u] = "new" /\ skt'[u].remote = Server
    <3>1. skt[u].ack = 0
      BY <2>2 DEF IInv, CallInv, CallOf, NewSocket
    <3> QED
      BY <1>1, <1>3, <1>4, <2>2, <3>1
  <2> QED
    BY <1>3, <2>1, <2>2
<1>12. SuccessMeansTaken'
  <2> SUFFICES ASSUME NEW u \in Socket, NEW n \in sentOk'[u]
               PROVE  skt'[skt'[u].remote].ack >= n
    BY DEF SuccessMeansTaken
  <2>1. app[u] # "new" /\ skt[u].remote \in Socket /\ skt[skt[u].remote].ack >= n
    <3>1. CASE n \in sentOk[u]
      <4>1. app[u] \in {"open", "send", "sending"}
        BY <3>1 DEF IInv, CallInv, CallOf, Returned
      <4> QED
        BY <3>1, <4>1, Peer DEF IInv, SuccessMeansTaken
    <3>2. CASE n \notin sentOk[u]
      <4>1. u = s /\ n = skt[s].seq /\ tx[s].at = "wait" /\ skt[s].alarm = "SUCCESS"
        BY <1>2, <3>2 DEF Quiet
      <4>2. skt[s].remote \in Socket
        BY <4>1, HeaderFacts
      <4> QED
        BY <4>1, <4>2 DEF IInv, TransmitInv, TransmitOf, CallInv, CallOf
    <3> QED
      BY <3>1, <3>2
  <2> QED
    BY <1>3, <2>1
<1> QED
  BY <1>6, <1>8, <1>9, <1>10, <1>11, <1>12 DEF IInv
\* A transmission under way.
LEMMA UnderWay ==
    ASSUME IInv, NEW s \in Socket, tx[s].at # "idle"
    PROVE  /\ tx[s] \in [at : {"send", "wait"}, hdr : Packet, try : Nat]
           /\ app[s] \notin {"new", "listen"}
<1>1. tx[s] \in [at : {"send", "wait"}, hdr : Packet, try : Nat]
  BY DEF IInv, TypeInv, TxType, Idle
<1>2. app[s] # "new" /\ TransmitOf(s)
  BY DEF IInv, CallInv, CallOf, TransmitInv
<1>3. app[s] # "listen"
  <2>1. tx[s].hdr.type \in Type
    BY <1>1 DEF Packet
  <2>2. CASE tx[s].hdr.type = "FIN"
    <3>1. cls[s] # "no"
      BY <1>2, <2>2 DEF TransmitOf
    <3> QED
      BY <3>1 DEF IInv, CallInv, CallOf, Returned
  <2> QED
    BY <1>2, <2>1, <2>2 DEF TransmitOf, Type
<1> QED
  BY <1>1, <1>2, <1>3

\* RetryWait
LEMMA RetryWaitStep ==
    ASSUME IInv, NEW s \in Socket, RetryWait(s)
    PROVE  IInv'
<1>1. PICK k : k = [skt[s] EXCEPT !.alarm = "id"]
  OBVIOUS
<1>2. /\ k \in Struct /\ k.state = skt[s].state /\ k.remote = skt[s].remote /\ k.seq = skt[s].seq
      /\ k.ack = skt[s].ack /\ k.alarm = "id" /\ k.data = skt[s].data
      /\ k.receive = skt[s].receive /\ k.receive_count = skt[s].receive_count
      /\ k.synchonize = skt[s].synchonize
  BY <1>1, ZenonT(30) DEF IInv, TypeInv, Struct
<1>3. skt' \in [Socket -> Struct] /\ skt'[s] = k /\ Elsewhere(skt, skt', s)
  BY <1>1, <1>2, SetFacts DEF IInv, RetryWait
<1>4. /\ tx[s].at = "send" /\ tx[s].hdr \in Packet /\ tx' \in [Socket -> TxType] /\ Elsewhere(tx, tx', s)
      /\ tx'[s].at = "wait" /\ tx'[s].hdr = tx[s].hdr
  <2>1. PICK e : e = [tx[s] EXCEPT !.at = "wait"]
    OBVIOUS
  <2>2. tx' = [tx EXCEPT ![s] = e] /\ tx[s].at = "send"
    BY <2>1 DEF RetryWait
  <2>3. tx[s] \in [at : {"send", "wait"}, hdr : Packet, try : Nat]
    BY <2>2, UnderWay
  <2>4. e \in TxType /\ e.at = "wait" /\ e.hdr = tx[s].hdr /\ tx[s].hdr \in Packet
    BY <2>1, <2>3 DEF TxType
  <2> QED
    BY <2>2, <2>4 DEF IInv, TypeInv, Elsewhere
<1>5. net' = net \cup {tx[s].hdr} /\ UNCHANGED <<app, rcv, cls, endVars, ghosts>>
  BY DEF RetryWait
<1>6. TypeInv'
  BY <1>3, <1>4, <1>5 DEF IInv, TypeInv, endVars, ghosts
<1>7. Quiet(s)
  BY <1>2, <1>3, <1>4, <1>5 DEF Quiet, OnlyOf, Elsewhere, endVars, ghosts
<1>8. Local(s)'
  <2>1. (s = Server => ServerInv') /\ (s \in Client => RoleOf(s)')
    BY <1>2, <1>3, <1>5 DEF IInv, ServerInv, RoleInv, RoleOf, endVars
  <2>2. CallOf(s)'
    BY <1>2, <1>3, <1>4, <1>5 DEF IInv, CallInv, CallOf, Returned, endVars, ghosts
  <2>3. TransmitOf(s)'
    BY <1>2, <1>3, <1>4, <1>5 DEF IInv, TransmitInv, TransmitOf
  <2>4. ReadOf(s)' /\ WakeOf(s)'
    BY <1>2, <1>3, <1>5 DEF IInv, ReadInv, ReadOf, WakeInv, WakeOf, ghosts
  <2> QED
    BY <2>1, <2>2, <2>3, <2>4 DEF Local
<1> QED
  BY <1>6, <1>7, <1>8, Frame

\* RetryWakeup
LEMMA RetryWakeupStep ==
    ASSUME IInv, NEW s \in Socket, RetryWakeup(s)
    PROVE  IInv'
<1>1. PICK k : k = [skt[s] EXCEPT !.alarm = "WAKEUP"]
  OBVIOUS
<1>2. /\ k \in Struct /\ k.state = skt[s].state /\ k.remote = skt[s].remote /\ k.seq = skt[s].seq
      /\ k.ack = skt[s].ack /\ k.alarm = "WAKEUP" /\ k.data = skt[s].data
      /\ k.receive = skt[s].receive /\ k.receive_count = skt[s].receive_count
      /\ k.synchonize = skt[s].synchonize
  BY <1>1, ZenonT(30) DEF IInv, TypeInv, Struct
<1>3. skt' \in [Socket -> Struct] /\ skt'[s] = k /\ Elsewhere(skt, skt', s)
  BY <1>1, <1>2, SetFacts DEF IInv, RetryWakeup
<1>4. /\ tx[s].at = "wait" /\ tx' \in [Socket -> TxType] /\ Elsewhere(tx, tx', s)
      /\ tx'[s].at = "send" /\ tx'[s].hdr = tx[s].hdr
  <2>1. PICK n, e : n = tx[s].try + 1 /\ e = [tx[s] EXCEPT !.at = "send", !.try = n]
    OBVIOUS
  <2>2. tx[s].at = "wait"
    BY DEF RetryWakeup
  <2>3. tx[s] \in [at : {"send", "wait"}, hdr : Packet, try : Nat]
    BY <2>2, UnderWay
  <2>4. e \in TxType /\ e.at = "send" /\ e.hdr = tx[s].hdr
    <3>1. n \in Nat
      BY <2>1, <2>3
    <3> QED
      BY <2>1, <2>3, <3>1 DEF TxType
  <2>5. tx' = [tx EXCEPT ![s] = e]
    BY <2>1, <2>3 DEF RetryWakeup, IInv, TypeInv
  <2> QED
    BY <2>2, <2>4, <2>5 DEF IInv, TypeInv, Elsewhere
<1>5. UNCHANGED <<app, rcv, cls, endVars, net, ghosts>>
  BY DEF RetryWakeup
<1>6. TypeInv'
  BY <1>3, <1>4, <1>5 DEF IInv, TypeInv, endVars, ghosts
<1>7. Quiet(s)
  BY <1>2, <1>3, <1>4, <1>5 DEF Quiet, OnlyOf, Elsewhere, endVars, ghosts
<1>8. Local(s)'
  <2>1. (s = Server => ServerInv') /\ (s \in Client => RoleOf(s)')
    BY <1>2, <1>3, <1>5 DEF IInv, ServerInv, RoleInv, RoleOf, endVars
  <2>2. CallOf(s)'
    BY <1>2, <1>3, <1>4, <1>5 DEF IInv, CallInv, CallOf, Returned, endVars, ghosts
  <2>3. TransmitOf(s)'
    BY <1>2, <1>3, <1>4, <1>5 DEF IInv, TransmitInv, TransmitOf
  <2>4. ReadOf(s)' /\ WakeOf(s)'
    BY <1>2, <1>3, <1>5 DEF IInv, ReadInv, ReadOf, WakeInv, WakeOf, ghosts
  <2> QED
    BY <2>1, <2>2, <2>3, <2>4 DEF Local
<1> QED
  BY <1>6, <1>7, <1>8, Frame

\* What a call of minisocket_transmit that returns leaves to show.
LEMMA ReturnStep ==
    ASSUME IInv, NEW s \in Socket, NEW ok \in BOOLEAN, NEW k \in Struct, tx[s].at = "wait",
           ok => skt[s].alarm = "SUCCESS",
           Return(s, ok), skt' \in [Socket -> Struct], skt'[s] = k, Elsewhere(skt, skt', s),
           k.state = skt[s].state, k.remote = skt[s].remote, k.seq = skt[s].seq,
           k.ack = skt[s].ack, k.data = skt[s].data, k.receive = skt[s].receive,
           k.receive_count = skt[s].receive_count, k.synchonize = skt[s].synchonize,
           UNCHANGED <<rcv, exists, finAlarm, net, read>>
    PROVE  IInv'
<1>1. TypeInv /\ tx[s].at # "idle"
  BY DEF IInv
<1>2. /\ tx' \in [Socket -> TxType] /\ tx'[s].at = "idle" /\ Elsewhere(tx, tx', s)
      /\ app' \in [Socket -> {"new", "listen", "check", "creating", "failed", "open", "send", "sending"}]
      /\ cls' \in [Socket -> {"no", "unblock", "fin", "transmit", "done"}]
      /\ sentOk' \in [Socket -> SUBSET Nat] /\ closing' \subseteq Socket /\ cleanup' \in [Socket -> Nat]
      /\ Elsewhere(app, app', s) /\ Elsewhere(cls, cls', s) /\ Elsewhere(sentOk, sentOk', s)
      /\ tx[s].hdr.type \in Type
      /\ tx[s].hdr.type = "SYN" => app'[s] \in {"open", "failed"} /\ UNCHANGED <<cls, sentOk>>
      /\ tx[s].hdr.type = "SYNACK" => app'[s] = "check" /\ UNCHANGED <<cls, sentOk>>
      /\ tx[s].hdr.type = "ACK" =>
           /\ app'[s] = "open" /\ UNCHANGED cls
           /\ sentOk'[s] = IF ok THEN sentOk[s] \cup {tx[s].hdr.seq} ELSE sentOk[s]
      /\ tx[s].hdr.type = "FIN" => cls'[s] = "done" /\ UNCHANGED <<app, sentOk>>
      /\ closing' = closing \/ (tx[s].hdr.type \in {"SYN", "FIN"} /\ closing' = closing \cup {s})
  BY <1>1, ReturnFacts
<1>3. TransmitOf(s) /\ app[s] \notin {"new", "listen"}
  BY <1>1, UnderWay DEF IInv, TransmitInv
<1>4. TypeInv'
  BY <1>2 DEF IInv, TypeInv
<1>5. Quiet(s)
  <2>1. OnlyOf(s)
    BY <1>2 DEF OnlyOf, Elsewhere
  <2>2. sentOk'[s] = sentOk[s] \/ (/\ sentOk'[s] = sentOk[s] \cup {skt[s].seq}
                                   /\ tx[s].at = "wait" /\ skt[s].alarm = "SUCCESS")
    BY <1>2, <1>3 DEF Type, TransmitOf
  <2> QED
    BY <2>1, <2>2 DEF Quiet
<1>6. Local(s)'
  <2>1. s = Server => ServerInv'
    <3> SUFFICES ASSUME s = Server PROVE ServerInv'
      OBVIOUS
    <3>1. skt[s].seq > 0 /\ app'[s] # "listen" /\ app[s] # "new" /\ app[s] # "listen" /\ app'[s] # "new"
      BY <1>2, <1>3 DEF Type, TransmitOf
    <3>2. skt[s].state = "SYNRECEIVED" => app'[s] \in {"creating", "check"}
      <4>1. skt[s].state = "SYNRECEIVED" => app[s] \in {"creating", "check"} /\ cls[s] = "no"
        BY <3>1 DEF IInv, ServerInv, CallInv, CallOf
      <4> QED
        BY <1>2, <1>3, <4>1, SocketAssumption DEF Type, TransmitOf
    <3>3. Server \in closing' => app'[s] # "new" /\ skt[s].state \in {"LASTACK", "TIMEWAIT", "CLOSED"}
      <4>1. CASE Server \in closing
        BY <3>1, <4>1 DEF IInv, ServerInv
      <4>2. CASE tx[s].hdr.type = "FIN"
        BY <1>3, <3>1, <4>2 DEF IInv, CallInv, CallOf, TransmitOf
      <4>3. tx[s].hdr.type # "SYN"
        BY <1>3, SocketAssumption DEF TransmitOf
      <4> QED
        BY <1>2, <4>1, <4>2, <4>3
    <3> QED
      BY <3>1, <3>2, <3>3 DEF IInv, ServerInv
  <2>2. s \in Client => RoleOf(s)'
    BY <1>2, <1>3, SocketAssumption DEF IInv, RoleInv, RoleOf, Type, TransmitOf
  <2>3. CallOf(s)'
    <3>1. app'[s] # "new"
      BY <1>2, <1>3 DEF Type
    <3>2. cls'[s] # "no" => cls[s] # "no"
      BY <1>2, <1>3 DEF Type, TransmitOf
    <3>3. sentOk'[s] # {} \/ cls'[s] # "no" => Returned(s)'
      <4>1. Returned(s) /\ tx[s].hdr.type # "ACK" => tx[s].hdr.type = "FIN"
        BY <1>2, <1>3 DEF Type, TransmitOf, Returned
      <4>2. sentOk[s] # {} \/ cls[s] # "no" => Returned(s)
        BY DEF IInv, CallInv, CallOf
      <4> QED
        BY <1>2, <1>3, <3>2, <4>1, <4>2 DEF Returned, Type
    <3> QED
      BY <3>1, <3>2, <3>3 DEF IInv, CallInv, CallOf
  <2>4. TransmitOf(s)'
    BY <1>2 DEF TransmitOf
  <2>5. ReadOf(s)' /\ WakeOf(s)'
    BY DEF IInv, ReadInv, ReadOf, WakeInv, WakeOf
  <2> QED
    BY <2>1, <2>2, <2>3, <2>4, <2>5 DEF Local
<1> QED
  BY <1>4, <1>5, <1>6, Frame

\* Transmitted
LEMMA TransmittedStep ==
    ASSUME IInv, NEW s \in Socket, Transmitted(s)
    PROVE  IInv'
<1>1. PICK k : k = skt[s]
  OBVIOUS
<1>2. k \in Struct /\ skt' = skt /\ skt \in [Socket -> Struct] /\ Elsewhere(skt, skt', s)
  BY <1>1 DEF IInv, TypeInv, Transmitted, Elsewhere
<1>3. /\ tx[s].at = "wait" /\ skt[s].alarm = "SUCCESS" /\ Return(s, TRUE)
      /\ UNCHANGED <<rcv, exists, finAlarm, net, read>>
  BY DEF Transmitted
<1> QED
  BY <1>1, <1>2, <1>3, ReturnStep

\* GivenUp
LEMMA GivenUpStep ==
    ASSUME IInv, NEW s \in Socket, GivenUp(s)
    PROVE  IInv'
<1>1. PICK k : k = [skt[s] EXCEPT !.alarm = "SUCCESS"]
  OBVIOUS
<1>2. /\ k \in Struct /\ k.state = skt[s].state /\ k.remote = skt[s].remote /\ k.seq = skt[s].seq
      /\ k.ack = skt[s].ack /\ k.alarm = "SUCCESS" /\ k.data = skt[s].data
      /\ k.receive = skt[s].receive /\ k.receive_count = skt[s].receive_count
      /\ k.synchonize = skt[s].synchonize
  BY <1>1, ZenonT(30) DEF IInv, TypeInv, Struct
<1>3. skt' \in [Socket -> Struct] /\ skt'[s] = k /\ Elsewhere(skt, skt', s)
  BY <1>1, <1>2, SetFacts DEF IInv, GivenUp
<1>4. /\ tx[s].at = "wait" /\ skt[s].alarm = "id" /\ Return(s, FALSE)
      /\ UNCHANGED <<rcv, exists, finAlarm, net, read>>
  BY DEF GivenUp
<1> QED
  BY <1>2, <1>3, <1>4, ReturnStep
\* SendCall
LEMMA SendCallStep ==
    ASSUME IInv, NEW s \in Socket, SendCall(s)
    PROVE  IInv'
<1>1. /\ app[s] = "open" /\ skt[s].state = "ESTABLISHED" /\ tx[s] = Idle /\ app' = [app EXCEPT ![s] = "send"]
      /\ UNCHANGED <<skt, tx, rcv, cls, endVars, net, ghosts>>
  BY DEF SendCall, Goto
<1>2. app'[s] = "send" /\ Elsewhere(app, app', s)
  BY <1>1 DEF IInv, TypeInv, Elsewhere
<1>3. TypeInv'
  BY <1>1 DEF IInv, TypeInv, endVars, ghosts
<1>4. Quiet(s)
  BY <1>1, <1>2 DEF Quiet, OnlyOf, Elsewhere, endVars, ghosts
<1>5. Local(s)'
  <2>1. (s = Server => ServerInv') /\ (s \in Client => RoleOf(s)')
    BY <1>1, <1>2 DEF IInv, ServerInv, RoleInv, RoleOf, endVars
  <2>2. CallOf(s)' /\ TransmitOf(s)'
    BY <1>1, <1>2 DEF IInv, CallInv, CallOf, TransmitOf, Idle, Returned, endVars, ghosts
  <2>3. ReadOf(s)' /\ WakeOf(s)'
    BY <1>1 DEF IInv, ReadInv, ReadOf, WakeInv, WakeOf, ghosts
  <2> QED
    BY <2>1, <2>2, <2>3 DEF Local
<1> QED
  BY <1>3, <1>4, <1>5, Frame

\* SendTransmit
LEMMA SendTransmitStep ==
    ASSUME IInv, NEW s \in Socket, SendTransmit(s)
    PROVE  IInv'
<1>1. PICK k : k = skt[s]
  OBVIOUS
<1>2. /\ app[s] = "send" /\ Begin(s, k, "ACK", TRUE) /\ app' = [app EXCEPT ![s] = "sending"]
      /\ UNCHANGED <<rcv, cls, endVars, net, ghosts>>
  BY <1>1 DEF SendTransmit, Goto
<1>3. k \in Struct /\ k.remote \in Socket /\ "ACK" \in Type /\ TRUE \in BOOLEAN /\ TypeInv /\ k.seq \in Nat /\ k.ack \in Nat
  BY <1>1, <1>2, Peer DEF IInv, TypeInv, Type, Struct
<1>4. /\ skt' \in [Socket -> Struct] /\ tx' \in [Socket -> TxType]
      /\ Elsewhere(skt, skt', s) /\ Elsewhere(tx, tx', s)
      /\ skt'[s].seq = k.seq + 1 /\ skt'[s].state = k.state /\ skt'[s].remote = k.remote
      /\ skt'[s].ack = k.ack /\ skt'[s].alarm = k.alarm /\ skt'[s].data = k.data
      /\ skt'[s].receive = k.receive /\ skt'[s].receive_count = k.receive_count
      /\ skt'[s].synchonize = k.synchonize
      /\ tx'[s].at = "send" /\ tx'[s].hdr.type = "ACK"
      /\ tx'[s].hdr.src = s /\ tx'[s].hdr.dst = k.remote /\ tx'[s].hdr.seq = k.seq + 1
      /\ tx'[s].hdr.ack = k.ack
  BY <1>2, <1>3, BeginFacts
<1>5. app'[s] = "sending" /\ Elsewhere(app, app', s)
  BY <1>2 DEF IInv, TypeInv, Elsewhere
<1>6. TypeInv'
  BY <1>2, <1>4 DEF IInv, TypeInv, endVars, ghosts
<1>7. Quiet(s)
  BY <1>1, <1>2, <1>4, <1>5 DEF Quiet, OnlyOf, Elsewhere, endVars, ghosts
<1>8. Local(s)'
  <2>1. s = Server => ServerInv'
    BY <1>1, <1>2, <1>3, <1>4, <1>5 DEF IInv, ServerInv, endVars
  <2>2. s \in Client => RoleOf(s)'
    BY <1>1, <1>2, <1>4, <1>5 DEF IInv, RoleInv, RoleOf
  <2>3. CallOf(s)'
    BY <1>1, <1>2, <1>4, <1>5 DEF IInv, CallInv, CallOf, Returned, endVars, ghosts
  <2>4. TransmitOf(s)'
    BY <1>2, <1>3, <1>4, <1>5 DEF TransmitOf
  <2>5. ReadOf(s)' /\ WakeOf(s)'
    BY <1>1, <1>2, <1>4 DEF IInv, ReadInv, ReadOf, WakeInv, WakeOf, ghosts
  <2> QED
    BY <2>1, <2>2, <2>3, <2>4, <2>5 DEF Local
<1> QED
  BY <1>6, <1>7, <1>8, Frame

\* ClientCreate
LEMMA ClientCreateStep ==
    ASSUME IInv, NEW c \in Client, ClientCreate(c)
    PROVE  IInv'
<1>1. PICK k : k = [skt[c] EXCEPT !.state = "SYNSENT", !.remote = Server]
  OBVIOUS
<1>2. /\ app[c] = "new" /\ Begin(c, k, "SYN", FALSE) /\ app' = [app EXCEPT ![c] = "creating"]
      /\ exists' = exists \cup {c}
      /\ UNCHANGED <<rcv, cls, closing, finAlarm, cleanup, net, ghosts>>
  BY <1>1 DEF ClientCreate, Goto
<1>3. c \in Socket /\ c # Server /\ Server \in Socket /\ "SYN" \in Type /\ FALSE \in BOOLEAN
      /\ TypeInv /\ "SYNSENT" \in State
  BY SocketAssumption DEF IInv, Type, Socket, State
<1>4. /\ k \in Struct /\ k.remote = Server /\ k.remote \in Socket /\ k.state = "SYNSENT" /\ k.seq = skt[c].seq
      /\ k.ack = skt[c].ack /\ k.alarm = skt[c].alarm /\ k.data = skt[c].data /\ k.receive = skt[c].receive
      /\ k.receive_count = skt[c].receive_count /\ k.synchonize = skt[c].synchonize
  <2>1. skt[c] \in Struct
    BY <1>3 DEF TypeInv
  <2> QED
    BY <1>1, <1>3, <2>1 DEF Struct
<1>5. skt[c] = NewSocket /\ k.seq = 0 /\ k.ack = 0 /\ k.data = << >> /\ rcv[c].at = "idle"
  BY <1>2, <1>3, <1>4 DEF IInv, CallInv, CallOf, NewSocket
<1>6. /\ skt' \in [Socket -> Struct] /\ tx' \in [Socket -> TxType]
      /\ Elsewhere(skt, skt', c) /\ Elsewhere(tx, tx', c)
      /\ skt'[c].seq = k.seq + 1 /\ skt'[c].state = k.state /\ skt'[c].remote = k.remote
      /\ skt'[c].ack = k.ack /\ skt'[c].alarm = k.alarm /\ skt'[c].data = k.data
      /\ skt'[c].receive = k.receive /\ skt'[c].receive_count = k.receive_count
      /\ skt'[c].synchonize = k.synchonize
      /\ tx'[c].at = "send" /\ tx'[c].hdr.type = "SYN"
      /\ tx'[c].hdr.src = c /\ tx'[c].hdr.dst = k.remote /\ tx'[c].hdr.seq = k.seq + 1
      /\ tx'[c].hdr.ack = k.ack
  BY <1>2, <1>3, <1>4, BeginFacts
<1>7. app'[c] = "creating" /\ Elsewhere(app, app', c)
  BY <1>2, <1>3 DEF IInv, TypeInv, Elsewhere
<1>8. TypeInv'
  BY <1>2, <1>3, <1>6 DEF IInv, TypeInv, ghosts
<1>9. Quiet(c)
  BY <1>2, <1>3, <1>4, <1>6, <1>7 DEF Quiet, OnlyOf, Elsewhere, ghosts
<1>10. Local(c)'
  <2>1. RoleOf(c)'
    BY <1>4, <1>5, <1>6, <1>7 DEF RoleOf
  <2>2. CallOf(c)'
    BY <1>2, <1>3, <1>7 DEF IInv, CallInv, CallOf, Returned, ghosts
  <2>3. TransmitOf(c)'
    BY <1>5, <1>6, <1>7 DEF TransmitOf
  <2>4. ReadOf(c)' /\ WakeOf(c)'
    BY <1>2, <1>3, <1>4, <1>5, <1>6 DEF IInv, ReadInv, ReadOf, WakeInv, WakeOf, ghosts
  <2> QED
    BY <1>3, <2>1, <2>2, <2>3, <2>4 DEF Local
<1> QED
  BY <1>3, <1>8, <1>9, <1>10, Frame

\* CloseTransmit
LEMMA CloseTransmitStep ==
    ASSUME IInv, NEW s \in Socket, CloseTransmit(s)
    PROVE  IInv'
<1>1. PICK k : k = skt[s]
  OBVIOUS
<1>2. /\ cls[s] = "fin" /\ app[s] = "open" /\ Begin(s, k, "FIN", FALSE) /\ cls' = [cls EXCEPT ![s] = "transmit"]
      /\ UNCHANGED <<app, rcv, endVars, net, ghosts>>
  BY <1>1 DEF CloseTransmit
<1>3. k \in Struct /\ k.remote \in Socket /\ "FIN" \in Type /\ FALSE \in BOOLEAN /\ TypeInv /\ k.seq \in Nat /\ k.ack \in Nat
  BY <1>1, <1>2, Peer DEF IInv, TypeInv, Type, Struct
<1>4. /\ skt' \in [Socket -> Struct] /\ tx' \in [Socket -> TxType]
      /\ Elsewhere(skt, skt', s) /\ Elsewhere(tx, tx', s)
      /\ skt'[s].seq = k.seq + 1 /\ skt'[s].state = k.state /\ skt'[s].remote = k.remote
      /\ skt'[s].ack = k.ack /\ skt'[s].alarm = k.alarm /\ skt'[s].data = k.data
      /\ skt'[s].receive = k.receive /\ skt'[s].receive_count = k.receive_count
      /\ skt'[s].synchonize = k.synchonize
      /\ tx'[s].at = "send" /\ tx'[s].hdr.type = "FIN"
      /\ tx'[s].hdr.src = s /\ tx'[s].hdr.dst = k.remote /\ tx'[s].hdr.seq = k.seq + 1
      /\ tx'[s].hdr.ack = k.ack
  BY <1>2, <1>3, BeginFacts
<1>5. cls'[s] = "transmit" /\ Elsewhere(cls, cls', s)
  BY <1>2 DEF IInv, TypeInv, Elsewhere
<1>6. TypeInv'
  BY <1>2, <1>4 DEF IInv, TypeInv, endVars, ghosts
<1>7. Quiet(s)
  BY <1>1, <1>2, <1>4, <1>5 DEF Quiet, OnlyOf, Elsewhere, endVars, ghosts
<1>8. Local(s)'
  <2>1. k.state \in {"LASTACK", "CLOSED"}
    BY <1>1, <1>2 DEF IInv, CallInv, CallOf
  <2>2. s = Server => ServerInv'
    BY <1>1, <1>2, <1>3, <1>4, <2>1 DEF IInv, ServerInv, endVars
  <2>3. s \in Client => RoleOf(s)'
    BY <1>1, <1>2, <1>4, <2>1 DEF IInv, RoleInv, RoleOf
  <2>4. CallOf(s)'
    BY <1>1, <1>2, <1>4, <1>5, <2>1 DEF IInv, CallInv, CallOf, Returned, endVars, ghosts
  <2>5. TransmitOf(s)'
    BY <1>2, <1>3, <1>4, <1>5 DEF TransmitOf
  <2>6. ReadOf(s)' /\ WakeOf(s)'
    BY <1>1, <1>2, <1>4 DEF IInv, ReadInv, ReadOf, WakeInv, WakeOf, ghosts
  <2> QED
    BY <2>2, <2>3, <2>4, <2>5, <2>6 DEF Local
<1> QED
  BY <1>6, <1>7, <1>8, Frame
\* ServerCreate
LEMMA ServerCreateStep ==
    ASSUME IInv, ServerCreate
    PROVE  IInv'
<1>1. PICK k : k = [skt[Server] EXCEPT !.state = "LISTEN"]
  OBVIOUS
<1>2. /\ app[Server] = "new" /\ exists' = exists \cup {Server} /\ Set(Server, k)
      /\ app' = [app EXCEPT ![Server] = "listen"]
      /\ UNCHANGED <<tx, rcv, cls, closing, finAlarm, cleanup, net, ghosts>>
  BY <1>1 DEF ServerCreate, Goto
<1>3. Server \in Socket /\ Server \notin Client /\ "LISTEN" \in State /\ TypeInv
  BY SocketAssumption DEF IInv, Socket, State
<1>4. skt[Server] \in Struct /\ skt[Server] = NewSocket
  BY <1>2, <1>3 DEF IInv, TypeInv, CallInv, CallOf
<1>5. /\ k \in Struct /\ k.state = "LISTEN" /\ k.remote = NoSocket /\ k.seq = 0 /\ k.ack = 0
      /\ k.data = << >> /\ k.receive_count = 0 /\ k.synchonize = 0
  <2>1. /\ k \in Struct /\ k.state = "LISTEN" /\ k.remote = skt[Server].remote /\ k.seq = skt[Server].seq
        /\ k.ack = skt[Server].ack /\ k.data = skt[Server].data
        /\ k.receive_count = skt[Server].receive_count /\ k.synchonize = skt[Server].synchonize
    BY <1>1, <1>3, <1>4 DEF Struct
  <2> QED
    BY <1>4, <2>1 DEF NewSocket
<1>6. skt' \in [Socket -> Struct] /\ skt'[Server] = k /\ Elsewhere(skt, skt', Server)
  BY <1>2, <1>3, <1>5, SetFacts
<1>7. app'[Server] = "listen" /\ Elsewhere(app, app', Server)
  BY <1>2, <1>3 DEF TypeInv, Elsewhere
<1>8. /\ tx[Server].at = "idle" /\ cls[Server] = "no" /\ rcv[Server].at = "idle" /\ sentOk[Server] = {}
  BY <1>2, <1>3 DEF IInv, CallInv, CallOf, Returned
<1>9. TypeInv'
  BY <1>2, <1>3, <1>6 DEF TypeInv, ghosts
<1>10. Quiet(Server)
  <2>1. OnlyOf(Server)
    BY <1>2, <1>6, <1>7 DEF OnlyOf, Elsewhere, ghosts
  <2>2. skt[Server].ack = 0 /\ skt[Server].seq = 0 /\ skt[Server].remote = NoSocket
    BY <1>4 DEF NewSocket
  <2> QED
    BY <1>2, <1>5, <1>6, <2>1, <2>2 DEF Quiet, ghosts
<1>11. Local(Server)'
  <2>1. ServerInv'
    <3>1. Server \notin closing /\ NoSocket # Server
      BY <1>2, <1>3, SocketAssumption DEF IInv, ServerInv
    <3> QED
      BY <1>2, <1>5, <1>6, <1>7, <3>1 DEF ServerInv
  <2>2. CallOf(Server)' /\ TransmitOf(Server)'
    BY <1>2, <1>7, <1>8 DEF CallOf, TransmitOf, ghosts
  <2>3. ReadOf(Server)' /\ WakeOf(Server)'
    BY <1>2, <1>3, <1>4, <1>5, <1>6, <1>8 DEF IInv, ReadInv, ReadOf, WakeOf, NewSocket, ghosts
  <2> QED
    BY <1>3, <2>1, <2>2, <2>3 DEF Local
<1> QED
  BY <1>3, <1>9, <1>10, <1>11, Frame

\* ServerWoken
LEMMA ServerWokenStep ==
    ASSUME IInv, ServerWoken
    PROVE  IInv'
<1>1. PICK n, k : n = skt[Server].synchonize - 1 /\ k = [skt[Server] EXCEPT !.synchonize = n]
  OBVIOUS
<1>2. Server \in Socket /\ Server \notin Client /\ TypeInv
  BY SocketAssumption DEF IInv, Socket
<1>3. /\ app[Server] = "listen" /\ skt[Server].synchonize > 0
      /\ UNCHANGED <<rcv, cls, endVars, net, ghosts>>
      /\ \/ k.state = "SYNRECEIVED" /\ Begin(Server, k, "SYNACK", FALSE) /\ Goto(Server, "creating")
         \/ k.state # "SYNRECEIVED" /\ Set(Server, k) /\ Goto(Server, "check") /\ UNCHANGED tx
  <2>1. k = [skt[Server] EXCEPT !.synchonize = @ - 1]
    BY <1>1, <1>2 DEF TypeInv, Struct
  <2> QED
    BY <2>1 DEF ServerWoken
<1>4. /\ skt[Server] \in Struct /\ skt[Server].state # "LISTEN" /\ skt[Server].synchonize = 1
      /\ skt[Server].remote \in Socket /\ skt[Server].remote # Server
  <2>1. skt[Server] \in Struct /\ skt[Server].synchonize \in Nat
    BY <1>2 DEF TypeInv, Struct
  <2>2. skt[Server].state # "LISTEN" /\ skt[Server].synchonize = 1
    BY <1>3, <2>1 DEF IInv, ServerInv
  <2> QED
    BY <1>2, <1>3, <2>1, <2>2, Peer
<1>5. /\ k \in Struct /\ k.state = skt[Server].state /\ k.remote = skt[Server].remote
      /\ k.seq = skt[Server].seq /\ k.ack = skt[Server].ack /\ k.alarm = skt[Server].alarm
      /\ k.data = skt[Server].data /\ k.receive = skt[Server].receive
      /\ k.receive_count = skt[Server].receive_count /\ k.synchonize = 0
  BY <1>1, <1>4 DEF Struct
<1>6. /\ tx[Server].at # "idle" => app[Server] # "listen"
      /\ cls[Server] = "no" /\ sentOk[Server] = {}
  BY <1>2, <1>3, UnderWay DEF IInv, CallInv, CallOf, Returned
<1>7. CASE k.state = "SYNRECEIVED"
  <2>1. Begin(Server, k, "SYNACK", FALSE) /\ app' = [app EXCEPT ![Server] = "creating"]
    BY <1>3, <1>7 DEF Goto
  <2>2. "SYNACK" \in Type /\ FALSE \in BOOLEAN /\ k.seq \in Nat /\ k.remote \in Socket
    BY <1>4, <1>5 DEF Type, Struct
  <2>3. /\ skt' \in [Socket -> Struct] /\ tx' \in [Socket -> TxType]
        /\ Elsewhere(skt, skt', Server) /\ Elsewhere(tx, tx', Server)
        /\ skt'[Server].seq = k.seq + 1 /\ skt'[Server].state = k.state
        /\ skt'[Server].remote = k.remote /\ skt'[Server].ack = k.ack
        /\ skt'[Server].alarm = k.alarm /\ skt'[Server].data = k.data
        /\ skt'[Server].receive = k.receive /\ skt'[Server].receive_count = k.receive_count
        /\ skt'[Server].synchonize = k.synchonize
        /\ tx'[Server].at = "send" /\ tx'[Server].hdr.type = "SYNACK"
        /\ tx'[Server].hdr.src = Server /\ tx'[Server].hdr.dst = k.remote /\ tx'[Server].hdr.seq = k.seq + 1
        /\ tx'[Server].hdr.ack = k.ack
    BY <1>2, <1>5, <2>1, <2>2, BeginFacts, ZenonT(30)
  <2>4. app'[Server] = "creating" /\ Elsewhere(app, app', Server)
    BY <1>2, <2>1 DEF TypeInv, Elsewhere
  <2>5. TypeInv'
    BY <1>2, <1>3, <2>1, <2>3 DEF TypeInv, endVars, ghosts
  <2>6. Quiet(Server)
    BY <1>3, <1>5, <2>3, <2>4 DEF Quiet, OnlyOf, Elsewhere, endVars, ghosts
  <2>7. Local(Server)'
    <3>1. ServerInv'
      BY <1>3, <1>4, <1>5, <1>7, <2>2, <2>3, <2>4, SocketAssumption DEF IInv, ServerInv, endVars, Socket
    <3>2. CallOf(Server)'
      BY <1>3, <1>6, <2>4 DEF CallOf, ghosts
    <3>3. TransmitOf(Server)'
      <4>1. k.ack = 1
        BY <1>5, <1>7 DEF IInv, ServerInv
      <4> QED
        BY <1>3, <2>2, <2>3, <2>4, <4>1 DEF TransmitOf
    <3>4. ReadOf(Server)' /\ WakeOf(Server)'
      BY <1>2, <1>3, <1>5, <2>3 DEF IInv, ReadInv, ReadOf, WakeInv, WakeOf, ghosts
    <3> QED
      BY <1>2, <3>1, <3>2, <3>3, <3>4 DEF Local
  <2> QED
    BY <1>2, <2>5, <2>6, <2>7, Frame
<1>8. CASE k.state # "SYNRECEIVED"
  <2>1. Set(Server, k) /\ app' = [app EXCEPT ![Server] = "check"] /\ UNCHANGED tx
    BY <1>3, <1>8 DEF Goto
  <2>2. skt' \in [Socket -> Struct] /\ skt'[Server] = k /\ Elsewhere(skt, skt', Server)
    BY <1>2, <1>5, <2>1, SetFacts
  <2>3. app'[Server] = "check" /\ Elsewhere(app, app', Server)
    BY <1>2, <2>1 DEF TypeInv, Elsewhere
  <2>4. TypeInv'
    BY <1>2, <1>3, <2>1, <2>2 DEF TypeInv, endVars, ghosts
  <2>5. Quiet(Server)
    BY <1>3, <1>5, <2>1, <2>2, <2>3 DEF Quiet, OnlyOf, Elsewhere, endVars, ghosts
  <2>6. Local(Server)'
    <3>1. ServerInv'
      BY <1>3, <1>4, <1>5, <1>8, <2>2, <2>3, SocketAssumption DEF IInv, ServerInv, endVars, Socket
    <3>2. CallOf(Server)' /\ TransmitOf(Server)'
      BY <1>3, <1>6, <2>1, <2>3 DEF CallOf, TransmitOf, ghosts
    <3>3. ReadOf(Server)' /\ WakeOf(Server)'
      BY <1>2, <1>3, <1>5, <2>2 DEF IInv, ReadInv, ReadOf, WakeInv, WakeOf, ghosts
    <3> QED
      BY <1>2, <3>1, <3>2, <3>3 DEF Local
  <2> QED
    BY <1>2, <2>4, <2>5, <2>6, Frame
<1> QED
  BY <1>7, <1>8

\* ServerCheck
LEMMA ServerCheckStep ==
    ASSUME IInv, ServerCheck
    PROVE  IInv'
<1>1. Server \in Socket /\ Server \notin Client /\ TypeInv /\ skt[Server] \in Struct /\ "LISTEN" \in State
  BY SocketAssumption DEF IInv, Socket, TypeInv, State
<1>2. /\ app[Server] = "check" /\ UNCHANGED <<tx, rcv, cls, endVars, net, ghosts>>
      /\ tx[Server].at # "idle" => cls[Server] # "no"
      /\ cls[Server] = "no" /\ sentOk[Server] = {}
  <2>1. app[Server] = "check" /\ UNCHANGED <<tx, rcv, cls, endVars, net, ghosts>>
    BY DEF ServerCheck
  <2>2. cls[Server] = "no" /\ sentOk[Server] = {}
    BY <1>1, <2>1 DEF IInv, CallInv, CallOf, Returned
  <2>3. ASSUME tx[Server].at # "idle" PROVE FALSE
    <3>1. tx[Server].hdr.type \in Type /\ TransmitOf(Server)
      BY <1>1, <2>3, UnderWay DEF Packet, IInv, TransmitInv
    <3> QED
      BY <1>1, <2>1, <2>2, <2>3, <3>1 DEF TransmitOf, Type
  <2> QED
    BY <2>1, <2>2, <2>3
<1>3. CASE skt[Server].state = "SYNRECEIVED"
  <2>1. PICK k : k = [skt[Server] EXCEPT !.state = "LISTEN"]
    OBVIOUS
  <2>2. Set(Server, k) /\ app' = [app EXCEPT ![Server] = "listen"]
    BY <1>3, <2>1 DEF ServerCheck, Goto
  <2>3. /\ k \in Struct /\ k.state = "LISTEN" /\ k.remote = skt[Server].remote
        /\ k.seq = skt[Server].seq /\ k.ack = skt[Server].ack /\ k.alarm = skt[Server].alarm
        /\ k.data = skt[Server].data /\ k.receive = skt[Server].receive
        /\ k.receive_count = skt[Server].receive_count /\ k.synchonize = skt[Server].synchonize
    BY <1>1, <2>1 DEF Struct
  <2>4. skt' \in [Socket -> Struct] /\ skt'[Server] = k /\ Elsewhere(skt, skt', Server)
    BY <1>1, <2>2, <2>3, SetFacts
  <2>5. app'[Server] = "listen" /\ Elsewhere(app, app', Server)
    BY <1>1, <2>2 DEF TypeInv, Elsewhere
  <2>6. TypeInv'
    BY <1>1, <1>2, <2>2, <2>4 DEF TypeInv, endVars, ghosts
  <2>7. Quiet(Server)
    BY <1>2, <2>3, <2>4, <2>5 DEF Quiet, OnlyOf, Elsewhere, endVars, ghosts
  <2>8. Local(Server)'
    <3>1. ServerInv'
      BY <1>2, <1>3, <2>3, <2>4, <2>5 DEF IInv, ServerInv, endVars
    <3>2. CallOf(Server)' /\ TransmitOf(Server)'
      BY <1>2, <2>5 DEF CallOf, TransmitOf, ghosts
    <3>3. ReadOf(Server)' /\ WakeOf(Server)'
      BY <1>1, <1>2, <1>3, <2>3, <2>4 DEF IInv, ReadInv, ReadOf, WakeInv, WakeOf, Handshake, ghosts
    <3> QED
      BY <1>1, <3>1, <3>2, <3>3 DEF Local
  <2> QED
    BY <1>1, <2>6, <2>7, <2>8, Frame
<1>4. CASE skt[Server].state # "SYNRECEIVED"
  <2>1. UNCHANGED skt /\ app' = [app EXCEPT ![Server] = "open"]
    BY <1>4 DEF ServerCheck, Goto
  <2>2. app'[Server] = "open" /\ Elsewhere(app, app', Server)
    BY <1>1, <2>1 DEF TypeInv, Elsewhere
  <2>3. TypeInv'
    BY <1>1, <1>2, <2>1 DEF TypeInv, endVars, ghosts
  <2>4. Quiet(Server)
    BY <1>2, <2>1, <2>2 DEF Quiet, OnlyOf, Elsewhere, endVars, ghosts
  <2>5. Local(Server)'
    <3>1. ServerInv'
      BY <1>2, <1>4, <2>1, <2>2 DEF IInv, ServerInv, endVars
    <3>2. CallOf(Server)' /\ TransmitOf(Server)'
      BY <1>2, <2>2 DEF CallOf, TransmitOf, ghosts
    <3>3. ReadOf(Server)' /\ WakeOf(Server)'
      BY <1>1, <1>2, <2>1 DEF IInv, ReadInv, ReadOf, WakeInv, WakeOf, ghosts
    <3> QED
      BY <1>1, <3>1, <3>2, <3>3 DEF Local
  <2> QED
    BY <1>1, <2>3, <2>4, <2>5, Frame
<1> QED
  BY <1>3, <1>4
\* A transmission that the step does not touch.
LEMMA TransmitKept ==
    ASSUME IInv, NEW s \in Socket, tx'[s] = tx[s], app'[s] = app[s],
           cls'[s] = cls[s] \/ cls[s] # "transmit",
           skt'[s].seq = skt[s].seq, skt'[s].remote = skt[s].remote, skt'[s].ack = skt[s].ack,
           skt'[s].alarm = skt[s].alarm, Elsewhere(skt, skt', s)
    PROVE  TransmitOf(s)'
<1>1. TransmitOf(s)
  BY DEF IInv, TransmitInv
<1>2. CASE tx[s].at # "idle"
  <2>1. skt[s].remote \in Socket
    BY <1>2, HeaderFacts
  <2>2. skt'[skt[s].remote].ack = skt[skt[s].remote].ack
    BY <2>1 DEF Elsewhere
  <2> QED
    BY <1>1, <2>2 DEF TransmitOf
<1> QED
  BY <1>1, <1>2 DEF TransmitOf

\* ReceiveCall
LEMMA ReceiveCallStep ==
    ASSUME IInv, NEW s \in Socket, ReceiveCall(s)
    PROVE  IInv'
<1>1. /\ Returned(s) /\ rcv[s].at = "idle" /\ skt[s].state = "ESTABLISHED"
      /\ Set(s, [skt[s] EXCEPT !.receive_count = @ + 1]) /\ rcv' = [rcv EXCEPT ![s] = [at |-> "wait"]]
      /\ UNCHANGED <<tx, app, cls, endVars, net, ghosts>>
  BY DEF ReceiveCall, Rcv, Idle
<1>2. skt[s] \in Struct /\ skt[s].receive_count = 0 /\ TypeInv
  BY <1>1 DEF IInv, TypeInv, WakeInv, WakeOf
<1>3. PICK k : k = [skt[s] EXCEPT !.receive_count = 1]
  OBVIOUS
<1>4. /\ k \in Struct /\ k.state = skt[s].state /\ k.remote = skt[s].remote /\ k.seq = skt[s].seq
      /\ k.ack = skt[s].ack /\ k.alarm = skt[s].alarm /\ k.data = skt[s].data
      /\ k.receive = skt[s].receive /\ k.receive_count = 1 /\ k.synchonize = skt[s].synchonize
  BY <1>2, <1>3 DEF Struct
<1>5. skt' \in [Socket -> Struct] /\ skt'[s] = k /\ Elsewhere(skt, skt', s)
  <2>1. Set(s, k)
    BY <1>1, <1>2, <1>3 DEF Struct
  <2> QED
    BY <1>2, <1>4, <2>1, SetFacts
<1>6. rcv'[s].at = "wait" /\ Elsewhere(rcv, rcv', s) /\ rcv' \in [Socket -> RcvType]
  BY <1>1, <1>2 DEF TypeInv, Elsewhere, RcvType
<1>7. TypeInv'
  BY <1>1, <1>2, <1>5, <1>6 DEF TypeInv, endVars, ghosts
<1>8. Quiet(s)
  BY <1>1, <1>4, <1>5, <1>6 DEF Quiet, OnlyOf, Elsewhere, endVars, ghosts
<1>9. Local(s)'
  <2>1. (s = Server => ServerInv') /\ (s \in Client => RoleOf(s)')
    BY <1>1, <1>4, <1>5 DEF IInv, ServerInv, RoleInv, RoleOf, endVars
  <2>2. CallOf(s)' /\ TransmitOf(s)'
    <3>1. app[s] # "new"
      BY <1>1, <1>2 DEF Returned, IInv, CallInv, CallOf
    <3>2. CallOf(s)'
      BY <1>1, <1>4, <1>5, <3>1 DEF IInv, CallInv, CallOf, Returned, endVars, ghosts
    <3> QED
      BY <1>1, <1>4, <1>5, <3>2, TransmitKept
  <2>3. ReadOf(s)' /\ WakeOf(s)'
    BY <1>1, <1>2, <1>4, <1>5, <1>6 DEF IInv, ReadInv, ReadOf, WakeInv, WakeOf, Handshake, ghosts
  <2> QED
    BY <2>1, <2>2, <2>3 DEF Local
<1> QED
  BY <1>7, <1>8, <1>9, Frame

\* ReceiveWoken
LEMMA ReceiveWokenStep ==
    ASSUME IInv, NEW s \in Socket, ReceiveWoken(s)
    PROVE  IInv'
<1>1. /\ rcv[s].at = "wait" /\ skt[s].receive > 0
      /\ Set(s, [skt[s] EXCEPT !.receive = @ - 1, !.receive_count = @ - 1])
      /\ rcv' = [rcv EXCEPT ![s] = [at |-> "loop"]]
      /\ UNCHANGED <<tx, app, cls, endVars, net, ghosts>>
  BY DEF ReceiveWoken, Rcv
<1>2. skt[s] \in Struct /\ skt[s].receive_count = 1 /\ skt[s].receive \in Nat /\ TypeInv
  BY <1>1 DEF IInv, TypeInv, WakeInv, WakeOf, Struct
<1>3. PICK n, k : n = skt[s].receive - 1 /\ k = [skt[s] EXCEPT !.receive = n, !.receive_count = 0]
  OBVIOUS
<1>4. /\ k \in Struct /\ k.state = skt[s].state /\ k.remote = skt[s].remote /\ k.seq = skt[s].seq
      /\ k.ack = skt[s].ack /\ k.alarm = skt[s].alarm /\ k.data = skt[s].data /\ k.receive = n
      /\ k.receive_count = 0 /\ k.synchonize = skt[s].synchonize
  <2>1. n \in Nat /\ 0 \in 0 .. 1
    BY <1>1, <1>2, <1>3
  <2> QED
    BY <1>2, <1>3, <2>1 DEF Struct
<1>5. skt' \in [Socket -> Struct] /\ skt'[s] = k /\ Elsewhere(skt, skt', s)
  <2>1. Set(s, k)
    BY <1>1, <1>2, <1>3 DEF Struct
  <2> QED
    BY <1>2, <1>4, <2>1, SetFacts
<1>6. rcv'[s].at = "loop" /\ Elsewhere(rcv, rcv', s) /\ rcv' \in [Socket -> RcvType]
  BY <1>1, <1>2 DEF TypeInv, Elsewhere, RcvType
<1>7. TypeInv'
  BY <1>1, <1>2, <1>5, <1>6 DEF TypeInv, endVars, ghosts
<1>8. Quiet(s)
  BY <1>1, <1>4, <1>5, <1>6 DEF Quiet, OnlyOf, Elsewhere, endVars, ghosts
<1>9. Local(s)'
  <2>1. (s = Server => ServerInv') /\ (s \in Client => RoleOf(s)')
    BY <1>1, <1>4, <1>5 DEF IInv, ServerInv, RoleInv, RoleOf, endVars
  <2>2. CallOf(s)' /\ TransmitOf(s)'
    <3>1. app[s] # "new"
      BY <1>1, <1>2 DEF Returned, IInv, CallInv, CallOf
    <3>2. CallOf(s)'
      BY <1>1, <1>4, <1>5, <3>1 DEF IInv, CallInv, CallOf, Returned, endVars, ghosts
    <3> QED
      BY <1>1, <1>4, <1>5, <3>2, TransmitKept
  <2>3. ReadOf(s)' /\ WakeOf(s)'
    BY <1>1, <1>2, <1>4, <1>5, <1>6 DEF IInv, ReadInv, ReadOf, WakeInv, WakeOf, ghosts
  <2> QED
    BY <2>1, <2>2, <2>3 DEF Local
<1> QED
  BY <1>7, <1>8, <1>9, Frame

\* CloseCall
LEMMA CloseCallStep ==
    ASSUME IInv, NEW s \in Socket, CloseCall(s)
    PROVE  IInv'
<1>1. /\ Returned(s) /\ cls[s] = "no" /\ skt[s].state = "ESTABLISHED"
      /\ cls' = [cls EXCEPT ![s] = "unblock"]
      /\ UNCHANGED <<tx, app, rcv, endVars, net, ghosts>>
  BY DEF CloseCall
<1>2. skt[s] \in Struct /\ TypeInv /\ "LASTACK" \in State
  BY DEF IInv, TypeInv, State
<1>3. PICK k : k = [skt[s] EXCEPT !.state = "LASTACK"]
  OBVIOUS
<1>4. /\ k \in Struct /\ k.state = "LASTACK" /\ k.remote = skt[s].remote /\ k.seq = skt[s].seq
      /\ k.ack = skt[s].ack /\ k.alarm = skt[s].alarm /\ k.data = skt[s].data
      /\ k.receive = skt[s].receive /\ k.receive_count = skt[s].receive_count
      /\ k.synchonize = skt[s].synchonize
  BY <1>2, <1>3 DEF Struct
<1>5. skt' \in [Socket -> Struct] /\ skt'[s] = k /\ Elsewhere(skt, skt', s)
  BY <1>2, <1>3, <1>4, SetFacts DEF CloseCall
<1>6. cls'[s] = "unblock" /\ Elsewhere(cls, cls', s)
  BY <1>1, <1>2 DEF TypeInv, Elsewhere
<1>7. TypeInv'
  BY <1>1, <1>2, <1>5 DEF TypeInv, endVars, ghosts
<1>8. Quiet(s)
  BY <1>1, <1>4, <1>5, <1>6 DEF Quiet, OnlyOf, Elsewhere, endVars, ghosts
<1>9. Local(s)'
  <2>1. (s = Server => ServerInv') /\ (s \in Client => RoleOf(s)')
    BY <1>1, <1>4, <1>5 DEF IInv, ServerInv, RoleInv, RoleOf, endVars
  <2>2. CallOf(s)'
    BY <1>1, <1>4, <1>5, <1>6 DEF IInv, CallInv, CallOf, Returned, endVars, ghosts
  <2>3. TransmitOf(s)'
    BY <1>1, <1>4, <1>5, <1>6, TransmitKept
  <2>4. ReadOf(s)' /\ WakeOf(s)'
    BY <1>1, <1>2, <1>4, <1>5 DEF IInv, ReadInv, ReadOf, WakeInv, WakeOf, Handshake, ghosts
  <2> QED
    BY <2>1, <2>2, <2>3, <2>4 DEF Local
<1> QED
  BY <1>7, <1>8, <1>9, Frame

\* unblocked
LEMMA UnblockedFacts ==
    ASSUME NEW j \in Struct, NEW k, k = unblocked(j)
    PROVE  /\ k \in Struct /\ k.state = j.state /\ k.remote = j.remote /\ k.seq = j.seq
           /\ k.ack = j.ack /\ k.alarm = j.alarm /\ k.data = j.data
           /\ k.receive_count = j.receive_count /\ k.synchonize = j.synchonize
           /\ k.receive \in Nat /\ k.receive >= j.receive
<1>1. PICK n : n = j.receive + j.receive_count
  OBVIOUS
<1>2. n \in Nat /\ n >= j.receive
  BY <1>1 DEF Struct
<1>3. k = [j EXCEPT !.receive = n]
  BY <1>1 DEF unblocked
<1> QED
  BY <1>2, <1>3 DEF Struct

\* Nothing but the count of receive goes up: CloseUnblock, and Cleanup of a socket in use.
LEMMA UnblockStep ==
    ASSUME IInv, NEW s \in Socket, Set(s, unblocked(skt[s])), app[s] # "new",
           cls' = cls \/ (cls[s] = "unblock" /\ cls' = [cls EXCEPT ![s] = "fin"]),
           UNCHANGED <<tx, app, rcv, endVars, net, ghosts>>
    PROVE  IInv'
<1>1. PICK k : k = unblocked(skt[s])
  OBVIOUS
<1>2. skt[s] \in Struct /\ TypeInv
  BY DEF IInv, TypeInv
<1>3. /\ k \in Struct /\ k.state = skt[s].state /\ k.remote = skt[s].remote /\ k.seq = skt[s].seq
      /\ k.ack = skt[s].ack /\ k.alarm = skt[s].alarm /\ k.data = skt[s].data
      /\ k.receive_count = skt[s].receive_count /\ k.synchonize = skt[s].synchonize
      /\ k.receive \in Nat /\ k.receive >= skt[s].receive /\ skt[s].receive \in Nat
  BY <1>1, <1>2, UnblockedFacts DEF Struct
<1>4. skt' \in [Socket -> Struct] /\ skt'[s] = k /\ Elsewhere(skt, skt', s)
  BY <1>1, <1>2, <1>3, SetFacts
<1>5. /\ Elsewhere(cls, cls', s) /\ (cls'[s] = cls[s] \/ (cls[s] = "unblock" /\ cls'[s] = "fin"))
      /\ cls' \in [Socket -> {"no", "unblock", "fin", "transmit", "done"}]
  BY <1>2 DEF TypeInv, Elsewhere
<1>6. TypeInv'
  BY <1>2, <1>4, <1>5 DEF TypeInv, endVars, ghosts
<1>7. Quiet(s)
  BY <1>3, <1>4, <1>5 DEF Quiet, OnlyOf, Elsewhere, endVars, ghosts
<1>8. Local(s)'
  <2>1. (s = Server => ServerInv') /\ (s \in Client => RoleOf(s)')
    BY <1>3, <1>4 DEF IInv, ServerInv, RoleInv, RoleOf, endVars
  <2>2. CallOf(s)'
    BY <1>3, <1>4, <1>5 DEF IInv, CallInv, CallOf, Returned, endVars, ghosts
  <2>3. TransmitOf(s)'
    BY <1>3, <1>4, <1>5, TransmitKept
  <2>4. ReadOf(s)' /\ WakeOf(s)'
    BY <1>2, <1>3, <1>4 DEF IInv, ReadInv, ReadOf, WakeInv, WakeOf, ghosts
  <2> QED
    BY <2>1, <2>2, <2>3, <2>4 DEF Local
<1> QED
  BY <1>6, <1>7, <1>8, Frame
\* CloseUnblock
LEMMA CloseUnblockStep ==
    ASSUME IInv, NEW s \in Socket, CloseUnblock(s)
    PROVE  IInv'
<1>1. /\ cls[s] = "unblock" /\ Set(s, unblocked(skt[s])) /\ cls' = [cls EXCEPT ![s] = "fin"]
      /\ UNCHANGED <<tx, app, rcv, endVars, net, ghosts>>
  BY DEF CloseUnblock
<1>2. app[s] # "new"
  BY <1>1 DEF IInv, CallInv, CallOf
<1> QED
  BY <1>1, <1>2, UnblockStep

\* FinTimeout
LEMMA FinTimeoutStep ==
    ASSUME IInv, NEW s \in Socket, FinTimeout(s)
    PROVE  IInv'
<1>1. /\ finAlarm' = finAlarm \ {s} /\ cleanup' = [cleanup EXCEPT ![s] = @ + 1]
      /\ UNCHANGED <<skt, threadVars, exists, closing, net, ghosts>>
  BY DEF FinTimeout
<1>2. TypeInv'
  <2>1. cleanup' \in [Socket -> Nat]
    BY <1>1 DEF IInv, TypeInv
  <2> QED
    BY <1>1, <2>1 DEF IInv, TypeInv, threadVars, ghosts
<1>3. Quiet(s)
  BY <1>1 DEF Quiet, OnlyOf, Elsewhere, threadVars, ghosts
<1>4. Local(s)'
  <2>1. (s = Server => ServerInv') /\ (s \in Client => RoleOf(s)')
    BY <1>1 DEF IInv, ServerInv, RoleInv, RoleOf, threadVars
  <2>2. CallOf(s)' /\ TransmitOf(s)' /\ ReadOf(s)' /\ WakeOf(s)'
    BY <1>1 DEF IInv, CallInv, CallOf, TransmitInv, TransmitOf, ReadInv, ReadOf, WakeInv, WakeOf, Returned,
                threadVars, ghosts
  <2> QED
    BY <2>1, <2>2 DEF Local
<1> QED
  BY <1>2, <1>3, <1>4, Frame

\* Cleanup
LEMMA CleanupStep ==
    ASSUME IInv, NEW s \in exists, Cleanup(s)
    PROVE  IInv'
<1>1. s \in Socket /\ TypeInv /\ skt[s] \in Struct /\ "CLOSED" \in State
  BY DEF IInv, TypeInv, State
<1>2. app[s] # "new"
  BY <1>1 DEF IInv, CallInv, CallOf
<1>3. s \in closing /\ UNCHANGED <<threadVars, finAlarm, net, ghosts>>
  BY DEF Cleanup
<1>4. CASE Set(s, unblocked(skt[s])) /\ UNCHANGED <<exists, closing, cleanup>>
  <2>1. UNCHANGED <<tx, app, rcv, endVars, net, ghosts>> /\ cls' = cls
    BY <1>3, <1>4 DEF threadVars, endVars
  <2> QED
    BY <1>1, <1>2, <1>4, <2>1, UnblockStep
<1>5. CASE /\ skt[s].receive_count = 0 /\ Set(s, [skt[s] EXCEPT !.state = "CLOSED"])
           /\ exists' = exists \ {s} /\ closing' = closing \ {s}
           /\ cleanup' = [cleanup EXCEPT ![s] = @ - 1]
  <2>1. PICK k : k = [skt[s] EXCEPT !.state = "CLOSED"]
    OBVIOUS
  <2>2. /\ k \in Struct /\ k.state = "CLOSED" /\ k.remote = skt[s].remote /\ k.seq = skt[s].seq
        /\ k.ack = skt[s].ack /\ k.alarm = skt[s].alarm /\ k.data = skt[s].data
        /\ k.receive = skt[s].receive /\ k.receive_count = skt[s].receive_count
        /\ k.synchonize = skt[s].synchonize
    BY <1>1, <2>1 DEF Struct
  <2>3. skt' \in [Socket -> Struct] /\ skt'[s] = k /\ Elsewhere(skt, skt', s)
    BY <1>1, <1>5, <2>1, <2>2, SetFacts
  <2>4. TypeInv'
    <3>1. cleanup[s] > 0 /\ cleanup[s] \in Nat /\ cleanup[s] - 1 \in Nat
      BY <1>1 DEF Cleanup, TypeInv
    <3>2. cleanup' \in [Socket -> Nat]
      BY <1>1, <1>5, <3>1 DEF TypeInv
    <3> QED
      BY <1>1, <1>3, <1>5, <2>3, <3>2 DEF TypeInv, threadVars, ghosts
  <2>5. Quiet(s)
    BY <1>3, <1>5, <2>2, <2>3 DEF Quiet, OnlyOf, Elsewhere, threadVars, ghosts
  <2>6. Local(s)'
    <3>1. s = Server => ServerInv'
      BY <1>3, <1>5, <2>2, <2>3 DEF IInv, ServerInv, threadVars
    <3>2. s \in Client => RoleOf(s)'
      BY <1>3, <2>2, <2>3 DEF IInv, RoleInv, RoleOf, threadVars
    <3>3. CallOf(s)'
      BY <1>1, <1>2, <1>3, <2>2, <2>3 DEF IInv, CallInv, CallOf, Returned, threadVars, ghosts
    <3>4. TransmitOf(s)'
      BY <1>1, <1>3, <2>2, <2>3, TransmitKept DEF threadVars
    <3>5. ReadOf(s)'
      BY <1>1, <1>3, <2>2, <2>3 DEF IInv, ReadInv, ReadOf, threadVars, ghosts
    <3>6. WakeOf(s)'
      <4>1. rcv[s].at # "wait" /\ rcv[s].at \in {"idle", "wait", "loop", "rest"}
        BY <1>1, <1>5 DEF IInv, WakeInv, WakeOf, TypeInv, RcvType
      <4> QED
        BY <1>1, <1>3, <2>2, <2>3, <4>1 DEF IInv, WakeInv, WakeOf, Handshake, threadVars
    <3> QED
      BY <3>1, <3>2, <3>3, <3>4, <3>5, <3>6 DEF Local
  <2> QED
    BY <1>1, <2>4, <2>5, <2>6, Frame
<1> QED
  BY <1>4, <1>5 DEF Cleanup

(***************************************************************************)
(* The receiving thread takes the head of the queue or puts the rest of it *)
(* back: the socket changes in data and receive only.                      *)
(***************************************************************************)
LEMMA QueueStep ==
    ASSUME IInv, NEW s \in Socket, NEW k \in Struct, Set(s, k),
           k.state = skt[s].state, k.remote = skt[s].remote, k.seq = skt[s].seq,
           k.ack = skt[s].ack, k.alarm = skt[s].alarm, k.receive_count = skt[s].receive_count,
           k.synchonize = skt[s].synchonize,
           NEW r \in RcvType, rcv' = [rcv EXCEPT ![s] = r],
           rcv[s].at \in {"loop", "rest"}, r.at # "wait", read' \in [Socket -> Seq(Nat)], Elsewhere(read, read', s),
           UNCHANGED <<tx, app, cls, endVars, net, sentOk>>,
           ReadOf(s)', k.data # << >> => k.receive > 0 \/ r.at \in {"loop", "rest"} \/ k.state # "ESTABLISHED"
    PROVE  IInv'
<1>1. TypeInv /\ skt[s] \in Struct
  BY DEF IInv, TypeInv
<1>2. skt' \in [Socket -> Struct] /\ skt'[s] = k /\ Elsewhere(skt, skt', s)
  BY <1>1, SetFacts
<1>3. rcv'[s] = r /\ Elsewhere(rcv, rcv', s) /\ rcv' \in [Socket -> RcvType]
  BY <1>1 DEF TypeInv, Elsewhere
<1>4. TypeInv'
  BY <1>1, <1>2, <1>3 DEF TypeInv, endVars
<1>5. Quiet(s)
  BY <1>2, <1>3 DEF Quiet, OnlyOf, Elsewhere, endVars
<1>6. Local(s)'
  <2>1. (s = Server => ServerInv') /\ (s \in Client => RoleOf(s)')
    BY <1>2 DEF IInv, ServerInv, RoleInv, RoleOf, endVars
  <2>2. CallOf(s)'
    <3>1. app[s] # "new"
      BY DEF IInv, CallInv, CallOf
    <3> QED
      BY <1>2, <3>1 DEF IInv, CallInv, CallOf, Returned, endVars
  <2>3. TransmitOf(s)'
    BY <1>2, TransmitKept
  <2>4. WakeOf(s)'
    <3>1. r.at \in {"idle", "loop", "rest"}
      BY DEF RcvType
    <3> QED
      BY <1>2, <1>3, <3>1 DEF IInv, WakeInv, WakeOf
  <2> QED
    BY <2>1, <2>2, <2>3, <2>4 DEF Local
<1> QED
  BY <1>4, <1>5, <1>6, Frame
\* Tail
LEMMA TailFacts ==
    ASSUME NEW S, NEW q \in Seq(S), q # << >>, NEW t, t = Tail(q)
    PROVE  /\ t \in Seq(S) /\ 1 \in DOMAIN q /\ Head(q) = q[1] /\ q[1] \in S
           /\ \A i \in DOMAIN t : i \in Nat /\ i > 0 /\ i + 1 \in DOMAIN q /\ t[i] = q[i + 1]
<1>1. Len(q) \in Nat /\ Len(q) > 0 /\ DOMAIN q = 1 .. Len(q)
  BY EmptySeq
<1>2. t \in Seq(S) /\ Len(t) = Len(q) - 1
  BY <1>1
<1>3. DOMAIN t = 1 .. Len(q) - 1
  BY <1>2
<1>4. \A i \in 1 .. Len(q) - 1 : t[i] = q[i + 1]
  BY <1>1
<1> QED
  BY <1>1, <1>2, <1>3, <1>4

\* Append
LEMMA AppendFacts ==
    ASSUME NEW S, NEW q \in Seq(S), NEW e \in S, NEW t, t = Append(q, e)
    PROVE  /\ t \in Seq(S) /\ t # << >>
           /\ \A i \in DOMAIN t : i \in Nat /\ ((i \in DOMAIN q /\ t[i] = q[i]) \/ t[i] = e)
           /\ \A i, j \in DOMAIN t : i < j => i \in DOMAIN q /\ t[i] = q[i]
<1>1. Len(q) \in Nat /\ DOMAIN q = 1 .. Len(q)
  OBVIOUS
<1>2. t \in Seq(S) /\ Len(t) = Len(q) + 1
  OBVIOUS
<1>3. DOMAIN t = 1 .. Len(q) + 1
  BY <1>2
<1>4. (\A i \in 1 .. Len(q) : t[i] = q[i]) /\ t[Len(q) + 1] = e
  OBVIOUS
<1> QED
  BY <1>1, <1>2, <1>3, <1>4

\* <<p>> \o q
LEMMA PrependFacts ==
    ASSUME NEW S, NEW q \in Seq(S), NEW p \in S, NEW t, t = <<p>> \o q
    PROVE  /\ t \in Seq(S)
           /\ \A i \in DOMAIN t : /\ i \in Nat
                                  /\ \/ i = 1 /\ t[i] = p
                                     \/ i > 1 /\ i - 1 \in DOMAIN q /\ t[i] = q[i - 1]
<1>1. Len(q) \in Nat /\ DOMAIN q = 1 .. Len(q)
  OBVIOUS
<1>2. t \in Seq(S) /\ Len(t) = Len(q) + 1
  OBVIOUS
<1>3. DOMAIN t = 1 .. Len(q) + 1
  BY <1>2
<1>4. t[1] = p /\ \A i \in 2 .. Len(q) + 1 : t[i] = q[i - 1]
  OBVIOUS
<1> QED
  BY <1>1, <1>2, <1>3, <1>4
\* ReceiveLoop
LEMMA ReceiveLoopStep ==
    ASSUME IInv, NEW s \in Socket, ReceiveLoop(s)
    PROVE  IInv'
<1>1. /\ TypeInv /\ skt[s] \in Struct /\ rcv[s].at = "loop" /\ UNCHANGED <<tx, app, cls, endVars, net, sentOk>>
      /\ skt[s].data \in Seq(Entry) /\ read[s] \in Seq(Nat) /\ rcv[s] \in RcvType
  BY DEF IInv, TypeInv, ReceiveLoop, Struct
<1>2. ReadOf(s)
  BY DEF IInv, ReadInv
<1>3. CASE /\ skt[s].state # "ESTABLISHED" \/ skt[s].data = << >>
           /\ Rcv(s, Idle) /\ UNCHANGED <<skt, read>>
  <2>1. PICK k, r : k = skt[s] /\ r = Idle
    OBVIOUS
  <2>2. Set(s, k) /\ k \in Struct /\ k.data = skt[s].data
    BY <1>1, <1>3, <2>1 DEF Set, TypeInv
  <2>3. r \in RcvType /\ r.at = "idle" /\ rcv' = [rcv EXCEPT ![s] = r]
    BY <1>3, <2>1 DEF Idle, RcvType, Rcv
  <2>4. ReadOf(s)'
    <3>1. rcv'[s].at = "idle"
      BY <1>1, <2>3 DEF TypeInv
    <3> QED
      BY <1>2, <1>3, <3>1 DEF ReadOf
  <2>5. read' \in [Socket -> Seq(Nat)] /\ Elsewhere(read, read', s)
    BY <1>1, <1>3 DEF TypeInv, Elsewhere
  <2> QED
    BY <1>1, <1>3, <2>1, <2>2, <2>3, <2>4, <2>5, QueueStep
<1>4. CASE /\ skt[s].state = "ESTABLISHED" /\ skt[s].data # << >>
           /\ Set(s, [skt[s] EXCEPT !.data = Tail(@)])
           /\ LET p == Head(skt[s].data)
              IN \/ read' = copied(s, p) /\ UNCHANGED rcv
                 \/ p.data /\ Rcv(s, [at |-> "rest", packet |-> p]) /\ UNCHANGED read
  <2>1. PICK q, t, p : q = skt[s].data /\ t = Tail(q) /\ p = Head(q)
    OBVIOUS
  <2>2. /\ t \in Seq(Entry) /\ 1 \in DOMAIN q /\ p = q[1] /\ p \in Entry
        /\ \A i \in DOMAIN t : i \in Nat /\ i > 0 /\ i + 1 \in DOMAIN q /\ t[i] = q[i + 1]
    BY <1>1, <1>4, <2>1, TailFacts
  <2>3. PICK k : k = [skt[s] EXCEPT !.data = t]
    OBVIOUS
  <2>4. /\ k \in Struct /\ k.state = skt[s].state /\ k.remote = skt[s].remote /\ k.seq = skt[s].seq
        /\ k.ack = skt[s].ack /\ k.alarm = skt[s].alarm /\ k.data = t /\ k.receive = skt[s].receive
        /\ k.receive_count = skt[s].receive_count /\ k.synchonize = skt[s].synchonize
    BY <1>1, <2>2, <2>3 DEF Struct
  <2>5. Set(s, k)
    BY <1>1, <1>4, <2>1, <2>3 DEF Struct
  <2>6. skt'[s] = k /\ p.seq \in Nat
    BY <1>1, <2>2, <2>4, <2>5, SetFacts DEF Entry
  <2>7. \* what is left in the queue is in order, and after the packet that was taken
        \A i \in DOMAIN t : Kept(t[i]) =>
            /\ t[i].seq <= k.ack
            /\ \A j \in DOMAIN read[s] : read[s][j] < t[i].seq
            /\ \A j \in DOMAIN t : i < j /\ Kept(t[j]) => t[i].seq < t[j].seq
            /\ Kept(p) => p.seq < t[i].seq
    <3>1. \A i \in DOMAIN q : Kept(q[i]) =>
              /\ q[i].seq <= k.ack
              /\ \A j \in DOMAIN read[s] : read[s][j] < q[i].seq
              /\ \A j \in DOMAIN q : i < j /\ Kept(q[j]) => q[i].seq < q[j].seq
      BY <1>2, <2>1, <2>4 DEF ReadOf
    <3> SUFFICES ASSUME NEW i \in DOMAIN t, Kept(t[i])
                 PROVE  /\ t[i].seq <= k.ack
                        /\ \A j \in DOMAIN read[s] : read[s][j] < t[i].seq
                        /\ \A j \in DOMAIN t : i < j /\ Kept(t[j]) => t[i].seq < t[j].seq
                        /\ Kept(p) => p.seq < t[i].seq
      OBVIOUS
    <3>2. i \in Nat /\ i > 0 /\ i + 1 \in DOMAIN q /\ t[i] = q[i + 1] /\ Kept(q[i + 1])
      BY <2>2
    <3>3. ASSUME NEW j \in DOMAIN t, i < j, Kept(t[j]) PROVE t[i].seq < t[j].seq
      <4>1. j \in Nat /\ j + 1 \in DOMAIN q /\ t[j] = q[j + 1] /\ Kept(q[j + 1]) /\ i + 1 < j + 1
        BY <2>2, <3>2, <3>3
      <4> QED
        BY <3>1, <3>2, <4>1
    <3>4. Kept(p) => p.seq < t[i].seq
      <4>1. 1 < i + 1
        BY <3>2
      <4> QED
        BY <2>2, <3>1, <3>2, <4>1
    <3> QED
      BY <3>1, <3>2, <3>3, <3>4
  <2>8. Kept(p) => p.seq <= k.ack /\ \A j \in DOMAIN read[s] : read[s][j] < p.seq
    BY <1>2, <2>1, <2>2, <2>4 DEF ReadOf
  <2>9. /\ \A i \in DOMAIN read[s] : read[s][i] <= k.ack
        /\ \A i, j \in DOMAIN read[s] : i < j => read[s][i] < read[s][j]
    BY <1>2, <2>4 DEF ReadOf
  <2>10. CASE read' = copied(s, p) /\ UNCHANGED rcv
    <3>1. PICK r : r = rcv[s]
      OBVIOUS
    <3>2. r \in RcvType /\ r.at = "loop" /\ rcv' = [rcv EXCEPT ![s] = r] /\ rcv'[s] = r
      BY <1>1, <2>10, <3>1 DEF TypeInv
    <3>3. CASE p.data /\ Kept(p)
      <4>1. PICK z : z = Append(read[s], p.seq)
        OBVIOUS
      <4>2. read' = [read EXCEPT ![s] = z]
        BY <2>10, <3>3, <4>1 DEF copied, Kept
      <4>3. /\ z \in Seq(Nat)
            /\ \A i \in DOMAIN z : i \in Nat /\ ((i \in DOMAIN read[s] /\ z[i] = read[s][i]) \/ z[i] = p.seq)
            /\ \A i, j \in DOMAIN z : i < j => i \in DOMAIN read[s] /\ z[i] = read[s][i]
        BY <1>1, <2>6, <4>1, AppendFacts
      <4>4. read' \in [Socket -> Seq(Nat)] /\ Elsewhere(read, read', s) /\ read'[s] = z
        BY <1>1, <4>2, <4>3 DEF TypeInv, Elsewhere
      <4>5. ReadOf(s)'
        <5>1. \A i \in DOMAIN z : z[i] <= k.ack
          BY <2>8, <2>9, <3>3, <4>3
        <5>2. \A i, j \in DOMAIN z : i < j => z[i] < z[j]
          BY <2>8, <2>9, <3>3, <4>3
        <5>3. \A i \in DOMAIN t : Kept(t[i]) => \A j \in DOMAIN z : z[j] < t[i].seq
          BY <2>7, <3>3, <4>3
        <5> QED
          BY <2>4, <2>6, <2>7, <3>2, <4>4, <5>1, <5>2, <5>3 DEF ReadOf, Kept
      <4> QED
        BY <1>1, <2>4, <2>5, <3>2, <4>4, <4>5, QueueStep
    <3>4. CASE ~(p.data /\ Kept(p))
      <4>1. read' = read
        BY <2>10, <3>4 DEF copied, Kept
      <4>2. read' \in [Socket -> Seq(Nat)] /\ Elsewhere(read, read', s)
        BY <1>1, <4>1 DEF TypeInv, Elsewhere
      <4>3. ReadOf(s)'
        BY <2>4, <2>6, <2>7, <2>9, <3>2, <4>1 DEF ReadOf, Kept
      <4> QED
        BY <1>1, <2>4, <2>5, <3>2, <4>2, <4>3, QueueStep
    <3> QED
      BY <3>3, <3>4
  <2>11. CASE Rcv(s, [at |-> "rest", packet |-> p]) /\ UNCHANGED read
    <3>1. PICK r : r = [at |-> "rest", packet |-> p]
      OBVIOUS
    <3>2. r \in RcvType /\ r.at = "rest" /\ r.packet = p /\ rcv' = [rcv EXCEPT ![s] = r]
      BY <2>2, <2>11, <3>1 DEF RcvType, Rcv
    <3>3. rcv'[s] = r
      BY <1>1, <3>2 DEF TypeInv
    <3>4. read' \in [Socket -> Seq(Nat)] /\ Elsewhere(read, read', s)
      BY <1>1, <2>11 DEF TypeInv, Elsewhere
    <3>5. ReadOf(s)'
      BY <2>4, <2>6, <2>7, <2>8, <2>9, <2>11, <3>2, <3>3 DEF ReadOf, Kept
    <3> QED
      BY <1>1, <2>4, <2>5, <3>2, <3>4, <3>5, QueueStep
  <2> QED
    BY <1>4, <2>1, <2>10, <2>11
<1> QED
  BY <1>3, <1>4 DEF ReceiveLoop

\* ReceivePrepend
LEMMA ReceivePrependStep ==
    ASSUME IInv, NEW s \in Socket, ReceivePrepend(s)
    PROVE  IInv'
<1>1. /\ TypeInv /\ skt[s] \in Struct /\ rcv[s].at = "rest" /\ UNCHANGED <<tx, app, cls, endVars, net, sentOk, read>>
      /\ skt[s].data \in Seq(Entry) /\ skt[s].receive \in Nat /\ rcv[s] \in RcvType
      /\ Rcv(s, Idle) /\ Set(s, [skt[s] EXCEPT !.data = <<rcv[s].packet>> \o @, !.receive = @ + 1])
  BY DEF IInv, TypeInv, ReceivePrepend, Struct, ghosts
<1>2. PICK q, p, t, n : q = skt[s].data /\ p = rcv[s].packet /\ t = <<p>> \o q /\ n = skt[s].receive + 1
  OBVIOUS
<1>3. p \in Entry
  BY <1>1, <1>2 DEF RcvType
<1>4. /\ t \in Seq(Entry) /\ n \in Nat /\ n > 0
      /\ \A i \in DOMAIN t : i \in Nat /\ ((i = 1 /\ t[i] = p) \/ (i > 1 /\ i - 1 \in DOMAIN q /\ t[i] = q[i - 1]))
  BY <1>1, <1>2, <1>3, PrependFacts
<1>5. PICK k : k = [skt[s] EXCEPT !.data = t, !.receive = n]
  OBVIOUS
<1>6. /\ k \in Struct /\ k.state = skt[s].state /\ k.remote = skt[s].remote /\ k.seq = skt[s].seq
      /\ k.ack = skt[s].ack /\ k.alarm = skt[s].alarm /\ k.data = t /\ k.receive = n
      /\ k.receive_count = skt[s].receive_count /\ k.synchonize = skt[s].synchonize
  BY <1>1, <1>4, <1>5 DEF Struct
<1>7. Set(s, k)
  BY <1>1, <1>2, <1>5 DEF Struct
<1>8. skt'[s] = k
  BY <1>1, <1>6, <1>7, SetFacts
<1>9. PICK r : r = Idle
  OBVIOUS
<1>10. r \in RcvType /\ r.at = "idle" /\ rcv' = [rcv EXCEPT ![s] = r] /\ rcv'[s] = r
  BY <1>1, <1>9 DEF Idle, RcvType, Rcv, TypeInv
<1>11. ReadOf(s)'
  <2>1. ReadOf(s)
    BY DEF IInv, ReadInv
  <2>2. \A i \in DOMAIN t : Kept(t[i]) =>
            /\ t[i].seq <= k.ack
            /\ \A j \in DOMAIN read[s] : read[s][j] < t[i].seq
            /\ \A j \in DOMAIN t : i < j /\ Kept(t[j]) => t[i].seq < t[j].seq
    <3>1. \A i \in DOMAIN q : Kept(q[i]) =>
              /\ q[i].seq <= k.ack
              /\ \A j \in DOMAIN read[s] : read[s][j] < q[i].seq
              /\ \A j \in DOMAIN q : i < j /\ Kept(q[j]) => q[i].seq < q[j].seq
      BY <1>2, <1>6, <2>1 DEF ReadOf
    <3>2. Kept(p) => /\ p.seq <= k.ack
                     /\ \A j \in DOMAIN read[s] : read[s][j] < p.seq
                     /\ \A j \in DOMAIN q : Kept(q[j]) => p.seq < q[j].seq
      BY <1>1, <1>2, <1>6, <2>1 DEF ReadOf
    <3> SUFFICES ASSUME NEW i \in DOMAIN t, Kept(t[i])
                 PROVE  /\ t[i].seq <= k.ack
                        /\ \A j \in DOMAIN read[s] : read[s][j] < t[i].seq
                        /\ \A j \in DOMAIN t : i < j /\ Kept(t[j]) => t[i].seq < t[j].seq
      OBVIOUS
    <3>3. i \in Nat /\ ((i = 1 /\ t[i] = p) \/ (i > 1 /\ i - 1 \in DOMAIN q /\ t[i] = q[i - 1]))
      BY <1>4
    <3>4. ASSUME NEW j \in DOMAIN t, i < j, Kept(t[j]) PROVE t[i].seq < t[j].seq
      <4>1. j \in Nat /\ ((j = 1 /\ t[j] = p) \/ (j > 1 /\ j - 1 \in DOMAIN q /\ t[j] = q[j - 1]))
        BY <1>4
      <4>2. j - 1 \in DOMAIN q /\ t[j] = q[j - 1] /\ Kept(q[j - 1]) /\ i - 1 < j - 1
        BY <1>4, <3>3, <3>4, <4>1
      <4> QED
        BY <3>1, <3>2, <3>3, <4>2
    <3> QED
      BY <3>1, <3>2, <3>3, <3>4
  <2>3. /\ \A i \in DOMAIN read[s] : read[s][i] <= k.ack
        /\ \A i, j \in DOMAIN read[s] : i < j => read[s][i] < read[s][j]
    BY <1>6, <2>1 DEF ReadOf
  <2> QED
    BY <1>1, <1>6, <1>8, <1>10, <2>2, <2>3 DEF ReadOf, Kept
<1>12. read' \in [Socket -> Seq(Nat)] /\ Elsewhere(read, read', s)
  BY <1>1 DEF TypeInv, Elsewhere
<1> QED
  BY <1>1, <1>4, <1>6, <1>7, <1>10, <1>11, <1>12, QueueStep
\* ProcessPacket
LEMMA ProcessEffect ==
    ASSUME IInv, NEW m \in net, ProcessPacket(m), NEW s, s = m.dst, NEW k, k = skt[s], NEW j, j = skt'[s]
    PROVE  /\ m \in Packet /\ s \in exists /\ s \in Socket /\ k \in Struct /\ j \in Struct
           /\ app[s] # "new" /\ OnlyOf(s) /\ Reacts(m, k, j)
           /\ \A p \in net' : p \in net \/ (p \in Packet /\ (Acknowledges(s, m, k, j, p) \/ Refuses(m, k, p)))
           /\ (\A p \in net : p \in net')
           /\ UNCHANGED <<threadVars, exists, sentOk, read>>
           /\ closing' = closing \/ (j.state = "TIMEWAIT" /\ closing' = closing \cup {s})
           /\ TypeInv'
<1>1. PICK w : w = process(m.dst, m)
  OBVIOUS
<1>2. /\ m.dst \in exists /\ Set(s, w.k) /\ net' = net \cup w.out
      /\ finAlarm' \subseteq finAlarm \cup {s}
      /\ closing' = closing \/ (w.k.state = "TIMEWAIT" /\ closing' = closing \cup {s})
      /\ UNCHANGED <<threadVars, exists, cleanup, sentOk, read>>
  BY <1>1 DEF ProcessPacket
<1>3. /\ w \in Work /\ Reacts(m, skt[m.dst], w.k)
      /\ \A p \in w.out : Acknowledges(m.dst, m, skt[m.dst], w.k, p) \/ Refuses(m, skt[m.dst], p)
  BY <1>1, <1>2, ProcessFacts
<1>4. m \in Packet /\ s \in exists /\ s \in Socket /\ k \in Struct /\ TypeInv /\ w.k \in Struct /\ w.out \subseteq Packet
  BY <1>2, <1>3 DEF IInv, TypeInv, Work
<1>5. skt' \in [Socket -> Struct] /\ j = w.k /\ Elsewhere(skt, skt', s)
  BY <1>2, <1>4, SetFacts
<1>6. app[s] # "new"
  BY <1>4 DEF IInv, CallInv, CallOf
<1>7. OnlyOf(s)
  BY <1>2, <1>5 DEF OnlyOf, Elsewhere, threadVars
<1>8. TypeInv'
  BY <1>2, <1>4, <1>5 DEF TypeInv, threadVars
<1> QED
  BY <1>2, <1>3, <1>4, <1>5, <1>6, <1>7, <1>8

\* What holds of the socket that takes the packet: an end of a connection to m.src.
LEMMA ProcessSteady ==
    ASSUME IInv, NEW m \in net, ProcessPacket(m), NEW s, s = m.dst, NEW k, k = skt[s], NEW j, j = skt'[s]
    PROVE  /\ j.seq = k.seq /\ j.ack >= k.ack
           /\ k.state = "LISTEN" => s = Server /\ (k.seq = 0 => k.remote = NoSocket) /\ app[s] = "listen"
           /\ j.remote = k.remote \/ Listens(m, k, j)
           /\ Listens(m, k, j) => j.ack = 1 /\ m.src \in Client
           /\ k.remote \in Socket \/ k.state = "LISTEN"
           /\ m.src = Server <=> s # Server
           /\ s \in Client => j.remote = Server /\ k.remote = Server
<1>1. /\ m \in Packet /\ s \in Socket /\ k \in Struct /\ j \in Struct /\ app[s] # "new" /\ Reacts(m, k, j)
      /\ m.src \in Socket /\ m.seq \in Nat /\ k.ack \in Nat
  BY ProcessEffect, SMTT(20) DEF Packet, Struct
<1>2. k.state = "LISTEN" => /\ s = Server /\ (k.seq = 0 => k.remote = NoSocket) /\ k.ack <= 1
                            /\ app[s] = "listen"
  BY <1>1 DEF IInv, RoleInv, RoleOf, ServerInv, Socket
<1>3. m.src = Server <=> s # Server
  BY DEF IInv, RoleInv
<1>4. Listens(m, k, j) => j.ack = 1 /\ m.src \in Client
  BY <1>1, <1>2, <1>3 DEF Listens, IInv, RoleInv, Socket
<1>5. k.remote \in Socket \/ k.state = "LISTEN"
  BY <1>1, Peer
<1>6. s \in Client => k.remote = Server /\ j.remote = Server
  <2>1. s \in Client => k.remote = Server
    BY <1>1 DEF IInv, RoleInv, RoleOf
  <2> QED
    BY <1>1, <1>2, <2>1, SocketAssumption DEF Reacts, Listens
<1>7. j.ack >= k.ack
  <2>1. CASE Listens(m, k, j)
    BY <1>1, <1>2, <1>4, <2>1 DEF Listens
  <2>2. CASE Answered(m, k, j)
    <3>1. k.ack = 0
      BY <1>1, <2>2, SocketAssumption DEF Answered, IInv, RoleInv, RoleOf, ServerInv, Socket
    <3> QED
      BY <1>1, <2>2, <3>1 DEF Answered
  <2> QED
    BY <1>1, <2>1, <2>2, SMTT(20) DEF Reacts, Counts, Keeps, Frees
<1> QED
  BY <1>1, <1>2, <1>3, <1>4, <1>5, <1>6, <1>7 DEF Reacts, Forward

\* No packet that is counted is ahead of its sender: a refusal does not come from the peer.
LEMMA CountedSent ==
    ASSUME IInv, NEW m \in net, NEW s, s = m.dst, NEW k, k = skt[s], m.src = k.remote, s \in Socket, app[s] # "new",
           \/ m.type = "SYNACK"
           \/ k.state \in {"SYNRECEIVED", "ESTABLISHED", "LASTACK"} /\ m.seq = k.ack + 1
    PROVE  m.seq <= skt[m.src].seq
<1>1. m.seq <= skt[m.src].seq \/ Refusal(m)
  BY DEF IInv, NetInv
<1>2. CASE Refusal(m)
  <2>1. m.src = Server /\ m.seq = 1 /\ m.type = "FIN" /\ skt[Server].remote # s
    BY <1>2 DEF Refusal
  <2>2. s \in Client
    BY <2>1 DEF IInv, RoleInv, Socket
  <2>3. k.state \in {"ESTABLISHED", "LASTACK"} /\ k.ack \in Nat /\ skt[Server].seq \in Nat
    <3>1. skt[Server] \in Struct /\ k \in Struct
      BY DEF IInv, TypeInv, Socket
    <3> QED
      BY <2>1, <2>2, <3>1 DEF IInv, RoleInv, RoleOf, Struct
  <2>4. k.ack = 0
    BY <2>1, <2>3
  <2>5. skt[Server].seq # 0
    BY <2>1, <2>2, <2>3, <2>4 DEF IInv, NetInv
  <2> QED
    BY <2>1, <2>3, <2>5
<1> QED
  BY <1>1, <1>2
\* The packets sent meanwhile.
LEMMA ProcessSends ==
    ASSUME IInv, NEW m \in net, ProcessPacket(m), NEW s, s = m.dst, NEW k, k = skt[s], NEW j, j = skt'[s],
           NEW p \in net', p \notin net
    PROVE  /\ p.src = s /\ (p.src = Server <=> p.dst # Server) /\ p.type \in {"ACK", "FIN"}
           /\ p.seq <= j.seq \/ Refusal(p)'
           /\ p.type # "FIN" => p.ack <= j.ack
           /\ s = Server /\ p.seq = 0 /\ j.seq = 0 => j.remote = p.dst
<1>1. /\ m \in Packet /\ s \in Socket /\ k \in Struct /\ j \in Struct /\ app[s] # "new"
      /\ p \in Packet /\ (Acknowledges(s, m, k, j, p) \/ Refuses(m, k, p))
  BY ProcessEffect
<1>2. /\ j.seq = k.seq
      /\ k.state = "LISTEN" => s = Server /\ (k.seq = 0 => k.remote = NoSocket)
      /\ j.remote = k.remote \/ Listens(m, k, j)
      /\ k.remote \in Socket \/ k.state = "LISTEN"
      /\ m.src = Server <=> s # Server
      /\ s \in Client => k.remote = Server
  BY ProcessSteady
<1>3. k.seq \in Nat /\ p.seq \in Nat /\ m.src \in Socket /\ NoSocket \notin Socket /\ Server \notin Client
  BY <1>1, SocketAssumption DEF Struct, Packet, Socket
<1>4. CASE Acknowledges(s, m, k, j, p)
  <2>1. /\ p.src = s /\ p.dst = m.src /\ m.src = k.remote /\ p.type = "ACK" /\ p.seq = k.seq /\ p.ack <= j.ack
    BY <1>4 DEF Acknowledges
  <2>2. s = Server /\ j.seq = 0 => j.remote = p.dst
    BY <1>2, <1>3, <2>1 DEF Listens
  <2> QED
    BY <1>2, <1>3, <2>1, <2>2
<1>5. CASE Refuses(m, k, p)
  <2>1. /\ k.state \notin {"LISTEN", "SYNSENT"} /\ m.src # k.remote
        /\ p.type = "FIN" /\ p.src = s /\ p.dst = m.src /\ p.seq = 1
    BY <1>5 DEF Refuses
  <2>2. s = Server
    BY <1>1, <1>2, <2>1 DEF Socket
  <2>3. j.remote = k.remote /\ k.remote # NoSocket
    BY <1>2, <1>3, <2>1 DEF Listens
  <2>4. Refusal(p)'
    BY <2>1, <2>2, <2>3 DEF Refusal
  <2> QED
    BY <1>2, <2>1, <2>2, <2>4
<1> QED
  BY <1>1, <1>4, <1>5

LEMMA ProcessNet ==
    ASSUME IInv, NEW m \in net, ProcessPacket(m), NEW s, s = m.dst, NEW k, k = skt[s], NEW j, j = skt'[s]
    PROVE  NetInv'
<1>1. /\ m \in Packet /\ s \in Socket /\ k \in Struct /\ j \in Struct /\ OnlyOf(s) /\ Reacts(m, k, j)
      /\ TypeInv /\ TypeInv'
  BY ProcessEffect DEF IInv
<1>2. /\ j.seq = k.seq /\ j.ack >= k.ack
      /\ k.state = "LISTEN" => s = Server /\ (k.seq = 0 => k.remote = NoSocket)
      /\ j.remote = k.remote \/ Listens(m, k, j)
      /\ m.src = Server <=> s # Server
      /\ s \in Client => k.remote = Server
  BY ProcessSteady
<1>3. Server \in Socket /\ NoSocket \notin Socket /\ Client \subseteq Socket /\ Server \notin Client
  BY SocketAssumption DEF Socket
<1>4. \A u \in Socket : u # s => skt'[u] = skt[u]
  BY <1>1 DEF OnlyOf, Elsewhere
<1>5. \A u \in Socket : /\ skt'[u].seq = skt[u].seq /\ skt'[u].ack >= skt[u].ack
                        /\ skt[u].ack \in Nat /\ skt'[u].ack \in Nat /\ skt[u].seq \in Nat
  <2>1. \A u \in Socket : skt[u].ack \in Nat /\ skt'[u].ack \in Nat /\ skt[u].seq \in Nat
    BY <1>1 DEF TypeInv, Struct
  <2> QED
    BY <1>2, <1>4, <2>1
<1>6. skt[Server].seq = 0 /\ skt[Server].remote # NoSocket => skt'[Server].remote = skt[Server].remote
  BY <1>2, <1>3, <1>4 DEF Listens
<1>7. ASSUME NEW p \in net'
      PROVE  /\ p.seq <= skt'[p.src].seq \/ Refusal(p)'
             /\ p.type # "FIN" => p.ack <= skt'[p.src].ack
             /\ p.src = Server /\ p.seq = 0 /\ skt'[Server].seq = 0 => skt'[Server].remote = p.dst
  <2>1. CASE p \in net
    <3>1. /\ p.src \in Socket /\ p.dst \in Socket /\ p.seq \in Nat /\ p.ack \in Nat
      BY <1>1, <2>1 DEF TypeInv, Packet
    <3>2. /\ p.seq <= skt[p.src].seq \/ Refusal(p)
          /\ p.type # "FIN" => p.ack <= skt[p.src].ack
          /\ p.src = Server /\ p.seq = 0 /\ skt[Server].seq = 0 => skt[Server].remote = p.dst
      BY <2>1 DEF IInv, NetInv
    <3>3. p.seq <= skt'[p.src].seq \/ Refusal(p)'
      <4>1. CASE p.seq <= skt[p.src].seq
        BY <1>5, <3>1, <4>1
      <4>2. CASE Refusal(p)
        <5>1. p.type = "FIN" /\ p.src = Server /\ p.seq = 1 /\ skt[Server].remote \notin {NoSocket, p.dst}
          BY <4>2 DEF Refusal
        <5>2. CASE skt[Server].seq = 0
          BY <1>6, <5>1, <5>2 DEF Refusal
        <5>3. CASE skt[Server].seq # 0
          BY <1>3, <1>5, <5>1, <5>3
        <5> QED
          BY <5>2, <5>3
      <4> QED
        BY <3>2, <4>1, <4>2
    <3>4. p.type # "FIN" => p.ack <= skt'[p.src].ack
      BY <1>5, <3>1, <3>2
    <3>5. p.src = Server /\ p.seq = 0 /\ skt'[Server].seq = 0 => skt'[Server].remote = p.dst
      BY <1>3, <1>5, <1>6, <3>1, <3>2
    <3> QED
      BY <3>3, <3>4, <3>5
  <2>2. CASE p \notin net
    <3>1. /\ p.src = s
          /\ p.seq <= j.seq \/ Refusal(p)'
          /\ p.type # "FIN" => p.ack <= j.ack
          /\ s = Server /\ p.seq = 0 /\ j.seq = 0 => j.remote = p.dst
      BY <2>2, ProcessSends
    <3> QED
      BY <3>1
  <2> QED
    BY <2>1, <2>2
<1>8. ASSUME NEW c \in Client, skt'[c].state \in {"ESTABLISHED", "LASTACK"}, skt'[c].ack = 0, skt'[Server].seq = 0
      PROVE  skt'[Server].remote = c
  <2>1. skt[Server].seq = 0 /\ skt[c].ack = 0
    BY <1>3, <1>5, <1>8
  <2>2. skt[Server].remote = c
    <3>1. CASE skt[c].state \in {"ESTABLISHED", "LASTACK"}
      BY <2>1, <3>1 DEF IInv, NetInv
    <3>2. CASE skt[c].state \notin {"ESTABLISHED", "LASTACK"}
      <4>1. c = s
        BY <1>3, <1>4, <1>8, <3>2
      <4>2. k.state = "SYNSENT" /\ j.state = "ESTABLISHED"
        <5>1. <<k.state, j.state>> \in Moves
          BY <1>1, <1>8, <3>2, <4>1 DEF Reacts, Forward
        <5>2. k.state # "SYNRECEIVED"
          BY <4>1 DEF IInv, RoleInv, RoleOf
        <5> QED
          BY <1>8, <3>2, <4>1, <5>1, <5>2 DEF Moves
      <4>3. j.ack = m.seq /\ m.src = Server
        BY <1>1, <1>2, <1>3, <4>1, <4>2 DEF Reacts, Listens
      <4> QED
        BY <1>8, <2>1, <4>1, <4>3 DEF IInv, NetInv
    <3> QED
      BY <3>1, <3>2
  <2> QED
    BY <1>3, <1>6, <2>1, <2>2
<1> QED
  BY <1>7, <1>8 DEF NetInv

LEMMA ProcessRoles ==
    ASSUME IInv, NEW m \in net, ProcessPacket(m), NEW s, s = m.dst, NEW k, k = skt[s], NEW j, j = skt'[s]
    PROVE  RoleInv' /\ ServerInv'
<1>1. /\ m \in Packet /\ s \in Socket /\ k \in Struct /\ j \in Struct /\ OnlyOf(s) /\ Reacts(m, k, j)
      /\ app[s] # "new" /\ app' = app /\ k.state \in State /\ m.src \in Socket
      /\ closing' = closing \/ (j.state = "TIMEWAIT" /\ closing' = closing \cup {s})
  BY ProcessEffect, SMTT(30) DEF threadVars, Struct, Packet
<1>2. /\ j.seq = k.seq
      /\ k.state = "LISTEN" => s = Server /\ app[s] = "listen"
      /\ j.remote = k.remote \/ Listens(m, k, j)
      /\ Listens(m, k, j) => j.ack = 1
      /\ m.src = Server <=> s # Server
      /\ s \in Client => j.remote = Server /\ k.remote = Server
  BY ProcessSteady
<1>3. Server \in Socket /\ NoSocket \notin Socket /\ Client \subseteq Socket /\ Server \notin Client
  BY SocketAssumption DEF Socket
<1>4. \A u \in Socket : u # s => skt'[u] = skt[u]
  BY <1>1 DEF OnlyOf, Elsewhere
<1>5. RoleInv'
  <2>1. ASSUME NEW c \in Client PROVE RoleOf(c)'
    <3>1. CASE c # s
      BY <1>1, <1>3, <1>4, <3>1 DEF IInv, RoleInv, RoleOf
    <3>2. CASE c = s
      <4>1. RoleOf(c)
        BY DEF IInv, RoleInv
      <4>2. j.state \notin {"LISTEN", "SYNRECEIVED"} /\ (j.state = "SYNSENT" => k.state = "SYNSENT")
        BY <1>1, <3>2, <4>1 DEF Reacts, Forward, Moves, RoleOf
      <4>3. j.state = "SYNSENT" => j.ack = k.ack
        BY <1>1, <1>2, <1>3, <3>2, <4>2 DEF Reacts, Listens, Answered, Counts, Keeps, Frees
      <4> QED
        BY <1>1, <1>2, <3>2, <4>1, <4>2, <4>3 DEF RoleOf
    <3> QED
      BY <3>1, <3>2
  <2>2. ASSUME NEW p \in net'
        PROVE  /\ p.src = Server <=> p.dst # Server
               /\ p.type = "SYN" => p.src # Server /\ p.seq = 1
               /\ p.type = "SYNACK" => p.src = Server /\ p.seq > 0 /\ p.ack = 1
    <3>1. CASE p \in net
      BY <3>1 DEF IInv, RoleInv
    <3>2. CASE p \notin net
      BY <3>2, ProcessSends
    <3> QED
      BY <3>1, <3>2
  <2> QED
    BY <2>1, <2>2 DEF RoleInv
<1>6. ServerInv'
  <2>1. CASE s # Server
    <3>1. Server \in closing' => Server \in closing
      BY <1>1, <2>1
    <3> QED
      BY <1>1, <1>3, <1>4, <2>1, <3>1 DEF IInv, ServerInv
  <2>2. CASE s = Server
    <3>1. Server \in closing' => j.state \in {"LASTACK", "TIMEWAIT", "CLOSED"}
      <4>1. CASE Server \in closing
        BY <1>1, <2>2, <4>1 DEF IInv, ServerInv, Reacts, Forward, Moves
      <4> QED
        BY <1>1, <4>1
    <3>2. CASE Listens(m, k, j)
      BY <1>1, <1>2, <1>3, <2>2, <3>1, <3>2 DEF Listens, IInv, ServerInv
    <3>3. CASE ~Listens(m, k, j)
      <4>1. /\ j.remote = k.remote /\ j.synchonize = k.synchonize
            /\ j.state # "SYNRECEIVED" \/ j.state = k.state
        BY <1>1, <3>3 DEF Reacts
      <4>2. /\ (j.state = "LISTEN" <=> k.state = "LISTEN") /\ j.state # "SYNSENT" /\ k.state # "SYNSENT"
        BY <1>1, <2>2, <4>1, SMTT(30) DEF IInv, ServerInv, Reacts, Forward, Moves
      <4>3. j.state \in {"LISTEN", "SYNRECEIVED"} => j.ack = k.ack
        BY <1>1, <3>3, <4>1, <4>2 DEF Reacts, Answered, Counts, Keeps, Frees
      <4> QED
        BY <1>1, <1>2, <2>2, <3>1, <4>1, <4>2, <4>3 DEF IInv, ServerInv
    <3> QED
      BY <3>2, <3>3
  <2> QED
    BY <2>1, <2>2
<1> QED
  BY <1>5, <1>6
\* The threads and the queue of the socket.
LEMMA ProcessLocal ==
    ASSUME IInv, NEW m \in net, ProcessPacket(m), NEW s, s = m.dst, NEW k, k = skt[s], NEW j, j = skt'[s]
    PROVE  CallOf(s)' /\ TransmitOf(s)' /\ ReadOf(s)' /\ WakeOf(s)'
<1>1. /\ m \in Packet /\ s \in Socket /\ k \in Struct /\ j \in Struct /\ OnlyOf(s) /\ Reacts(m, k, j)
      /\ app[s] # "new" /\ UNCHANGED <<tx, app, rcv, cls, exists, sentOk, read>>
      /\ k.ack \in Nat /\ j.ack \in Nat /\ k.receive \in Nat /\ j.receive \in Nat /\ k.seq \in Nat
      /\ m.seq \in Nat /\ m.ack \in Nat /\ m.src \in Socket /\ k.data \in Seq(Entry)
  BY ProcessEffect DEF threadVars, Struct, Packet
<1>2. /\ j.seq = k.seq /\ j.ack >= k.ack
      /\ k.state = "LISTEN" => app[s] = "listen"
      /\ j.remote = k.remote \/ Listens(m, k, j)
      /\ m.src = Server <=> s # Server
  BY ProcessSteady
<1>3. \A u \in Socket : u # s => skt'[u] = skt[u]
  BY <1>1 DEF OnlyOf, Elsewhere
<1>4. CallOf(s) /\ TransmitOf(s) /\ ReadOf(s) /\ WakeOf(s)
  BY <1>1 DEF IInv, CallInv, TransmitInv, ReadInv, WakeInv
<1>5. CallOf(s)'
  BY <1>1, <1>4 DEF CallOf, Returned, Reacts, Forward, Moves
<1>6. TransmitOf(s)'
  <2> SUFFICES ASSUME tx[s].at # "idle" PROVE TransmitOf(s)'
    BY <1>1 DEF TransmitOf
  <2>2. tx[s].hdr.ack \in Nat /\ j.remote = k.remote /\ (j.alarm = k.alarm \/ Cancels(m, k, j))
    <3>1. app[s] # "listen" /\ tx[s].hdr \in Packet
      BY <1>1, UnderWay
    <3> QED
      BY <1>1, <1>2, <3>1 DEF Reacts, Listens, Packet
  <2>3. k.remote \in Socket /\ k.remote # s
    BY <1>1, HeaderFacts
  <2>4. tx[s].at = "wait" /\ j.alarm = "SUCCESS" => skt[k.remote].ack >= k.seq
    <3>1. CASE Cancels(m, k, j)
      <4>1. m.ack <= skt[m.src].ack /\ skt[m.src].ack \in Nat
        BY <1>1, <3>1 DEF Cancels, IInv, NetInv, TypeInv, Struct
      <4> QED
        BY <1>1, <3>1, <4>1 DEF Cancels
    <3>2. CASE j.alarm = k.alarm
      BY <1>4, <3>2 DEF TransmitOf
    <3> QED
      BY <2>2, <3>1, <3>2
  <2> QED
    BY <1>1, <1>2, <1>3, <1>4, <2>2, <2>3, <2>4 DEF TransmitOf
<1>7. PICK e : e = [seq |-> m.seq, data |-> m.data, freed |-> TRUE]
  OBVIOUS
<1>8. PICK d : d = [seq |-> m.seq, data |-> m.data, freed |-> FALSE]
  OBVIOUS
<1>9. e \in Entry /\ d \in Entry /\ ~Kept(e) /\ d.seq = m.seq
  BY <1>1, <1>7, <1>8, SMTT(30) DEF Entry, Packet, Kept
<1>10. \* the queue is as it was, or a packet is alone in it, or one that will be freed is at its end
       \/ j.data = k.data
       \/ /\ k.data = << >> /\ j.data = Append(k.data, d) /\ m.seq = k.ack + 1 /\ j.ack = k.ack + 1
          /\ j.state = "ESTABLISHED" /\ j.receive > 0
       \/ k.data # << >> /\ j.data = Append(k.data, e) /\ j.state = "ESTABLISHED"
  BY <1>1, <1>7, <1>8 DEF Reacts, Listens, Answered, Keeps, Frees, Counts
<1>11. j.state = "ESTABLISHED" /\ k.state # "ESTABLISHED" => k.state \in Handshake
  BY <1>1 DEF Reacts, Forward, Moves, Handshake
<1>12. k.state \notin Handshake => j.state \notin Handshake
  BY <1>1 DEF Reacts, Forward, Moves, Handshake
<1>13. ReadOf(s)'
  <2>1. /\ \A i \in DOMAIN read[s] : read[s][i] \in Nat /\ read[s][i] <= k.ack /\ read[s][i] <= j.ack
        /\ \A x, y \in DOMAIN read[s] : x < y => read[s][x] < read[s][y]
    <3>1. PICK r : r = read[s]
      OBVIOUS
    <3>2. r \in Seq(Nat)
      BY <1>1, <3>1 DEF IInv, TypeInv
    <3>3. \A i \in DOMAIN r : r[i] \in Nat
      BY <3>2
    <3>4. k.ack \in Nat /\ j.ack \in Nat /\ k.ack <= j.ack
      BY <1>1, <1>2, <1>4 DEF Struct
    <3>5. /\ \A i \in DOMAIN r : r[i] <= k.ack
          /\ \A x, y \in DOMAIN r : x < y => r[x] < r[y]
      BY <1>1, <1>2, <1>4, <3>1 DEF ReadOf
    <3>6. \A i \in DOMAIN r : r[i] <= j.ack
      BY <3>3, <3>4, <3>5, SMTT(30)
    <3> QED
      BY <3>1, <3>3, <3>5, <3>6
  <2>2. \A i \in DOMAIN k.data : Kept(k.data[i]) =>
            /\ k.data[i].seq <= k.ack /\ k.data[i].seq <= j.ack
            /\ \A y \in DOMAIN read[s] : read[s][y] < k.data[i].seq
            /\ \A y \in DOMAIN k.data : i < y /\ Kept(k.data[y]) => k.data[i].seq < k.data[y].seq
    <3>1. \A i \in DOMAIN k.data : k.data[i].seq \in Nat
      <4>1. PICK q : q = k.data
        OBVIOUS
      <4>2. q \in Seq(Entry)
        BY <1>1, <4>1 DEF Struct
      <4>3. \A i \in DOMAIN q : q[i] \in Entry
        BY <4>2
      <4>4. \A v \in Entry : v.seq \in Nat
        BY DEF Entry
      <4> QED
        BY <4>1, <4>3, <4>4
    <3> QED
      BY <1>1, <1>2, <1>4, <3>1, SMTT(20) DEF ReadOf
  <2>3. PICK part : part = rcv[s].packet
    OBVIOUS
  <2>4. rcv[s].at = "rest" /\ Kept(part) =>
            /\ part.seq <= k.ack /\ part.seq <= j.ack /\ part.seq \in Nat
            /\ \A y \in DOMAIN read[s] : read[s][y] < part.seq
            /\ \A y \in DOMAIN k.data : Kept(k.data[y]) => part.seq < k.data[y].seq
    <3>1. rcv[s].at = "rest" => part.seq \in Nat
      BY <1>1, <2>3 DEF IInv, TypeInv, RcvType, Entry
    <3> QED
      BY <1>1, <1>2, <1>4, <2>3, <3>1, SMTT(20) DEF ReadOf
  <2>5. \A i \in DOMAIN j.data : Kept(j.data[i]) =>
            /\ j.data[i].seq <= j.ack
            /\ \A y \in DOMAIN read[s] : read[s][y] < j.data[i].seq
            /\ \A y \in DOMAIN j.data : i < y /\ Kept(j.data[y]) => j.data[i].seq < j.data[y].seq
            /\ rcv[s].at = "rest" /\ Kept(part) => part.seq < j.data[i].seq
    <3>1. CASE j.data = k.data
      BY <2>2, <2>4, <3>1
    <3>2. CASE k.data = << >> /\ j.data = Append(k.data, d) /\ m.seq = k.ack + 1 /\ j.ack = k.ack + 1
      <4>1. DOMAIN j.data = {1} /\ j.data[1] = d
        BY <1>9, <3>2
      <4> QED
        BY <1>1, <1>9, <2>1, <2>4, <3>2, <4>1
    <3>3. CASE j.data = Append(k.data, e)
      <4>1. \A i \in DOMAIN j.data : (i \in DOMAIN k.data /\ j.data[i] = k.data[i]) \/ j.data[i] = e
        BY <1>1, <1>9, <3>3, AppendFacts, SMTT(20)
      <4> QED
        BY <1>9, <2>2, <2>4, <4>1
    <3> QED
      BY <1>10, <3>1, <3>2, <3>3
  <2> QED
    BY <1>1, <2>1, <2>3, <2>4, <2>5 DEF ReadOf, Kept
<1>14. WakeOf(s)'
  <2>1. j.receive_count = k.receive_count /\ j.receive >= k.receive
    BY <1>1 DEF Reacts, Forward
  <2>2. j.data # << >> => \/ k.data # << >>
                          \/ j.state = "ESTABLISHED" /\ j.receive > 0
    BY <1>10
  <2>3. "ESTABLISHED" \notin Handshake
    BY DEF Handshake
  <2> QED
    BY <1>1, <1>4, <1>11, <1>12, <2>1, <2>2, <2>3 DEF WakeOf
<1> QED
  BY <1>5, <1>6, <1>13, <1>14

LEMMA ProcessPacketStep ==
    ASSUME IInv, NEW m \in net, ProcessPacket(m)
    PROVE  IInv'
<1>1. PICK s, k, j : s = m.dst /\ k = skt[s] /\ j = skt'[s]
  OBVIOUS
<1>2. /\ m \in Packet /\ s \in Socket /\ k \in Struct /\ j \in Struct /\ OnlyOf(s) /\ Reacts(m, k, j)
      /\ app[s] # "new" /\ sentOk' = sentOk /\ TypeInv' /\ TypeInv
      /\ k.ack \in Nat /\ j.ack \in Nat /\ m.seq \in Nat /\ k.remote \in Socket \cup {NoSocket}
  BY <1>1, ProcessEffect DEF IInv, Struct, Packet
<1>3. /\ j.seq = k.seq /\ j.ack >= k.ack
      /\ k.state = "LISTEN" => s = Server /\ app[s] = "listen"
      /\ j.remote = k.remote \/ Listens(m, k, j)
      /\ Listens(m, k, j) => j.ack = 1 /\ m.src \in Client
  BY <1>1, ProcessSteady
<1>4. CallInv' /\ TransmitInv' /\ ReadInv' /\ WakeInv'
  <2>1. CallOf(s)' /\ TransmitOf(s)' /\ ReadOf(s)' /\ WakeOf(s)'
    BY <1>1, ProcessLocal
  <2>2. skt'[s].ack >= skt[s].ack
    BY <1>1, <1>3
  <2> QED
    BY <1>2, <2>1, <2>2, OthersKept
<1>5. NetInv' /\ RoleInv' /\ ServerInv'
  BY <1>1, ProcessNet, ProcessRoles
<1>6. \A u \in Socket : u # s => skt'[u] = skt[u]
  BY <1>2 DEF OnlyOf, Elsewhere
<1>7. \A u \in Socket : /\ skt'[u].seq = skt[u].seq /\ skt'[u].ack >= skt[u].ack
                        /\ skt[u].ack \in Nat /\ skt'[u].ack \in Nat /\ skt[u].seq \in Nat
                        /\ skt[u].remote \in Socket \cup {NoSocket}
  <2>1. \A u \in Socket : /\ skt[u].ack \in Nat /\ skt'[u].ack \in Nat /\ skt[u].seq \in Nat
                          /\ skt[u].remote \in Socket \cup {NoSocket}
    BY <1>2 DEF TypeInv, Struct
  <2> QED
    BY <1>1, <1>3, <1>6, <2>1
<1>8. AckNotAhead'
  <2>1. j.remote # NoSocket => j.remote \in Socket /\ j.ack <= skt[j.remote].seq
    <3>1. CASE Listens(m, k, j)
      <4>1. j.remote = m.src /\ j.ack = m.seq /\ m.type = "SYN" /\ m.src \in Socket
        BY <1>2, <3>1 DEF Listens, Packet
      <4>2. m.seq <= skt[m.src].seq
        BY <4>1 DEF IInv, NetInv, Refusal
      <4> QED
        BY <4>1, <4>2
    <3>2. CASE j.ack = k.ack /\ j.remote = k.remote
      BY <1>1, <1>2, <3>2 DEF IInv, AckNotAhead
    <3>3. CASE /\ j.ack = m.seq /\ j.remote = k.remote /\ m.src = k.remote
               /\ \/ m.type = "SYNACK"
                  \/ k.state \in {"SYNRECEIVED", "ESTABLISHED", "LASTACK"} /\ m.seq = k.ack + 1
      <4>1. m.seq <= skt[m.src].seq /\ m.src \in Socket
        BY <1>1, <1>2, <3>3, CountedSent DEF Packet
      <4> QED
        BY <3>3, <4>1
    <3> QED
      BY <1>2, <3>1, <3>2, <3>3 DEF Reacts, Answered, Counts, Keeps, Frees
  <2>2. ASSUME NEW u \in Socket, skt'[u].remote # NoSocket
        PROVE  skt'[u].ack <= skt'[skt'[u].remote].seq
    <3>1. CASE u = s
      BY <1>1, <1>7, <2>1, <2>2, <3>1
    <3>2. CASE u # s
      BY <1>6, <1>7, <2>2, <3>2 DEF IInv, AckNotAhead
    <3> QED
      BY <3>1, <3>2
  <2> QED
    BY <2>2 DEF AckNotAhead
<1>9. SuccessMeansTaken'
  <2> SUFFICES ASSUME NEW u \in Socket, NEW n \in sentOk[u]
               PROVE  skt'[skt'[u].remote].ack >= n
    BY <1>2 DEF SuccessMeansTaken
  <2>1. app[u] \in {"open", "send", "sending"}
    BY DEF IInv, CallInv, CallOf, Returned
  <2>2. skt'[u].remote = skt[u].remote /\ skt[u].remote \in Socket /\ skt[skt[u].remote].ack >= n /\ n \in Nat
    <3>1. skt'[u].remote = skt[u].remote
      BY <1>1, <1>3, <1>6, <2>1 DEF Listens
    <3>2. skt[u].remote \in Socket /\ n \in Nat
      BY <1>2, <2>1, Peer DEF TypeInv
    <3> QED
      BY <3>1, <3>2 DEF IInv, SuccessMeansTaken
  <2> QED
    BY <1>7, <2>2
<1> QED
  BY <1>2, <1>4, <1>5, <1>8, <1>9 DEF IInv
-----------------------------------------------------------------------------
LEMMA InitInv == Init => IInv
<1> SUFFICES ASSUME Init PROVE IInv
  OBVIOUS
<1>1. /\ \A s \in Socket : /\ skt[s] = NewSocket /\ tx[s] = Idle /\ app[s] = "new" /\ rcv[s] = Idle
                           /\ cls[s] = "no" /\ sentOk[s] = {} /\ read[s] = << >>
      /\ net = {} /\ closing = {} /\ exists = {}
  BY DEF Init
<1>2. Server \in Socket /\ Client \subseteq Socket /\ NoSocket \notin Socket
  BY SocketAssumption DEF Socket
<1>3. TypeInv
  <2>1. NewSocket \in Struct
    BY DEF NewSocket, Struct, State, Entry
  <2>2. Idle \in TxType /\ Idle \in RcvType
    BY DEF Idle, TxType, RcvType
  <2> QED
    BY <2>1, <2>2 DEF Init, TypeInv
<1>4. RoleInv /\ ServerInv
  BY <1>1, <1>2 DEF RoleInv, RoleOf, ServerInv, NewSocket
<1>5. CallInv /\ TransmitInv
  BY <1>1 DEF CallInv, CallOf, TransmitInv, TransmitOf, Idle
<1>6. NetInv
  BY <1>1, <1>2 DEF NetInv, NewSocket
<1>7. AckNotAhead /\ SuccessMeansTaken
  BY <1>1 DEF AckNotAhead, SuccessMeansTaken, NewSocket
<1>8. ReadInv /\ WakeInv
  BY <1>1 DEF ReadInv, ReadOf, WakeInv, WakeOf, NewSocket, Idle
<1> QED
  BY <1>3, <1>4, <1>5, <1>6, <1>7, <1>8 DEF IInv

LEMMA NextInv == IInv /\ [Next]_vars => IInv'
<1> SUFFICES ASSUME IInv, [Next]_vars PROVE IInv'
  OBVIOUS
<1>1. ASSUME NEW c \in Client, ClientCreate(c) PROVE IInv'
  BY <1>1, ClientCreateStep
<1>2. ASSUME NEW s \in exists,
             Transmission(s) \/ Receiving(s) \/ Closing(s) \/ FinTimeout(s) \/ Cleanup(s) \/ Calls(s)
      PROVE  IInv'
  <2>1. s \in Socket
    BY DEF IInv, TypeInv
  <2>2. CASE Transmission(s)
    BY <2>1, <2>2, RetryWaitStep, RetryWakeupStep, TransmittedStep, GivenUpStep, SendTransmitStep
       DEF Transmission
  <2>3. CASE Receiving(s)
    BY <2>1, <2>3, ReceiveWokenStep, ReceiveLoopStep, ReceivePrependStep DEF Receiving
  <2>4. CASE Closing(s)
    BY <2>1, <2>4, CloseUnblockStep, CloseTransmitStep DEF Closing
  <2>5. CASE FinTimeout(s) \/ Cleanup(s)
    BY <2>1, <2>5, FinTimeoutStep, CleanupStep
  <2>6. CASE Calls(s)
    BY <2>1, <2>6, SendCallStep, ReceiveCallStep, CloseCallStep DEF Calls
  <2> QED
    BY <1>2, <2>2, <2>3, <2>4, <2>5, <2>6
<1>3. ASSUME NEW m \in net, ProcessPacket(m) PROVE IInv'
  BY <1>3, ProcessPacketStep
<1>4. CASE UNCHANGED vars
  BY <1>4, SMTT(20)
     DEF vars, threadVars, endVars, ghosts, IInv, TypeInv, RoleInv, RoleOf, ServerInv, CallInv, CallOf,
              Returned, TransmitInv, TransmitOf, NetInv, Refusal, AckNotAhead, SuccessMeansTaken, ReadInv, ReadOf,
              WakeInv, WakeOf
<1> QED
  BY <1>1, <1>2, <1>3, <1>4, ServerCreateStep, ServerWokenStep, ServerCheckStep DEF Next

\* IInv holds throughout.
LEMMA Invariance == Spec => []IInv
BY InitInv, NextInv, PTL DEF Spec
-----------------------------------------------------------------------------
(***************************************************************************)
(* What the runs check, of every execution.                                *)
(***************************************************************************)
\* Every variable has its type: in particular receive_count is 0 or 1, never less.
THEOREM TypeCorrect == Spec => []TypeOK
<1>1. TypeInv => TypeOK
  <2> SUFFICES ASSUME TypeInv PROVE TypeOK
    OBVIOUS
  <2>1. \A s \in Socket : tx[s].at \in {"idle", "send", "wait"} /\ rcv[s].at \in {"idle", "wait", "loop", "rest"}
    BY DEF TypeInv, TxType, RcvType, Idle
  <2> QED
    BY <2>1 DEF TypeInv, TypeOK, Struct
<1> QED
  BY <1>1, Invariance, PTL DEF IInv

\* A socket never acknowledges what its peer has not yet transmitted, whatever the network
\* loses, repeats or delays, and whoever else sends packets to the port.
THEOREM NotAhead == Spec => []AckNotAhead
BY Invariance, PTL DEF IInv

\* minisocket_send reports success only when the remote end has counted the transmission.
THEOREM SuccessTaken == Spec => []SuccessMeansTaken
BY Invariance, PTL DEF IInv

\* What minisocket_receive copies comes once and in the order of the calls of send, even
\* when a part of a packet is put back at the head of the queue.
THEOREM InOrder == Spec => []NeverReordered
<1>1. ReadInv => NeverReordered
  BY DEF ReadInv, ReadOf, NeverReordered
<1> QED
  BY <1>1, Invariance, PTL DEF IInv

\* A thread that waits to receive finds the semaphore up when there is data for it.
THEOREM ReceiverWoken == Spec => []DataWakesReceiver
<1>1. TypeInv /\ WakeInv => DataWakesReceiver
  BY DEF TypeInv, WakeInv, WakeOf, DataWakesReceiver
<1> QED
  BY <1>1, Invariance, PTL DEF IInv

\* How the state of a socket changes: by a packet, or by its own threads, or it is created.
Steps == Moves \cup {<<"SYNRECEIVED", "LISTEN">>, <<"ESTABLISHED", "LASTACK">>}
Moved(u) == \/ skt'[u].state \in {skt[u].state, "CLOSED"}
            \/ <<skt[u].state, skt'[u].state>> \in Steps
            \/ app[u] = "new"

\* One socket is changed, and its state moves if it changes.
LEMMA OneMoves ==
    ASSUME TypeInv, NEW s \in Socket, NEW k, skt' = [skt EXCEPT ![s] = k],
           \/ k.state \in {skt[s].state, "CLOSED"}
           \/ <<skt[s].state, k.state>> \in Steps
           \/ app[s] = "new"
    PROVE  \A u \in Socket : Moved(u)
<1> SUFFICES ASSUME NEW u \in Socket PROVE Moved(u)
  OBVIOUS
<1>1. CASE u = s
  <2>1. skt'[s] = k
    BY DEF TypeInv
  <2> QED
    BY <1>1, <2>1 DEF Moved
<1>2. CASE u # s
  <2>1. skt'[u] = skt[u]
    BY <1>2 DEF TypeInv
  <2> QED
    BY <2>1 DEF Moved
<1> QED
  BY <1>1, <1>2

LEMMA StateMoves ==
    ASSUME IInv, [Next]_vars
    PROVE  \A u \in Socket : Moved(u)
<1> USE DEF IInv, TypeInv
<1>1. Server \in Socket /\ Client \subseteq Socket
  BY DEF Socket
<1>2. CASE UNCHANGED skt
  BY <1>2 DEF Moved
<1>3. CASE ServerCreate
  <2>1. PICK k : k = [skt[Server] EXCEPT !.state = "LISTEN"]
    OBVIOUS
  <2> QED
    BY <1>1, <1>3, <2>1, OneMoves DEF ServerCreate, Set
<1>4. CASE ServerWoken
  <2>1. PICK k, j : k = [skt[Server] EXCEPT !.synchonize = @ - 1] /\ j = [k EXCEPT !.seq = @ + 1]
    OBVIOUS
  <2>2. skt[Server] \in Struct
    BY <1>1
  <2>3. k.state = skt[Server].state /\ j.state = skt[Server].state
    BY <2>1, <2>2 DEF Struct
  <2>4. skt' = [skt EXCEPT ![Server] = k] \/ skt' = [skt EXCEPT ![Server] = j]
    BY <1>4, <2>1 DEF ServerWoken, Begin, Set
  <2> QED
    BY <1>1, <2>3, <2>4, OneMoves
<1>5. CASE ServerCheck
  <2>1. CASE UNCHANGED skt
    BY <1>2, <2>1
  <2>2. CASE skt[Server].state = "SYNRECEIVED" /\ Set(Server, [skt[Server] EXCEPT !.state = "LISTEN"])
    <3>1. PICK k : k = [skt[Server] EXCEPT !.state = "LISTEN"]
      OBVIOUS
    <3>2. skt[Server] \in Struct
      BY <1>1
    <3>3. k.state = "LISTEN"
      BY <3>1, <3>2 DEF Struct
    <3>4. <<skt[Server].state, k.state>> \in Steps
      BY <2>2, <3>3 DEF Steps
    <3> QED
      BY <1>1, <2>2, <3>1, <3>4, OneMoves DEF Set
  <2> QED
    BY <1>5, <2>1, <2>2 DEF ServerCheck
<1>6. ASSUME NEW c \in Client, ClientCreate(c) PROVE \A u \in Socket : Moved(u)
  <2>1. PICK k : k = [[skt[c] EXCEPT !.state = "SYNSENT", !.remote = Server] EXCEPT !.seq = @ + 1]
    OBVIOUS
  <2>2. app[c] = "new" /\ skt' = [skt EXCEPT ![c] = k]
    BY <1>6, <2>1 DEF ClientCreate, Begin, Set
  <2> QED
    BY <1>1, <2>2, OneMoves
<1>7. ASSUME NEW s \in exists,
             Transmission(s) \/ Receiving(s) \/ Closing(s) \/ FinTimeout(s) \/ Cleanup(s) \/ Calls(s)
      PROVE  \A u \in Socket : Moved(u)
  <2>1. s \in Socket
    OBVIOUS
  <2>2. PICK k : k = skt[s]
    OBVIOUS
  <2>3. k \in Struct
    BY <2>1, <2>2
  <2>4. \/ UNCHANGED skt
        \/ skt' = [skt EXCEPT ![s] = [k EXCEPT !.alarm = "id"]]
        \/ skt' = [skt EXCEPT ![s] = [k EXCEPT !.alarm = "WAKEUP"]]
        \/ skt' = [skt EXCEPT ![s] = [k EXCEPT !.alarm = "SUCCESS"]]
        \/ skt' = [skt EXCEPT ![s] = [k EXCEPT !.seq = @ + 1]]
        \/ skt' = [skt EXCEPT ![s] = [k EXCEPT !.receive_count = @ + 1]]
        \/ skt' = [skt EXCEPT ![s] = [k EXCEPT !.receive = @ - 1, !.receive_count = @ - 1]]
        \/ skt' = [skt EXCEPT ![s] = [k EXCEPT !.data = Tail(@)]]
        \/ skt' = [skt EXCEPT ![s] = [k EXCEPT !.data = <<rcv[s].packet>> \o @, !.receive = @ + 1]]
        \/ skt' = [skt EXCEPT ![s] = [k EXCEPT !.receive = @ + k.receive_count]]
        \/ skt' = [skt EXCEPT ![s] = [k EXCEPT !.state = "CLOSED"]]
        \/ k.state = "ESTABLISHED" /\ skt' = [skt EXCEPT ![s] = [k EXCEPT !.state = "LASTACK"]]
    <3>1. CASE Transmission(s)
      BY <2>2, <3>1 DEF Transmission, RetryWait, RetryWakeup, Transmitted, GivenUp, SendTransmit, Begin, Set
    <3>2. CASE Receiving(s)
      BY <2>2, <3>2 DEF Receiving, ReceiveWoken, ReceiveLoop, ReceivePrepend, Set
    <3>3. CASE Closing(s)
      BY <2>2, <3>3 DEF Closing, CloseUnblock, CloseTransmit, Begin, unblocked, Set
    <3>4. CASE FinTimeout(s) \/ Cleanup(s)
      BY <2>2, <3>4 DEF FinTimeout, Cleanup, unblocked, Set
    <3>5. CASE Calls(s)
      BY <2>2, <3>5 DEF Calls, SendCall, ReceiveCall, CloseCall, Set
    <3> QED
      BY <1>7, <3>1, <3>2, <3>3, <3>4, <3>5
  <2>5. <<"ESTABLISHED", "LASTACK">> \in Steps
    BY DEF Steps
  <2>6. PICK a, b, c, d, e, f, g, h, i, x, y :
            /\ a = [k EXCEPT !.alarm = "id"] /\ b = [k EXCEPT !.alarm = "WAKEUP"]
            /\ c = [k EXCEPT !.alarm = "SUCCESS"] /\ d = [k EXCEPT !.seq = @ + 1]
            /\ e = [k EXCEPT !.receive_count = @ + 1]
            /\ f = [k EXCEPT !.receive = @ - 1, !.receive_count = @ - 1]
            /\ g = [k EXCEPT !.data = Tail(@)]
            /\ h = [k EXCEPT !.data = <<rcv[s].packet>> \o @, !.receive = @ + 1]
            /\ i = [k EXCEPT !.receive = @ + k.receive_count]
            /\ x = [k EXCEPT !.state = "CLOSED"] /\ y = [k EXCEPT !.state = "LASTACK"]
    OBVIOUS
  <2>7. \A j \in {a, b, c, d, e, f, g, h, i} : j.state = k.state
    BY <2>3, <2>6, ZenonT(30) DEF Struct
  <2>8. x.state = "CLOSED" /\ y.state = "LASTACK"
    BY <2>3, <2>6 DEF Struct
  <2>9. \/ UNCHANGED skt
        \/ \E j \in {a, b, c, d, e, f, g, h, i, x} : skt' = [skt EXCEPT ![s] = j]
        \/ k.state = "ESTABLISHED" /\ skt' = [skt EXCEPT ![s] = y]
    BY <2>4, <2>6
  <2>10. CASE UNCHANGED skt
    BY <1>2, <2>10
  <2>11. ASSUME NEW j \in {a, b, c, d, e, f, g, h, i, x}, skt' = [skt EXCEPT ![s] = j]
         PROVE  \A u \in Socket : Moved(u)
    <3>1. j.state \in {skt[s].state, "CLOSED"}
      BY <2>2, <2>7, <2>8, <2>11
    <3> QED
      BY <2>1, <2>11, <3>1, OneMoves
  <2>12. CASE k.state = "ESTABLISHED" /\ skt' = [skt EXCEPT ![s] = y]
    <3>1. <<skt[s].state, y.state>> \in Steps
      BY <2>2, <2>5, <2>8, <2>12
    <3> QED
      BY <2>1, <2>12, <3>1, OneMoves
  <2> QED
    BY <2>9, <2>10, <2>11, <2>12
<1>8. ASSUME NEW m \in net, ProcessPacket(m) PROVE \A u \in Socket : Moved(u)
  <2>1. PICK s, k, j : s = m.dst /\ k = skt[s] /\ j = skt'[s]
    OBVIOUS
  <2>2. OnlyOf(s) /\ Reacts(m, k, j)
    BY <1>8, <2>1, ProcessEffect
  <2>3. \A u \in Socket : u # s => skt'[u] = skt[u]
    BY <2>2 DEF OnlyOf, Elsewhere
  <2>4. j.state = k.state \/ <<k.state, j.state>> \in Steps
    BY <2>2 DEF Reacts, Forward, Steps
  <2> QED
    BY <2>1, <2>3, <2>4 DEF Moved
<1> QED
  BY <1>2, <1>3, <1>4, <1>5, <1>6, <1>7, <1>8 DEF Next, vars

\* A socket that was established does not go back to the handshake, and one that is being
\* closed is not established again.
THEOREM StaysClosed == Spec => NeverReopened
<1>1. ASSUME IInv, [Next]_vars, NEW s \in Socket,
             skt[s].state \in {"ESTABLISHED", "LASTACK", "TIMEWAIT", "CLOSED"}, app[s] # "new"
      PROVE  /\ skt'[s].state \notin {"SYNSENT", "SYNRECEIVED"}
             /\ skt[s].state # "ESTABLISHED" => skt'[s].state # "ESTABLISHED"
  <2>1. Moved(s)
    BY <1>1, StateMoves
  <2> QED
    BY <1>1, <2>1 DEF Moved, Steps, Moves
<1>2. IInv /\ [Next]_vars =>
        [\A s \in Socket :
            skt[s].state \in {"ESTABLISHED", "LASTACK", "TIMEWAIT", "CLOSED"} /\ app[s] # "new"
                => /\ skt'[s].state \notin {"SYNSENT", "SYNRECEIVED"}
                   /\ skt[s].state # "ESTABLISHED" => skt'[s].state # "ESTABLISHED"]_vars
  BY <1>1
<1> QED
  BY <1>2, Invariance, PTL DEF Spec, NeverReopened
=============================================================================
