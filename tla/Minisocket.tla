------------------------------ MODULE Minisocket ------------------------------
(***************************************************************************)
(* minisocket.c: a connection between a server and one of its clients over *)
(* a network that loses, repeats, delays and reorders packets.  On each    *)
(* host the control thread handles one packet at a time; a program creates *)
(* the socket and sends, another thread receives, another closes; the      *)
(* cleanup thread destroys what was closed.                                *)
(*                                                                         *)
(* What a thread does to the socket under state_mutex, data_mutex or       *)
(* receive_count_mutex is one step (README: what the locks do besides).    *)
(* The alarm of a transmission is set, cancelled or fires; its races are   *)
(* Retry's.  A socket that was destroyed is not followed any further.      *)
(* The content of a packet is its sender and its number.                   *)
(***************************************************************************)
EXTENDS Naturals, Sequences, FiniteSets

CONSTANTS Server, Client,   \* one socket each, on hosts of their own
          NoSocket,         \* remote_addr before it is set
          Talker, Reader,   \* the sockets on which programs send, receive
          Closer,           \* and close
          MAX_TRY,          \* MINISOCKET_MAX_TRY
          MaxSeq,           \* bound: transmissions of each socket, its FIN left out
          MaxReceive,       \* bound: the count of socket->receive when cleanup adds to it
          MaxQueue          \* bound: packets in socket->data

ASSUME SocketAssumption ==
    /\ Server \notin Client /\ NoSocket \notin Client \cup {Server}
    /\ MAX_TRY \in Nat \ {0}

Socket == {Server} \cup Client

VARIABLES
    skt,      \* the struct minisocket of each socket
    exists,   \* the sockets that minisocket[] points to
    tx,       \* the call of minisocket_transmit under way on a socket
    app,      \* the thread that creates the socket and sends
    rcv,      \* the thread that receives, and the packet it took from the queue
    cls,      \* the thread that closes
    closing,  \* closing_sockets, and FIN alarms that are set
    finAlarm,
    cleanup,  \* cleanup_sem of the socket's host: its count
    net,      \* every packet that was ever sent
    sentOk,   \* numbers of the data for which minisocket_send returned its length
    read      \* numbers of the data that minisocket_receive copied, in order

threadVars == <<tx, app, rcv, cls>>
endVars == <<exists, closing, finAlarm, cleanup>>
ghosts == <<sentOk, read>>
vars == <<skt, threadVars, endVars, net, ghosts>>

State == {"LISTEN", "SYNSENT", "SYNRECEIVED", "ESTABLISHED", "LASTACK", "TIMEWAIT", "CLOSED"}
Type == {"SYN", "SYNACK", "ACK", "FIN"}
Packet == [type : Type, src : Socket, dst : Socket, seq : Nat, ack : Nat, data : BOOLEAN]
Entry == [seq : Nat, data : BOOLEAN, freed : BOOLEAN]
Idle == [at |-> "idle"]

NewSocket == [state |-> "CLOSED", remote |-> NoSocket, seq |-> 0, ack |-> 0,
              alarm |-> "SUCCESS", data |-> << >>, receive |-> 0, receive_count |-> 0,
              synchonize |-> 0]

Init == /\ skt = [s \in Socket |-> NewSocket]
        /\ exists = {}
        /\ tx = [s \in Socket |-> Idle]
        /\ app = [s \in Socket |-> "new"]
        /\ rcv = [s \in Socket |-> Idle]
        /\ cls = [s \in Socket |-> "no"]
        /\ closing = {} /\ finAlarm = {}
        /\ cleanup = [s \in Socket |-> 0]
        /\ net = {}
        /\ sentOk = [s \in Socket |-> {}]
        /\ read = [s \in Socket |-> << >>]

Set(s, k) == skt' = [skt EXCEPT ![s] = k]
Goto(s, place) == app' = [app EXCEPT ![s] = place]

-----------------------------------------------------------------------------
(* minisocket_transmit                                                     *)

packhdr(s, k, type, data) == [type |-> type, src |-> s, dst |-> k.remote,
                              seq |-> k.seq, ack |-> k.ack, data |-> data]

\* The number of the transmission is taken and its header packed once.
Begin(s, k, type, data) ==
    /\ LET next == [k EXCEPT !.seq = @ + 1]
       IN /\ Set(s, next)
          /\ tx' = [tx EXCEPT ![s] = [at |-> "send", hdr |-> packhdr(s, next, type, data), try |-> 1]]

\* The packet is sent and the alarm set: an ACK that is handled before that finds no
\* alarm to cancel, as one that is handled after the last alarm fired.
RetryWait(s) == /\ tx[s].at = "send"
                /\ net' = net \cup {tx[s].hdr}
                /\ Set(s, [skt[s] EXCEPT !.alarm = "id"])
                /\ tx' = [tx EXCEPT ![s].at = "wait"]
                /\ UNCHANGED <<app, rcv, cls, endVars, ghosts>>

RetryWakeup(s) == /\ tx[s].at = "wait" /\ skt[s].alarm = "id" /\ tx[s].try < MAX_TRY
                  /\ Set(s, [skt[s] EXCEPT !.alarm = "WAKEUP"])
                  /\ tx' = [tx EXCEPT ![s].at = "send", ![s].try = @ + 1]
                  /\ UNCHANGED <<app, rcv, cls, endVars, net, ghosts>>

\* Mutant of Return: a FIN that is not acknowledged leaves the socket to itself.
ReturnKeepsFailed(s, ok) ==
    LET type == tx[s].hdr.type
    IN /\ tx' = [tx EXCEPT ![s] = Idle]
       /\ CASE type = "SYN" -> /\ Goto(s, IF ok THEN "open" ELSE "failed")
                               /\ closing' = IF ok THEN closing ELSE closing \cup {s}
                               /\ UNCHANGED <<cls, cleanup, sentOk>>
            [] type = "SYNACK" -> /\ Goto(s, "check")
                                  /\ UNCHANGED <<cls, closing, cleanup, sentOk>>
            [] type = "ACK" -> /\ Goto(s, "open")
                               /\ sentOk' = IF ok THEN [sentOk EXCEPT ![s] = @ \cup {tx[s].hdr.seq}]
                                                  ELSE sentOk
                               /\ UNCHANGED <<cls, closing, cleanup>>
            [] type = "FIN" -> /\ cls' = [cls EXCEPT ![s] = "done"]
                               /\ cleanup' = [cleanup EXCEPT ![s] = IF ok THEN @ + 1 ELSE @]
                               /\ closing' = closing \cup {s}
                               /\ UNCHANGED <<app, sentOk>>

\* What the caller of minisocket_transmit does with its result.
Return(s, ok) ==
    LET type == tx[s].hdr.type
    IN /\ tx' = [tx EXCEPT ![s] = Idle]
       /\ CASE type = "SYN" -> /\ Goto(s, IF ok THEN "open" ELSE "failed")
                               /\ closing' = IF ok THEN closing ELSE closing \cup {s}
                               /\ UNCHANGED <<cls, cleanup, sentOk>>
            [] type = "SYNACK" -> /\ Goto(s, "check")
                                  /\ UNCHANGED <<cls, closing, cleanup, sentOk>>
            [] type = "ACK" -> /\ Goto(s, "open")
                               /\ sentOk' = IF ok THEN [sentOk EXCEPT ![s] = @ \cup {tx[s].hdr.seq}]
                                                  ELSE sentOk
                               /\ UNCHANGED <<cls, closing, cleanup>>
            [] type = "FIN" -> /\ cls' = [cls EXCEPT ![s] = "done"]
                               /\ cleanup' = [cleanup EXCEPT ![s] = @ + 1]
                               /\ closing' = closing \cup {s}
                               /\ UNCHANGED <<app, sentOk>>

Transmitted(s) == /\ tx[s].at = "wait" /\ skt[s].alarm = "SUCCESS"
                  /\ Return(s, TRUE)
                  /\ UNCHANGED <<skt, rcv, exists, finAlarm, net, read>>

GivenUp(s) == /\ tx[s].at = "wait" /\ skt[s].alarm = "id" /\ tx[s].try = MAX_TRY
              /\ Set(s, [skt[s] EXCEPT !.alarm = "SUCCESS"])
              /\ Return(s, FALSE)
              /\ UNCHANGED <<rcv, exists, finAlarm, net, read>>

-----------------------------------------------------------------------------
(* minisocket_server_create, minisocket_client_create, minisocket_send     *)

ServerCreate == /\ app[Server] = "new"
                /\ exists' = exists \cup {Server}
                /\ Set(Server, [skt[Server] EXCEPT !.state = "LISTEN"])
                /\ Goto(Server, "listen")
                /\ UNCHANGED <<tx, rcv, cls, closing, finAlarm, cleanup, net, ghosts>>

ServerWoken == /\ app[Server] = "listen" /\ skt[Server].synchonize > 0
               /\ LET k == [skt[Server] EXCEPT !.synchonize = @ - 1]
                  IN \/ /\ k.state = "SYNRECEIVED"
                        /\ k.seq < MaxSeq[Server]
                        /\ Begin(Server, k, "SYNACK", FALSE)
                        /\ Goto(Server, "creating")
                     \/ /\ k.state # "SYNRECEIVED"
                        /\ Set(Server, k) /\ Goto(Server, "check")
                        /\ UNCHANGED tx
               /\ UNCHANGED <<rcv, cls, endVars, net, ghosts>>

\* The condition of the loop: listen again if the client did not answer.
ServerCheck == /\ app[Server] = "check"
               /\ \/ /\ skt[Server].state = "SYNRECEIVED"
                     /\ Set(Server, [skt[Server] EXCEPT !.state = "LISTEN"])
                     /\ Goto(Server, "listen")
                  \/ /\ skt[Server].state # "SYNRECEIVED"
                     /\ Goto(Server, "open")
                     /\ UNCHANGED skt
               /\ UNCHANGED <<tx, rcv, cls, endVars, net, ghosts>>

ClientCreate(c) == /\ app[c] = "new"
                   /\ exists' = exists \cup {c}
                   /\ Begin(c, [skt[c] EXCEPT !.state = "SYNSENT", !.remote = Server], "SYN", FALSE)
                   /\ Goto(c, "creating")
                   /\ UNCHANGED <<rcv, cls, closing, finAlarm, cleanup, net, ghosts>>

\* send_mutex is held from here until the transmission is over.
SendCall(s) == /\ s \in Talker /\ skt[s].seq < MaxSeq[s]
               /\ app[s] = "open" /\ skt[s].state = "ESTABLISHED" /\ tx[s] = Idle
               /\ Goto(s, "send")
               /\ UNCHANGED <<skt, tx, rcv, cls, endVars, net, ghosts>>

SendTransmit(s) == /\ app[s] = "send"
                   /\ Begin(s, skt[s], "ACK", TRUE)
                   /\ Goto(s, "sending")
                   /\ UNCHANGED <<rcv, cls, endVars, net, ghosts>>

-----------------------------------------------------------------------------
(* minisocket_receive, minisocket_close and the cleanup thread             *)

\* The program has the socket.
Returned(s) == app[s] \in {"open", "send", "sending"}

Rcv(s, r) == rcv' = [rcv EXCEPT ![s] = r]

\* Mutant of ReceiveCall: the thread that will wait is not counted.
ReceiveCallUncounted(s) == /\ s \in Reader /\ Returned(s) /\ rcv[s] = Idle
                           /\ skt[s].state = "ESTABLISHED"
                           /\ Rcv(s, [at |-> "wait"])
                           /\ UNCHANGED <<skt, tx, app, cls, endVars, net, ghosts>>

ReceiveCall(s) == /\ s \in Reader /\ Returned(s) /\ rcv[s] = Idle
                  /\ skt[s].state = "ESTABLISHED"
                  /\ Set(s, [skt[s] EXCEPT !.receive_count = @ + 1])
                  /\ Rcv(s, [at |-> "wait"])
                  /\ UNCHANGED <<tx, app, cls, endVars, net, ghosts>>

\* Mutant of ReceiveWoken: the thread that no longer waits is still counted.
ReceiveWokenCounted(s) == /\ rcv[s].at = "wait" /\ skt[s].receive > 0
                          /\ Set(s, [skt[s] EXCEPT !.receive = @ - 1])
                          /\ Rcv(s, [at |-> "loop"])
                          /\ UNCHANGED <<tx, app, cls, endVars, net, ghosts>>

ReceiveWoken(s) == /\ rcv[s].at = "wait" /\ skt[s].receive > 0
                   /\ Set(s, [skt[s] EXCEPT !.receive = @ - 1, !.receive_count = @ - 1])
                   /\ Rcv(s, [at |-> "loop"])
                   /\ UNCHANGED <<tx, app, cls, endVars, net, ghosts>>

\* A packet that was freed while it was in the queue may hold anything.
copied(s, p) == IF p.data /\ ~p.freed THEN [read EXCEPT ![s] = Append(@, p.seq)] ELSE read

ReceiveLoop(s) ==
    /\ rcv[s].at = "loop"
    /\ \/ \* the loop ends
          /\ skt[s].state # "ESTABLISHED" \/ skt[s].data = << >>
          /\ Rcv(s, Idle)
          /\ UNCHANGED <<skt, read>>
       \/ /\ skt[s].state = "ESTABLISHED" /\ skt[s].data # << >>
          /\ Set(s, [skt[s] EXCEPT !.data = Tail(@)])
          /\ LET p == Head(skt[s].data)
             IN \/ \* all of it fits in the caller's buffer
                   /\ read' = copied(s, p) /\ UNCHANGED rcv
                \/ \* a part of it does
                   /\ p.data /\ Rcv(s, [at |-> "rest", packet |-> p]) /\ UNCHANGED read
    /\ UNCHANGED <<tx, app, cls, endVars, net, sentOk>>

\* Mutants of ReceivePrepend: the rest goes to the end of the queue; nobody is told of it.
ReceiveAppend(s) ==
    /\ rcv[s].at = "rest"
    /\ Set(s, [skt[s] EXCEPT !.data = Append(@, rcv[s].packet), !.receive = @ + 1])
    /\ Rcv(s, Idle)
    /\ UNCHANGED <<tx, app, cls, endVars, net, ghosts>>

ReceivePrependSilent(s) ==
    /\ rcv[s].at = "rest"
    /\ Set(s, [skt[s] EXCEPT !.data = <<rcv[s].packet>> \o @])
    /\ Rcv(s, Idle)
    /\ UNCHANGED <<tx, app, cls, endVars, net, ghosts>>

\* The rest of the packet goes back to the head of the queue.
ReceivePrepend(s) ==
    /\ rcv[s].at = "rest"
    /\ Set(s, [skt[s] EXCEPT !.data = <<rcv[s].packet>> \o @, !.receive = @ + 1])
    /\ Rcv(s, Idle)
    /\ UNCHANGED <<tx, app, cls, endVars, net, ghosts>>

CloseCall(s) == /\ s \in Closer /\ Returned(s) /\ cls[s] = "no"
                /\ skt[s].state = "ESTABLISHED"
                /\ Set(s, [skt[s] EXCEPT !.state = "LASTACK"])
                /\ cls' = [cls EXCEPT ![s] = "unblock"]
                /\ UNCHANGED <<tx, app, rcv, endVars, net, ghosts>>

unblocked(k) == [k EXCEPT !.receive = @ + k.receive_count]

CloseUnblock(s) == /\ cls[s] = "unblock"
                   /\ Set(s, unblocked(skt[s]))
                   /\ cls' = [cls EXCEPT ![s] = "fin"]
                   /\ UNCHANGED <<tx, app, rcv, endVars, net, ghosts>>

CloseTransmit(s) == /\ cls[s] = "fin" /\ app[s] = "open"
                    /\ Begin(s, skt[s], "FIN", FALSE)
                    /\ cls' = [cls EXCEPT ![s] = "transmit"]
                    /\ UNCHANGED <<app, rcv, endVars, net, ghosts>>

\* MINISOCKET_FIN_TIMEOUT, 15 s, is longer than a transmission, 12.7 s: one that was under
\* way when the FIN came is over.
FinTimeout(s) == /\ s \in finAlarm
                 /\ tx[s] = Idle /\ app[s] \notin {"send", "check"}
                 /\ finAlarm' = finAlarm \ {s}
                 /\ cleanup' = [cleanup EXCEPT ![s] = @ + 1]
                 /\ UNCHANGED <<skt, threadVars, exists, closing, net, ghosts>>

\* minisocket_cleanup: a socket on which a thread waits to receive is put back.
Cleanup(s) ==
    /\ cleanup[s] > 0 /\ s \in closing
    /\ \/ /\ skt[s].receive_count > 0 /\ skt[s].receive < MaxReceive
          /\ Set(s, unblocked(skt[s]))
          /\ UNCHANGED <<exists, closing, cleanup>>
       \/ /\ skt[s].receive_count = 0
          /\ Set(s, [skt[s] EXCEPT !.state = "CLOSED"])
          /\ exists' = exists \ {s} /\ closing' = closing \ {s}
          /\ cleanup' = [cleanup EXCEPT ![s] = @ - 1]
    /\ UNCHANGED <<threadVars, finAlarm, net, ghosts>>

-----------------------------------------------------------------------------
(* minisocket_process_packet.  w.k is the socket, w.out what is sent back. *)

fromRemote(w, m) == m.src = w.k.remote
acknowledge(s, w) == [w EXCEPT !.out = @ \cup {packhdr(s, w.k, "ACK", FALSE)}]
signal_busy(w, m) == [w EXCEPT !.out = @ \cup {[type |-> "FIN", src |-> m.dst, dst |-> m.src,
                                                seq |-> 1, ack |-> 1, data |-> FALSE]}]

\* Mutant of process_syn: a SYN is answered in every state but SYNSENT as in LISTEN.
process_syn_any(s, w, m) ==
    IF w.k.state = "SYNSENT"
    THEN IF fromRemote(w, m) THEN acknowledge(s, [w EXCEPT !.k.ack = m.seq]) ELSE w
    ELSE [w EXCEPT !.k.state = "SYNRECEIVED", !.k.remote = m.src, !.k.ack = m.seq,
                   !.k.synchonize = @ + 1]

process_syn(s, w, m) ==
    CASE w.k.state = "LISTEN" ->
             [w EXCEPT !.k.state = "SYNRECEIVED", !.k.remote = m.src, !.k.ack = m.seq,
                       !.k.synchonize = @ + 1]
      [] w.k.state = "SYNSENT" ->
             IF fromRemote(w, m) THEN acknowledge(s, [w EXCEPT !.k.ack = m.seq]) ELSE w
      [] OTHER ->
             IF fromRemote(w, m) THEN acknowledge(s, w) ELSE signal_busy(w, m)

\* The packet acknowledges the last transmission.
acked(k, m) ==
    [k EXCEPT !.alarm = IF @ = "id" THEN "SUCCESS" ELSE @,
              !.state = CASE @ = "SYNSENT" /\ k.ack = m.seq -> "ESTABLISHED"
                          [] @ = "SYNRECEIVED" -> "ESTABLISHED"
                          [] @ = "LASTACK" -> "CLOSED"
                          [] OTHER -> @]

\* The packet is the next one: it is kept, and acknowledged, if it is alone in the queue.
\* If it is not, it stays in the queue and the caller frees it.
store(s, w, m) ==
    LET alone == w.k.data = << >>
        entry == [seq |-> m.seq, data |-> m.data, freed |-> ~alone]
        queued == [w EXCEPT !.k.data = Append(@, entry)]
    IN IF alone
       THEN acknowledge(s, [queued EXCEPT !.k.receive = @ + 1, !.k.ack = @ + 1])
       ELSE queued

\* Mutant of IsNext: a packet that was seen before is stored again.
IsNextOrOlder(k, m) == k.state = "ESTABLISHED" /\ k.ack + 1 >= m.seq

IsNext(k, m) == k.state = "ESTABLISHED" /\ k.ack + 1 = m.seq

\* Mutant of process_ack: the ACK of an earlier transmission will do.
process_ack_any(s, w, m) ==
    IF ~fromRemote(w, m) THEN w
    ELSE LET w1 == [w EXCEPT !.k = acked(@, m)]
             w2 == IF m.data /\ w1.k.ack = m.seq THEN acknowledge(s, w1) ELSE w1
         IN IF IsNext(w2.k, m) THEN store(s, w2, m) ELSE w2

process_ack(s, w, m) ==
    IF ~fromRemote(w, m) THEN w
    ELSE LET w1 == IF w.k.seq = m.ack THEN [w EXCEPT !.k = acked(@, m)] ELSE w
             w2 == IF m.data /\ w1.k.ack = m.seq THEN acknowledge(s, w1) ELSE w1
         IN IF IsNext(w2.k, m) THEN store(s, w2, m) ELSE w2

process_fin(s, w, m) ==
    LET next == w.k.ack + 1 = m.seq
        taken == [w EXCEPT !.k.ack = @ + 1]
    IN IF ~fromRemote(w, m) THEN w
       ELSE CASE w.k.state = "SYNSENT" -> [w EXCEPT !.k.state = "TIMEWAIT"]
              [] w.k.state = "ESTABLISHED" /\ next ->
                     LET acking == acknowledge(s, [taken EXCEPT !.k.state = "TIMEWAIT"])
                     IN [acking EXCEPT !.k = unblocked(@)]
              [] w.k.state = "LASTACK" /\ next -> acknowledge(s, taken)
              [] w.k.state = "TIMEWAIT" /\ w.k.ack = m.seq -> acknowledge(s, w)
              [] OTHER -> w

process(s, m) ==
    LET w == [k |-> skt[s], out |-> {}]
    IN CASE m.type = "SYN" -> process_syn(s, w, m)
         [] m.type = "SYNACK" -> process_ack(s, process_syn(s, w, m), m)
         [] m.type = "ACK" -> process_ack(s, w, m)
         [] m.type = "FIN" -> process_fin(s, w, m)

ProcessPacket(m) ==
    LET s == m.dst
        w == process(s, m)
        ended == skt[s].state = "ESTABLISHED" /\ w.k.state = "TIMEWAIT"
    IN /\ s \in exists
       /\ Len(w.k.data) <= MaxQueue
       /\ Set(s, w.k)
       /\ net' = net \cup w.out
       /\ finAlarm' = IF ended THEN finAlarm \cup {s} ELSE finAlarm
       /\ closing' = IF ended THEN closing \cup {s} ELSE closing
       /\ UNCHANGED <<threadVars, exists, cleanup, sentOk, read>>

-----------------------------------------------------------------------------

Transmission(s) == RetryWait(s) \/ RetryWakeup(s) \/ Transmitted(s) \/ GivenUp(s)
                       \/ SendTransmit(s)
Receiving(s) == ReceiveWoken(s) \/ ReceiveLoop(s) \/ ReceivePrepend(s)
Closing(s) == CloseUnblock(s) \/ CloseTransmit(s)
Calls(s) == SendCall(s) \/ ReceiveCall(s) \/ CloseCall(s)

Next == \/ ServerCreate \/ ServerWoken \/ ServerCheck
        \/ \E c \in Client : ClientCreate(c)
        \/ \E s \in exists : \/ Transmission(s) \/ Receiving(s) \/ Closing(s)
                             \/ FinTimeout(s) \/ Cleanup(s) \/ Calls(s)
        \/ \E m \in net : ProcessPacket(m)

\* Threads and alarms run; the network owes nothing, the programs call what they like.
Fairness == /\ WF_vars(ServerCheck)
            /\ \A s \in Socket : /\ WF_vars(s \in exists /\ Transmission(s))
                                /\ WF_vars(s \in exists /\ Receiving(s))
                                /\ WF_vars(s \in exists /\ Closing(s))
                                /\ WF_vars(s \in exists /\ FinTimeout(s))
                                /\ WF_vars(s \in exists /\ Cleanup(s))

Spec == Init /\ [][Next]_vars /\ Fairness
-----------------------------------------------------------------------------
(* Properties                                                              *)

\* Every variable has its type.
TypeOK == /\ skt \in [Socket -> [state : State, remote : Socket \cup {NoSocket},
                                 seq : Nat, ack : Nat, alarm : {"SUCCESS", "WAKEUP", "id"},
                                 data : Seq(Entry), receive : Nat, receive_count : 0..1,
                                 synchonize : Nat]]
          /\ exists \in SUBSET Socket /\ closing \in SUBSET Socket /\ finAlarm \in SUBSET Socket
          /\ \A s \in Socket : /\ tx[s].at \in {"idle", "send", "wait"}
                               /\ app[s] \in {"new", "listen", "check", "creating", "failed",
                                              "open", "send", "sending"}
                               /\ rcv[s].at \in {"idle", "wait", "loop", "rest"}
                               /\ cls[s] \in {"no", "unblock", "fin", "transmit", "done"}
                               /\ cleanup[s] \in Nat
                               /\ read[s] \in Seq(Nat)
          /\ net \in SUBSET Packet
          /\ sentOk \in [Socket -> SUBSET Nat]

\* A socket never acknowledges what its peer has not yet transmitted, whatever the network
\* repeats or delays: ack counts transmissions of the remote end.
AckNotAhead ==
    \A s \in Socket : skt[s].remote # NoSocket => skt[s].ack <= skt[skt[s].remote].seq

\* minisocket_send reports success only when the remote end has counted the transmission.
SuccessMeansTaken ==
    \A s \in Socket : \A n \in sentOk[s] : skt[skt[s].remote].ack >= n

\* What the program receives it receives once, and in the order of the calls of send.
NeverReordered ==
    \A s \in Socket : \A i, j \in DOMAIN read[s] : i < j => read[s][i] < read[s][j]

\* A thread that waits to receive has been, or is being, woken when there is data for it.
DataWakesReceiver ==
    \A s \in exists : rcv[s].at = "wait" /\ skt[s].data # << >> => skt[s].receive > 0

\* A socket that was ever established on both ends does not go back to the handshake, and a
\* socket that is being closed is not established again.
NeverReopened ==
    [][\A s \in Socket :
          skt[s].state \in {"ESTABLISHED", "LASTACK", "TIMEWAIT", "CLOSED"} /\ app[s] # "new"
              => /\ skt'[s].state \notin {"SYNSENT", "SYNRECEIVED"}
                 /\ skt[s].state # "ESTABLISHED" => skt'[s].state # "ESTABLISHED"]_vars

\* A call of minisocket_close ends, and the socket is destroyed, whatever the network does.
CloseEnds == \A s \in Socket : cls[s] = "unblock" ~> s \notin exists

\* Once the socket is no longer established, the thread that waits to receive is let go.
ReceiverFreed ==
    \A s \in Socket : rcv[s].at = "wait" /\ skt[s].state # "ESTABLISHED" ~> rcv[s].at # "wait"

=============================================================================
