-------------------------- MODULE UdpServerProofs --------------------------
(***************************************************************************)
(* Proofs about the datagram server, for any clients and any threads: no   *)
(* two clients are told of one thread, and none that waits is forgotten.   *)
(***************************************************************************)
EXTENDS UdpServer, TLAPS

(* A reply, on its way or received, is from a thread that has ended and    *)
(* had the address of its client.                                          *)
Answers(t, c) == t \in Threads /\ addr[t] = c /\ jpc[t] = "ended"

FromEnded ==
    /\ \A c \in Clients : told[c] # NONE => Answers(told[c], c)
    /\ \A c \in Clients, t \in Threads : <<c, t>> \in replies => Answers(t, c)

Inv == TypeOK /\ FromEnded

LEMMA InitInv == Init => Inv
  BY DEF Init, Inv, TypeOK, FromEnded, Answers

(* A new thread takes a number that no thread has had. *)
LEMMA server_jobInv ==
    ASSUME Inv, NEW a \in Clients \cup {NONE}, server_job(a),
           UNCHANGED <<cpc, told, replies, lost>>
    PROVE  /\ conn' \in [Threads -> Clients \cup {NONE}]
           /\ jpc' \in [Threads -> {"unused", "new", "asleep", "ended"}]
           /\ addr' = addr
           /\ FromEnded'
<1>1. /\ conn' \in [Threads -> Clients \cup {NONE}]
      /\ jpc' \in [Threads -> {"unused", "new", "asleep", "ended"}]
      /\ addr' = addr
      BY DEF Inv, TypeOK, server_job, jobs
<1>2. \A t \in Threads : jpc[t] = "ended" => jpc'[t] = "ended"
      BY DEF Inv, TypeOK, server_job, jobs
<1>3. QED
      BY <1>1, <1>2 DEF Inv, FromEnded, Answers

(* Every step of the server, of a client and of the network keeps it. *)
LEMMA NextInv == Inv /\ [Next]_vars => Inv'
<1> SUFFICES ASSUME Inv, [Next]_vars PROVE Inv'
    OBVIOUS
<1>0. TypeOK /\ FromEnded
      BY DEF Inv
<1>1. ASSUME NEW c \in Clients, Receive(c) PROVE Inv'
  <2>1. FromEnded' /\ conn' \in [Threads -> Clients \cup {NONE}] /\ addr' = addr
        /\ jpc' \in [Threads -> {"unused", "new", "asleep", "ended"}]
        BY <1>1, server_jobInv DEF Receive, clients
  <2>2. hellos' \in [Clients -> 0..2]
        BY <1>0, <1>1 DEF Receive, TypeOK
  <2>3. TypeOK'
        BY <1>0, <1>1, <2>1, <2>2 DEF Receive, TypeOK, clients
  <2>4. QED
        BY <2>1, <2>3 DEF Inv
<1>2. CASE ReceiveFails
  <2>1. CASE server_job(addr_client) /\ UNCHANGED alive
    <3>1. FromEnded' /\ conn' \in [Threads -> Clients \cup {NONE}] /\ addr' = addr
          /\ jpc' \in [Threads -> {"unused", "new", "asleep", "ended"}]
          BY <1>0, <1>2, <2>1, server_jobInv DEF ReceiveFails, clients, network, TypeOK
    <3>2. TypeOK'
          BY <1>0, <1>2, <2>1, <3>1 DEF ReceiveFails, clients, network, TypeOK
    <3>3. QED
          BY <3>1, <3>2 DEF Inv
  <2>2. CASE alive' = FALSE /\ UNCHANGED jobs
    <3>1. UNCHANGED <<addr_client, conn, jpc, addr, cpc, told, hellos, replies, lost>>
          BY <1>2, <2>2 DEF ReceiveFails, jobs, clients, network
    <3>2. TypeOK' /\ FromEnded'
          BY <1>0, <2>2, <3>1 DEF TypeOK, FromEnded, Answers
    <3>3. QED
          BY <3>2 DEF Inv
  <2>3. QED
        BY <1>2, <2>1, <2>2 DEF ReceiveFails
<1>3. ASSUME NEW t \in Threads, CopyConn(t) PROVE Inv'
  <2>1. TypeOK'
        BY <1>0, <1>3 DEF CopyConn, args, TypeOK, main, clients, network
  <2>2. \A u \in Threads : jpc[u] = "ended" => jpc'[u] = "ended" /\ addr'[u] = addr[u]
        BY <1>0, <1>3 DEF CopyConn, TypeOK
  <2>3. FromEnded'
        BY <1>0, <1>3, <2>2 DEF CopyConn, clients, network, FromEnded, Answers
  <2>4. QED
        BY <2>1, <2>3 DEF Inv
<1>4. ASSUME NEW t \in Threads, Send(t) PROVE Inv'
  <2>1. TypeOK'
        BY <1>0, <1>4 DEF Send, To, ended, TypeOK, main, clients
  <2>2. /\ jpc' = [jpc EXCEPT ![t] = "ended"] /\ addr' = addr /\ told' = told
        /\ replies' = replies \cup ({addr[t]} \cap Clients) \X {t}
        BY <1>4 DEF Send, To, ended, clients
  <2>3. \A c \in Clients : told'[c] # NONE =>
             told'[c] \in Threads /\ addr'[told'[c]] = c /\ jpc'[told'[c]] = "ended"
        BY <1>0, <2>2 DEF FromEnded, Answers, TypeOK
  <2>4. \A c \in Clients, u \in Threads : <<c, u>> \in replies' => Answers(u, c)'
        BY <1>0, <2>2 DEF FromEnded, Answers, TypeOK
  <2>5. QED
        BY <2>1, <2>3, <2>4 DEF Inv, FromEnded, Answers
<1>5. ASSUME NEW c \in Clients, Hello(c) PROVE Inv'
  <2>1. TypeOK' /\ FromEnded'
        BY <1>0, <1>5 DEF Hello, TypeOK, FromEnded, Answers, main, jobs
  <2>2. QED
        BY <2>1 DEF Inv
<1>6. ASSUME NEW c \in Clients, NEW t \in Threads, RecvReply(c, t) PROVE Inv'
  <2>0. /\ told' = [told EXCEPT ![c] = t] /\ cpc' = [cpc EXCEPT ![c] = "done"]
        /\ replies' \subseteq replies /\ t # NONE
        /\ UNCHANGED <<alive, addr_client, conn, jpc, addr, hellos, lost>>
        BY <1>6, NoneAssumption DEF RecvReply, main, jobs
  <2>5. /\ told' \in [Clients -> Threads \cup {NONE}]
        /\ cpc' \in [Clients -> {"start", "wait", "done"}]
        /\ \A d \in Clients : cpc'[d] = "done" => told'[d] # NONE
        BY <1>0, <2>0 DEF TypeOK
  <2>1. TypeOK'
        BY <1>0, <2>0, <2>5 DEF TypeOK
  <2>2. Answers(t, c) /\ UNCHANGED <<addr, jpc>>
        BY <1>0, <1>6 DEF RecvReply, FromEnded, jobs
  <2>3. FromEnded'
    <3>1. \A d \in Clients : told'[d] # NONE =>
             told'[d] \in Threads /\ addr'[told'[d]] = d /\ jpc'[told'[d]] = "ended"
          BY <1>0, <2>0, <2>2 DEF FromEnded, Answers, TypeOK
    <3>2. \A d \in Clients, u \in Threads : <<d, u>> \in replies' => Answers(u, d)'
          BY <1>0, <2>0, <2>2 DEF FromEnded, Answers
    <3>3. QED
          BY <3>1, <3>2 DEF FromEnded, Answers
  <2>4. QED
        BY <2>1, <2>3 DEF Inv
<1>7. ASSUME NEW c \in Clients, Double(c) PROVE Inv'
  <2>1. TypeOK' /\ FromEnded'
        BY <1>0, <1>7 DEF Double, TypeOK, FromEnded, Answers, main, jobs, clients
  <2>2. QED
        BY <2>1 DEF Inv
<1>8. ASSUME NEW c \in Clients, Lose(c) PROVE Inv'
  <2>1. TypeOK' /\ FromEnded'
        BY <1>0, <1>8 DEF Lose, TypeOK, FromEnded, Answers, main, jobs, clients
  <2>2. QED
        BY <2>1 DEF Inv
<1>9. CASE UNCHANGED vars
  <2>1. TypeOK' /\ FromEnded'
        BY <1>0, <1>9 DEF vars, main, jobs, clients, network, TypeOK, FromEnded, Answers
  <2>2. QED
        BY <2>1 DEF Inv
<1>10. QED
      BY <1>1, <1>2, <1>3, <1>4, <1>5, <1>6, <1>7, <1>8, <1>9 DEF Next, Server, Outside

LEMMA Invariance == Spec => []Inv
  BY InitInv, NextInv, PTL DEF Spec

(* The variables keep their types. *)
THEOREM Typing == Spec => []TypeOK
<1>1. Inv => TypeOK
      BY DEF Inv
<1>2. QED
      BY <1>1, Invariance, PTL

(* No two clients are ever told of one thread (server2.c lines 28 and 78). *)
THEOREM NumbersAreNotShared == Spec => []OneThreadOneClient
<1>1. Inv => OneThreadOneClient
      BY DEF Inv, FromEnded, Answers, OneThreadOneClient
<1>2. QED
      BY <1>1, Invariance, PTL

-----------------------------------------------------------------------------
(* No client is forgotten *)

(* A thread copies its own cell, whatever main has received since.         *)
OwnCells == \A t \in Threads : jpc[t] \in {"asleep", "ended"} => addr[t] = conn[t]

(* Nothing is under way for a client that has not sent its datagram.       *)
NotYet ==
    \A c \in Clients : cpc[c] = "start" =>
        hellos[c] = 0 /\ addr_client # c /\ \A t \in Threads : conn[t] # c

(* The reply of a thread that has ended waits for its client.              *)
RepliesWait ==
    \A c \in Clients, t \in Threads :
        cpc[c] = "wait" /\ c \notin lost /\ jpc[t] = "ended" /\ conn[t] = c => <<c, t>> \in replies

Care == OwnCells /\ NotYet /\ RepliesWait

(* What NobodyForgotten says of a server that lives.  As a statement about *)
(* the variables it is kept by every step, the last one of the server too. *)
AllInCare == \A c \in Clients : cpc[c] = "wait" /\ c \notin lost => UnderWay(c) \/ TooLate(c)

(* What becomes of a datagram that main takes for one from a.              *)
LEMMA server_jobStarts ==
    ASSUME Inv, NEW a, server_job(a)
    PROVE  /\ addr' = addr
           /\ \A t \in Threads :
                \/ UNCHANGED <<conn[t], jpc[t]>>
                \/ jpc[t] = "unused" /\ jpc'[t] = "new" /\ conn'[t] = a
           /\ \/ \E t \in Threads : jpc'[t] = "new" /\ conn'[t] = a
              \/ UNCHANGED <<conn, jpc>> /\ \A t \in Threads : jpc[t] # "unused"
BY DEF Inv, TypeOK, server_job, jobs

(* A datagram taken for one from a is in the care of a thread, unless all  *)
(* threads were used up.                                                   *)
LEMMA JobCares ==
    ASSUME Inv, Care, AllInCare, NEW a \in Clients \cup {NONE}, server_job(a),
           a \in Clients => cpc[a] # "start",
           addr_client' = a, UNCHANGED <<cpc, told, replies, lost>>, hellos' \in [Clients -> Nat],
           \A d \in Clients : hellos'[d] = hellos[d] \/ (d = a /\ hellos[d] > 0)
    PROVE  Care' /\ AllInCare'
<1>0. TypeOK /\ OwnCells /\ NotYet /\ RepliesWait
      BY DEF Inv, Care
<1>1. /\ addr' = addr
      /\ \A t \in Threads :
           \/ UNCHANGED <<conn[t], jpc[t]>>
           \/ jpc[t] = "unused" /\ jpc'[t] = "new" /\ conn'[t] = a
      /\ \/ \E t \in Threads : jpc'[t] = "new" /\ conn'[t] = a
         \/ UNCHANGED <<conn, jpc>> /\ \A t \in Threads : jpc[t] # "unused"
      BY server_jobStarts
<1>2. OwnCells' /\ RepliesWait'
      BY <1>0, <1>1 DEF OwnCells, RepliesWait
<1>3. NotYet'
      BY <1>0, <1>1 DEF NotYet, TypeOK
<1>4. ASSUME NEW c \in Clients, cpc'[c] = "wait", c \notin lost'
      PROVE  \/ hellos'[c] > 0
             \/ \E t \in Threads : conn'[t] = c /\ jpc'[t] \in {"new", "asleep"}
             \/ \E t \in Threads : <<c, t>> \in replies'
             \/ TooLate(c)'
  <2>1. CASE hellos[c] > 0 /\ hellos'[c] # hellos[c]
    <3>1. c = a
          BY <2>1
    <3>2. CASE \E t \in Threads : jpc'[t] = "new" /\ conn'[t] = a
          BY <3>1, <3>2
    <3>3. CASE UNCHANGED <<conn, jpc>> /\ \A t \in Threads : jpc[t] # "unused"
      <4>1. CASE \A t \in Threads : conn[t] # c
            BY <3>3, <4>1 DEF TooLate
      <4>2. CASE \E t \in Threads : conn[t] = c
        <5>1. PICK t \in Threads : conn[t] = c
              BY <4>2
        <5>2. jpc[t] \in {"new", "asleep", "ended"}
              BY <1>0, <3>3 DEF TypeOK
        <5>3. jpc[t] = "ended" => <<c, t>> \in replies
              BY <1>0, <1>4, <5>1 DEF RepliesWait
        <5>4. QED
              BY <3>3, <5>1, <5>2, <5>3
      <4>3. QED
            BY <4>1, <4>2
    <3>4. QED
          BY <1>1, <3>2, <3>3
  <2>2. CASE hellos[c] > 0 /\ hellos'[c] = hellos[c]
        BY <2>2
  <2>3. ASSUME NEW t \in Threads, conn[t] = c, jpc[t] \in {"new", "asleep"}
        PROVE  conn'[t] = c /\ jpc'[t] \in {"new", "asleep"}
        BY <1>1, <2>3
  <2>4. TooLate(c) => TooLate(c)'
        BY <1>1 DEF TooLate
  <2>5. QED
        BY <1>4, <2>1, <2>2, <2>3, <2>4 DEF AllInCare, UnderWay
<1>5. QED
      BY <1>2, <1>3, <1>4 DEF Care, AllInCare, UnderWay

(* No step of the server, of a client or of the network forgets a client.  *)
LEMMA CareStep ==
    ASSUME Inv, Care, AllInCare, [Next]_vars
    PROVE  Care' /\ AllInCare'
<1>0. TypeOK /\ OwnCells /\ NotYet /\ RepliesWait
      BY DEF Inv, Care
<1>1. ASSUME NEW c \in Clients, Receive(c) PROVE Care' /\ AllInCare'
  <2>1. /\ server_job(c) /\ addr_client' = c /\ hellos[c] > 0
        /\ hellos' = [hellos EXCEPT ![c] = @ - 1] /\ UNCHANGED <<cpc, told, replies, lost>>
        BY <1>1 DEF Receive, clients
  <2>2. cpc[c] # "start"
        BY <1>0, <2>1 DEF NotYet, TypeOK
  <2>3. /\ hellos' \in [Clients -> Nat]
        /\ \A d \in Clients : hellos'[d] = hellos[d] \/ (d = c /\ hellos[d] > 0)
        BY <1>0, <2>1 DEF TypeOK
  <2>4. QED
        BY <2>1, <2>2, <2>3, JobCares
<1>2. CASE ReceiveFails
  <2>1. CASE server_job(addr_client)
    <3>1. UNCHANGED <<addr_client, cpc, told, hellos, replies, lost>>
          BY <1>2 DEF ReceiveFails, clients, network
    <3>2. addr_client \in Clients \cup {NONE} /\ (addr_client \in Clients => cpc[addr_client] # "start")
          BY <1>0 DEF NotYet, TypeOK
    <3>3. hellos \in [Clients -> Nat]
          BY <1>0 DEF TypeOK
    <3>4. QED
          BY <2>1, <3>1, <3>2, <3>3, JobCares
  <2>2. CASE UNCHANGED jobs
    <3>1. UNCHANGED <<addr_client, conn, jpc, addr, cpc, told, hellos, replies, lost>>
          BY <1>2, <2>2 DEF ReceiveFails, jobs, clients, network
    <3>2. QED
          BY <1>0, <3>1 DEF Care, OwnCells, NotYet, RepliesWait, AllInCare, UnderWay, TooLate
  <2>3. QED
        BY <1>2, <2>1, <2>2 DEF ReceiveFails
<1>3. ASSUME NEW t \in Threads, CopyConn(t) PROVE Care' /\ AllInCare'
  <2>1. /\ UNCHANGED <<addr_client, conn, cpc, hellos, replies, lost>>
        /\ jpc[t] = "new" /\ jpc'[t] = "asleep" /\ addr'[t] = conn[t]
        /\ \A u \in Threads \ {t} : jpc'[u] = jpc[u] /\ addr'[u] = addr[u]
        BY <1>0, <1>3 DEF CopyConn, args, main, clients, network, TypeOK
  <2>2. OwnCells' /\ NotYet' /\ RepliesWait'
        BY <1>0, <2>1 DEF OwnCells, NotYet, RepliesWait
  <2>3. AllInCare'
        BY <1>0, <2>1 DEF AllInCare, UnderWay, TooLate
  <2>4. QED
        BY <2>2, <2>3 DEF Care
<1>4. ASSUME NEW t \in Threads, Send(t) PROVE Care' /\ AllInCare'
  <2>1. /\ UNCHANGED <<addr_client, conn, addr, cpc, hellos, lost>>
        /\ jpc[t] = "asleep" /\ jpc'[t] = "ended" /\ addr[t] = conn[t]
        /\ \A u \in Threads \ {t} : jpc'[u] = jpc[u]
        /\ replies \subseteq replies'
        /\ conn[t] \in Clients => <<conn[t], t>> \in replies'
        BY <1>0, <1>4 DEF Send, To, ended, main, clients, TypeOK, OwnCells
  <2>2. OwnCells' /\ NotYet' /\ RepliesWait'
        BY <1>0, <2>1 DEF OwnCells, NotYet, RepliesWait
  <2>3. AllInCare'
        BY <1>0, <2>1 DEF AllInCare, UnderWay, TooLate
  <2>4. QED
        BY <2>2, <2>3 DEF Care
<1>5. ASSUME NEW c \in Clients, Hello(c) PROVE Care' /\ AllInCare'
  <2>1. /\ UNCHANGED <<addr_client, conn, jpc, addr, replies, lost>>
        /\ cpc[c] = "start" /\ cpc'[c] = "wait" /\ hellos'[c] = 1
        /\ \A d \in Clients \ {c} : cpc'[d] = cpc[d] /\ hellos'[d] = hellos[d]
        BY <1>0, <1>5 DEF Hello, main, jobs, TypeOK
  <2>2. OwnCells' /\ NotYet' /\ RepliesWait'
        BY <1>0, <2>1 DEF OwnCells, NotYet, RepliesWait
  <2>3. AllInCare'
        BY <1>0, <2>1 DEF AllInCare, UnderWay, TooLate
  <2>4. QED
        BY <2>2, <2>3 DEF Care
<1>6. ASSUME NEW c \in Clients, NEW t \in Threads, RecvReply(c, t) PROVE Care' /\ AllInCare'
  <2>1. /\ UNCHANGED <<addr_client, conn, jpc, addr, hellos, lost>>
        /\ cpc'[c] = "done" /\ replies' = replies \ {<<c, t>>}
        /\ \A d \in Clients \ {c} : cpc'[d] = cpc[d]
        BY <1>0, <1>6 DEF RecvReply, main, jobs, TypeOK
  <2>2. OwnCells' /\ NotYet' /\ RepliesWait'
        BY <1>0, <2>1 DEF OwnCells, NotYet, RepliesWait
  <2>3. AllInCare'
        BY <1>0, <2>1 DEF AllInCare, UnderWay, TooLate
  <2>4. QED
        BY <2>2, <2>3 DEF Care
<1>7. ASSUME NEW c \in Clients, Double(c) PROVE Care' /\ AllInCare'
  <2>1. /\ UNCHANGED <<addr_client, conn, jpc, addr, cpc, replies, lost>>
        /\ hellos[c] = 1 /\ hellos'[c] = 2
        /\ \A d \in Clients \ {c} : hellos'[d] = hellos[d]
        BY <1>0, <1>7 DEF Double, main, jobs, clients, TypeOK
  <2>2. OwnCells' /\ NotYet' /\ RepliesWait'
        BY <1>0, <2>1 DEF OwnCells, NotYet, RepliesWait
  <2>3. AllInCare'
        BY <1>0, <2>1 DEF AllInCare, UnderWay, TooLate
  <2>4. QED
        BY <2>2, <2>3 DEF Care
<1>8. ASSUME NEW c \in Clients, Lose(c) PROVE Care' /\ AllInCare'
  <2>1. /\ UNCHANGED <<addr_client, conn, jpc, addr, cpc>> /\ lost' = lost \cup {c}
        /\ hellos'[c] = hellos[c] \/ hellos'[c] = 0
        /\ \A d \in Clients \ {c} : hellos'[d] = hellos[d]
        /\ \A d \in Clients \ {c}, t \in Threads : <<d, t>> \in replies' <=> <<d, t>> \in replies
        BY <1>0, <1>8 DEF Lose, main, jobs, clients, TypeOK
  <2>2. OwnCells' /\ NotYet' /\ RepliesWait'
        BY <1>0, <2>1 DEF OwnCells, NotYet, RepliesWait
  <2>3. AllInCare'
        BY <1>0, <2>1 DEF AllInCare, UnderWay, TooLate
  <2>4. QED
        BY <2>2, <2>3 DEF Care
<1>9. CASE UNCHANGED vars
      BY <1>0, <1>9 DEF vars, main, jobs, clients, network, Care, OwnCells, NotYet, RepliesWait,
                        AllInCare, UnderWay, TooLate
<1>10. QED
      BY <1>1, <1>2, <1>3, <1>4, <1>5, <1>6, <1>7, <1>8, <1>9 DEF Next, Server, Outside

(* As long as the server lives a client that waits is in somebody's care,   *)
(* for any number of clients and threads (server2.c lines 66-78): when      *)
(* nothing of its was lost and it was in time, what is left to wait for is  *)
(* a step of the server or of the network.                                  *)
THEOREM WaitersAreCaredFor == Spec => []NobodyForgotten
<1>1. Init => Care /\ AllInCare
      BY NoneAssumption DEF Init, Care, OwnCells, NotYet, RepliesWait, AllInCare
<1>2. Inv /\ Care /\ AllInCare /\ [Next]_vars => Care' /\ AllInCare'
      BY CareStep
<1>3. AllInCare => NobodyForgotten
      BY DEF AllInCare, NobodyForgotten
<1>4. QED
      BY <1>1, <1>2, <1>3, Invariance, PTL DEF Spec
=============================================================================
