----------------------------- MODULE UdpServer -----------------------------
(***************************************************************************)
(* The datagram server of Lab 5 and its clients.  main receives datagrams  *)
(* and starts a thread for each, which waits a while and sends the client  *)
(* the number of the thread.  A client sends one datagram and waits for    *)
(* one.  Datagrams are lost, doubled and reordered.                        *)
(*                                                                         *)
(* Threads are neither joined nor detached: what the system keeps of a     *)
(* thread that has ended, its number with it, is never given back.         *)
(***************************************************************************)
EXTENDS Naturals

CONSTANTS Clients,
          Threads,   \* the threads the system can keep
          NONE       \* no client, the address of zeros

ASSUME NoneAssumption == NONE \notin Clients \cup Threads

VARIABLES
    alive,        \* the server's process
    addr_client,  \* the address main received last
    conn,         \* by thread: what its heap cell holds
    jpc,          \* by thread: "unused", "new", "asleep" or "ended"
    addr,         \* by thread: the address it has copied
    cpc,          \* by client: "start", "wait" or "done"
    told,         \* by client: the thread it has been told of
    hellos,       \* by client: its datagrams on their way
    replies,      \* replies on their way, as pairs of client and thread
    lost          \* clients a datagram from or to whom has been lost

main == <<alive, addr_client>>
jobs == <<conn, jpc, addr>>
clients == <<cpc, told>>
network == <<hellos, replies, lost>>
vars == <<main, jobs, clients, network>>

Init ==
    /\ alive = TRUE /\ addr_client = NONE
    /\ conn = [t \in Threads |-> NONE]
    /\ jpc = [t \in Threads |-> "unused"]
    /\ addr = [t \in Threads |-> NONE]
    /\ cpc = [c \in Clients |-> "start"]
    /\ told = [c \in Clients |-> NONE]
    /\ hellos = [c \in Clients |-> 0] /\ replies = {} /\ lost = {}

-----------------------------------------------------------------------------
(* main's loop.  A datagram gets a cell of its own and a thread of its     *)
(* own; when there are no threads any more, pthread_create fails unseen.   *)

server_job(a) ==
    \/ \E t \in Threads :
         /\ jpc[t] = "unused"
         /\ conn' = [conn EXCEPT ![t] = a]
         /\ jpc' = [jpc EXCEPT ![t] = "new"]
         /\ UNCHANGED addr
    \/ (\A t \in Threads : jpc[t] # "unused") /\ UNCHANGED jobs

Receive(c) ==
    /\ hellos[c] > 0
    /\ hellos' = [hellos EXCEPT ![c] = @ - 1]
    /\ addr_client' = c
    /\ server_job(c)
    /\ UNCHANGED <<alive, clients, replies, lost>>

(* A failed recvfrom is taken for a datagram from whoever sent the last    *)
(* one; the byte before the buffer is cleared, which may end the server.   *)
ReceiveFails ==
    /\ \/ server_job(addr_client) /\ UNCHANGED alive
       \/ alive' = FALSE /\ UNCHANGED jobs
    /\ UNCHANGED <<addr_client, clients, network>>

-----------------------------------------------------------------------------
(* server_job: the cell is copied and freed, and after ten seconds the     *)
(* thread sends eight bytes from where pthread_self points.  On the        *)
(* systems of the lab these are that address, the number of the thread.    *)

args_Shared(t) == addr_client
args(t) == conn[t]

CopyConn(t) ==
    /\ jpc[t] = "new"
    /\ addr' = [addr EXCEPT ![t] = args(t)]
    /\ jpc' = [jpc EXCEPT ![t] = "asleep"]
    /\ UNCHANGED <<main, conn, clients, network>>

ended_Detached == "unused"
ended == "ended"

To(a) == {a} \cap Clients    \* sendto refuses the address of zeros

Send(t) ==
    /\ jpc[t] = "asleep"
    /\ replies' = replies \cup To(addr[t]) \X {t}
    /\ jpc' = [jpc EXCEPT ![t] = ended]
    /\ UNCHANGED <<main, conn, addr, clients, hellos, lost>>

Server ==
    alive /\ (ReceiveFails \/ (\E c \in Clients : Receive(c)) \/ \E t \in Threads : CopyConn(t) \/ Send(t))

-----------------------------------------------------------------------------
(* A client waits without end for the reply to its one datagram. *)

Hello(c) ==
    /\ cpc[c] = "start"
    /\ hellos' = [hellos EXCEPT ![c] = 1]
    /\ cpc' = [cpc EXCEPT ![c] = "wait"]
    /\ UNCHANGED <<main, jobs, told, replies, lost>>

RecvReply(c, t) ==
    /\ cpc[c] = "wait" /\ <<c, t>> \in replies
    /\ told' = [told EXCEPT ![c] = t]
    /\ cpc' = [cpc EXCEPT ![c] = "done"]
    /\ replies' = replies \ {<<c, t>>}
    /\ UNCHANGED <<main, jobs, hellos, lost>>

Double(c) ==
    /\ hellos[c] = 1
    /\ hellos' = [hellos EXCEPT ![c] = 2]
    /\ UNCHANGED <<main, jobs, clients, replies, lost>>

Lose(c) ==
    /\ \/ /\ hellos[c] > 0 /\ hellos' = [hellos EXCEPT ![c] = 0]
          /\ UNCHANGED replies
       \/ /\ \E r \in replies : r[1] = c /\ replies' = replies \ {r}
          /\ UNCHANGED hellos
    /\ lost' = lost \cup {c}
    /\ UNCHANGED <<main, jobs, clients>>

Outside ==
    \E c \in Clients : Hello(c) \/ Double(c) \/ Lose(c) \/ \E t \in Threads : RecvReply(c, t)

Next == Server \/ Outside

Spec == Init /\ [][Next]_vars

(* main and the threads run, and what is not lost arrives.                 *)
FairSpec ==
    /\ Spec
    /\ \A c \in Clients : WF_vars(alive /\ Receive(c))
    /\ \A t \in Threads : WF_vars(alive /\ (CopyConn(t) \/ Send(t)))
    /\ \A c \in Clients : WF_vars(\E t \in Threads : RecvReply(c, t))

-----------------------------------------------------------------------------
(* Properties *)

(* Every variable has its type; there are never more than two copies of a  *)
(* datagram, and a client that is done has been told of a thread.          *)
TypeOK ==
    /\ alive \in BOOLEAN /\ addr_client \in Clients \cup {NONE}
    /\ conn \in [Threads -> Clients \cup {NONE}] /\ addr \in [Threads -> Clients \cup {NONE}]
    /\ jpc \in [Threads -> {"unused", "new", "asleep", "ended"}]
    /\ cpc \in [Clients -> {"start", "wait", "done"}]
    /\ told \in [Clients -> Threads \cup {NONE}]
    /\ hellos \in [Clients -> 0..2]
    /\ replies \subseteq Clients \X Threads /\ lost \subseteq Clients
    /\ \A c \in Clients : cpc[c] = "done" => told[c] # NONE

(* No two clients are told of the same thread, however datagrams are       *)
(* doubled and receives fail: a number is not used again (server2.c lines  *)
(* 28 and 78).                                                             *)
OneThreadOneClient ==
    \A c, d \in Clients : told[c] # NONE /\ told[c] = told[d] => c = d

(* There is no thread left, and none was started for this client. *)
TooLate(c) == \A t \in Threads : jpc[t] # "unused" /\ conn[t] # c

(* The client's datagram or a copy, a thread for it, or its answer.         *)
UnderWay(c) ==
    \/ hellos[c] > 0
    \/ \E t \in Threads : conn[t] = c /\ jpc[t] \in {"new", "asleep"}
    \/ \E t \in Threads : <<c, t>> \in replies

(* As long as the server lives, a client that waits, and of which nothing   *)
(* was lost, has its datagram on its way, or a thread that is to answer it, *)
(* or its answer, or came too late: there is no way to be forgotten,        *)
(* whatever other clients send and however often recvfrom fails             *)
(* (server2.c lines 66-78).  A server that ends, as the write before the    *)
(* buffer may make it, leaves all of them waiting.                          *)
NobodyForgotten ==
    alive => \A c \in Clients : cpc[c] = "wait" /\ c \notin lost => UnderWay(c) \/ TooLate(c)

(* Nobody else than the network, a server that has ended, or too many      *)
(* threads keeps a client from its answer: each thread has its client's    *)
(* address from a cell of its own (server2.c lines 73-78).                 *)
AnsweredUnlessLost ==
    \A c \in Clients : (cpc[c] = "wait") ~> (told[c] # NONE \/ c \in lost \/ ~alive \/ TooLate(c))
=============================================================================
