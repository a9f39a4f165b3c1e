---------------------------- MODULE PeerSyncer -----------------------------
(***************************************************************************)
(* The asking side of the Windows peer node (Lab 7 Windows): the Syncer    *)
(* thread, which walks over nodePool and syncs with one node after the     *)
(* other, and what the nodes it asks may do to it.                         *)
(*                                                                         *)
(* The Syncer is the only thread that changes nodePool.  The pool is the   *)
(* sequence that ListContract promises; its elements are NetworkNode       *)
(* structs, compared byte by byte, some of whose bytes were never written. *)
(***************************************************************************)
EXTENDS Integers, SequencesExt, FiniteSetsExt

CONSTANTS Nodes,      \* the structs that may get into the pool
          Lengths,    \* how long the second field of a reply may be
          MaxPool,    \* bound: the size of the pool
          MaxPeers    \* bound: how many known nodes a reply may announce

ASSUME LengthsAssumption == Lengths \subseteq Nat
ASSUME MaxPoolAssumption == MaxPool \in Nat \ {0}
ASSUME MaxPeersAssumption == MaxPeers \in Nat

VARIABLES
    peers,        \* who is out there: "nodes" of this program, or "others"
    process,      \* "alive", "crashed" or "exited"
    running,      \* the flag that stops the loops
    nodePool,     \* the known nodes
    filePool,     \* whether any file is known
    pc,           \* where the Syncer is
    i,            \* its index into the pool, from 0
    node,         \* the node it asks
    heard,        \* that node's reply has been parsed
    message       \* how many known nodes are still to come

pool == <<nodePool, filePool>>
turn == <<i, node, heard, message>>
vars == <<peers, process, running, pool, pc, turn>>

Init ==
    /\ peers \in {"nodes", "others"}
    /\ process = "alive" /\ running = TRUE
    /\ nodePool \in {<< >>} \cup {<<n>> : n \in Nodes}  \* the node main is told of
    /\ filePool = FALSE
    /\ pc = "loop" /\ i = 0 /\ node \in Nodes /\ heard = FALSE /\ message = 0

-----------------------------------------------------------------------------
(* The user stops the node; the process may then end under the Syncer.     *)

Stop ==
    /\ running
    /\ running' = FALSE
    /\ UNCHANGED <<peers, process, pool, pc, turn>>

MainReturns ==
    /\ ~running
    /\ process' = "exited"
    /\ UNCHANGED <<peers, running, pool, pc, turn>>

-----------------------------------------------------------------------------
(* Syncer.  running is looked at between two walks over the pool only.     *)

Others == UNCHANGED <<peers, running>>
Goto(where) == pc' = where /\ UNCHANGED process
Crash == process' = "crashed" /\ UNCHANGED pc

TestRunning ==
    /\ pc = "loop"
    /\ Goto(IF running THEN "walk" ELSE "done")
    /\ i' = 0
    /\ Others /\ UNCHANGED <<pool, node, heard, message>>

NextNode ==
    /\ pc = "walk"
    /\ \/ /\ i < Len(nodePool)
          /\ node' = nodePool[i + 1] /\ heard' = FALSE
          /\ Goto("connect")
       \/ /\ i >= Len(nodePool)
          /\ Goto("loop") /\ UNCHANGED <<node, heard>>
    /\ Others /\ UNCHANGED <<pool, i, message>>

(* Whatever SendSync came to, the next index is one higher. *)
Pause ==
    /\ pc = "pause"
    /\ i' = i + 1
    /\ Goto("walk")
    /\ Others /\ UNCHANGED <<pool, node, heard, message>>

findVal(n) == {k \in 1..Len(nodePool) : nodePool[k] = n}

RemoveInactiveNode_Never == UNCHANGED nodePool

(* The first struct that equals the node at hand goes. *)
RemoveInactiveNode ==
    nodePool' = IF findVal(node) = {} THEN nodePool
                ELSE RemoveAt(nodePool, Min(findVal(node)))

(* How SendSync ends when a call on the socket fails. *)
GiveUp == RemoveInactiveNode /\ Goto("pause") /\ UNCHANGED <<filePool, turn>>

(* A connection that could not be made is -1, on which send fails.         *)
InitTCPClient ==
    /\ pc = "connect"
    /\ \/ GiveUp
       \/ Goto("signal") /\ UNCHANGED <<pool, turn>>
    /\ Others

(* Any signal will do, and so will none: a wrong one is only reported.     *)
RecvSignal ==
    /\ pc = "signal"
    /\ \/ GiveUp
       \/ Goto("reply") /\ UNCHANGED <<pool, turn>>
    /\ Others

insertFront_IfUnknown(n) == nodePool' = (IF findVal(n) = {} THEN <<n>> ELSE << >>) \o nodePool
insertFront(n) == nodePool' = <<n>> \o nodePool

Fits_Sixteen(length) == length < 16

(* portVal has six bytes, and is given the address instead of the port.    *)
Fits(length) == length < 6

(* What the texts of others look like.  A node of this program sends its   *)
(* address, of at least seven characters, unless only the beginning of its *)
(* text has arrived.                                                       *)
Sends(length, whole) == peers = "nodes" /\ whole => length >= 7

(* A second field that does not fit ends the process; a missing one is     *)
(* written as "(null)", which does not fit.  A missing third field ends it *)
(* where it is measured, when the node is already in the pool.  The node   *)
(* has a name and a port, and the address that was in its memory.          *)
ParseNode(length, whole) ==
    \/ ~Fits(length) /\ Crash /\ UNCHANGED <<pool, heard>>
    \/ /\ Fits(length) /\ Len(nodePool) < MaxPool
       /\ \E n \in Nodes : insertFront(n)
       /\ heard' = TRUE
       /\ \/ ~whole /\ Crash /\ UNCHANGED filePool
          \/ whole /\ Goto("count") /\ filePool' \in {filePool, TRUE}

(* After a close there is nothing in the buffer that has three fields.     *)
RecvReply ==
    /\ pc = "reply"
    /\ \/ GiveUp
       \/ Crash /\ UNCHANGED <<pool, turn>>
       \/ /\ \E length \in Lengths, whole \in BOOLEAN :
               Sends(length, whole) /\ ParseNode(length, whole)
          /\ UNCHANGED <<i, node, message>>
    /\ Others

(* Here a failure is reported, and the node stays.  After a close message  *)
(* is the 0 that it was set to.                                            *)
RecvCount ==
    /\ pc = "count"
    /\ \/ Goto("pause") /\ UNCHANGED message
       \/ Goto("peers") /\ message' \in 0..MaxPeers
    /\ Others /\ UNCHANGED <<pool, i, node, heard>>

More_OneMore == message >= 0
More == message > 0

(* When nothing comes, what is left in peerBuf is cut at its first colon   *)
(* or was never written: there is no port in it, which ends the process.   *)
RecvPeer ==
    /\ pc = "peers" /\ More
    /\ \/ Crash /\ UNCHANGED <<nodePool, message>>
       \/ /\ \E n \in Nodes :
               \/ findVal(n) # {} /\ UNCHANGED nodePool
               \/ findVal(n) = {} /\ Len(nodePool) < MaxPool /\ insertFront(n)
          /\ message' = message - 1
          /\ UNCHANGED <<process, pc>>
    /\ Others /\ UNCHANGED <<filePool, i, node, heard>>

LastPeer ==
    /\ pc = "peers" /\ ~More
    /\ Goto("pause")
    /\ Others /\ UNCHANGED <<pool, turn>>

Syncer ==
    \/ TestRunning \/ NextNode \/ Pause \/ InitTCPClient
    \/ RecvSignal \/ RecvReply \/ RecvCount \/ RecvPeer \/ LastPeer

Next == process = "alive" /\ (Stop \/ MainReturns \/ Syncer)

Spec == Init /\ [][Next]_vars

(* The Syncer runs where it does not wait for a peer.  connect comes to an *)
(* end one way or the other; a peer may keep a recv waiting for ever.      *)
Fairness == WF_vars(process = "alive" /\ (TestRunning \/ NextNode \/ Pause \/ InitTCPClient))
FairSpec == Spec /\ Fairness

-----------------------------------------------------------------------------
(* Properties *)

(* Every variable has its type; the index stays within the bound although  *)
(* the pool shrinks under it.                                              *)
TypeOK ==
    /\ peers \in {"nodes", "others"}
    /\ process \in {"alive", "crashed", "exited"}
    /\ running \in BOOLEAN /\ filePool \in BOOLEAN /\ heard \in BOOLEAN
    /\ nodePool \in Seq(Nodes) /\ Len(nodePool) <= MaxPool
    /\ pc \in {"loop", "walk", "connect", "signal", "reply", "count", "peers", "pause", "done"}
    /\ i \in 0..MaxPool
    /\ node \in Nodes
    /\ message \in 0..MaxPeers

(* Among nodes of this program a node that is still running has learned of *)
(* no other node and of no file: whatever its peers do, the replies that   *)
(* would teach it something end it (SendSync, ParseNode; the comment at    *)
(* PeerToPeer.c:195 has noticed).                                          *)
NothingLearned ==
    peers = "nodes" /\ process = "alive" => Len(nodePool) <= 1 /\ ~filePool

(* A node that has answered is put, by what its answer inserts before it,  *)
(* ahead of the index, and is asked again in the same walk.  So a walk     *)
(* comes to its end, and running is looked at, only after a node that has  *)
(* failed (Syncer's loop, insertVal at 0).                                 *)
EndsOnAFailure == [][pc = "walk" /\ pc' = "loop" => ~heard]_vars

Waiting == pc \in {"signal", "reply", "count", "peers"}

(* Among its own kind a node that is not stopped ends up knowing nobody,   *)
(* or dead, or waiting for ever for a peer that has fallen silent.         *)
AloneDeadOrWaiting ==
    peers = "nodes" => <>(nodePool = << >> \/ process # "alive" \/ pc = "done" \/ []Waiting)
=============================================================================
