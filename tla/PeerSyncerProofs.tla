-------------------------- MODULE PeerSyncerProofs --------------------------
(***************************************************************************)
(* Proofs about the Syncer, for any set of structs, any lengths of the     *)
(* fields it is sent and any size of the pool.                             *)
(***************************************************************************)
EXTENDS PeerSyncer, SequenceTheorems, NaturalsInduction, WellFoundedInduction, TLAPS

(* insertVal at 0 makes the pool longer by one. *)
LEMMA FrontLemma ==
    ASSUME NEW S, NEW s \in Seq(S), NEW n \in S
    PROVE  <<n>> \o s \in Seq(S) /\ Len(<<n>> \o s) = Len(s) + 1
<1>1. <<n>> \in Seq(S) /\ Len(<<n>>) = 1
      OBVIOUS
<1>2. QED
      BY <1>1, ConcatProperties

(* deleteVal makes it shorter by one. *)
LEMMA RemoveLemma ==
    ASSUME NEW S, NEW s \in Seq(S), NEW k \in 1..Len(s)
    PROVE  RemoveAt(s, k) \in Seq(S) /\ Len(RemoveAt(s, k)) = Len(s) - 1
<1>0. Len(s) \in Nat
      BY LenProperties
<1>1. /\ SubSeq(s, 1, k - 1) \in Seq(S)
      /\ Len(SubSeq(s, 1, k - 1)) = k - 1
      BY <1>0, SubSeqProperties
<1>2. /\ SubSeq(s, k + 1, Len(s)) \in Seq(S)
      /\ Len(SubSeq(s, k + 1, Len(s))) = Len(s) - k
      BY <1>0, SubSeqProperties
<1> DEFINE a == SubSeq(s, 1, k - 1)
           b == SubSeq(s, k + 1, Len(s))
<1>3. /\ a \in Seq(S) /\ Len(a) = k - 1
      /\ b \in Seq(S) /\ Len(b) = Len(s) - k
      BY <1>1, <1>2
<1>4. RemoveAt(s, k) = a \o b
      BY DEF RemoveAt
<1> HIDE DEF a, b
<1>5. a \o b \in Seq(S) /\ Len(a \o b) = Len(a) + Len(b)
      BY <1>3, ConcatProperties
<1>6. QED
      BY <1>0, <1>3, <1>4, <1>5

(* A set of indices that is not empty has a least one. *)
LEMMA MinLemma ==
    ASSUME NEW S \in SUBSET Nat, S # {}
    PROVE  Min(S) \in S
<1>1. PICK m \in S : \A n \in S : <<n, m>> \notin OpToRel(<, Nat)
      BY NatLessThanWellFounded, WFMin, Zenon
<1>2. m \in Nat /\ \A n \in S : n \in Nat /\ (n < m => <<n, m>> \in OpToRel(<, Nat))
      BY DEF OpToRel
<1>3. \A n \in S : m <= n
  <2> TAKE n \in S
  <2>1. m \in Nat /\ n \in Nat
        BY <1>2
  <2>2. ~(n < m)
        BY <1>1, <1>2
  <2>3. QED
        BY ONLY <2>1, <2>2
<1>4. \E x \in S : \A y \in S : x =< y
      BY <1>3
<1>5. QED
      <2>1. (CHOOSE x \in S : \A y \in S : x =< y) \in S
            BY <1>4, Zenon
      <2>2. QED
            BY <2>1 DEF Min

(* A node that is still running among its own kind has not come past the   *)
(* first reply.                                                            *)
Untaught ==
    peers = "nodes" /\ process = "alive" =>
        Len(nodePool) <= 1 /\ ~filePool /\ pc \notin {"count", "peers"}

(* Where the index is.  Once the node at hand has answered, there is one   *)
(* more node behind the index than there was.                              *)
Asking == {"connect", "signal", "reply"}
Taught == {"count", "peers", "pause"}

Ahead ==
    /\ pc \in Asking \cup Taught => i < MaxPool
    /\ process = "alive" =>
        /\ pc \in Asking \cup {"loop", "done"} => ~heard
        /\ pc \in Asking => i < Len(nodePool)
        /\ pc \in Taught /\ heard => i + 1 < Len(nodePool)
        /\ pc = "walk" /\ heard => i < Len(nodePool)

Inv == TypeOK /\ Untaught /\ Ahead

(* The pool after a removal and after an insertion. *)
LEMMA Removed ==
    ASSUME TypeOK, RemoveInactiveNode
    PROVE  nodePool' \in Seq(Nodes) /\ Len(nodePool') \in Nat /\ Len(nodePool') <= Len(nodePool)
<1>0. nodePool \in Seq(Nodes) /\ Len(nodePool) \in Nat
      BY LenProperties DEF TypeOK
<1>1. CASE findVal(node) = {}
      BY <1>0, <1>1 DEF RemoveInactiveNode
<1>2. CASE findVal(node) # {}
  <2>1. findVal(node) \in SUBSET (1..Len(nodePool)) /\ findVal(node) \in SUBSET Nat
        BY <1>0 DEF findVal
  <2>2. Min(findVal(node)) \in 1..Len(nodePool)
        BY <1>2, <2>1, MinLemma
  <2>3. PICK k \in 1..Len(nodePool) : nodePool' = RemoveAt(nodePool, k)
        BY <1>2, <2>2 DEF RemoveInactiveNode
  <2>4. /\ RemoveAt(nodePool, k) \in Seq(Nodes)
        /\ Len(RemoveAt(nodePool, k)) = Len(nodePool) - 1
        BY <1>0, RemoveLemma
  <2>5. QED
        BY <1>0, <2>3, <2>4
<1>3. QED
      BY <1>1, <1>2

LEMMA Inserted ==
    ASSUME TypeOK, NEW n \in Nodes, insertFront(n)
    PROVE  nodePool' \in Seq(Nodes) /\ Len(nodePool') = Len(nodePool) + 1
  BY FrontLemma DEF insertFront, TypeOK

(* The invariant holds when main starts the Syncer. *)
LEMMA InitInv == Init => Inv
<1> SUFFICES ASSUME Init PROVE Inv
    OBVIOUS
<1>1. nodePool \in Seq(Nodes) /\ Len(nodePool) <= 1
  <2>1. CASE nodePool = << >>
        BY <2>1
  <2>2. CASE \E n \in Nodes : nodePool = <<n>>
        BY <2>2
  <2>3. QED
        BY <2>1, <2>2 DEF Init
<1>2. /\ Len(nodePool) <= MaxPool /\ 0 \in 0..MaxPool /\ 0 \in 0..MaxPeers
      BY <1>1, MaxPoolAssumption, MaxPeersAssumption, LenProperties
<1>3. TypeOK
      BY <1>1, <1>2 DEF Init, TypeOK
<1>4. Untaught /\ Ahead
      BY <1>1 DEF Init, Untaught, Ahead, Asking, Taught
<1>5. QED
      BY <1>3, <1>4 DEF Inv

(* What GiveUp leaves of the pool. *)
LEMMA GivenUp ==
    ASSUME TypeOK, GiveUp
    PROVE  /\ nodePool' \in Seq(Nodes) /\ Len(nodePool') \in Nat /\ Len(nodePool') <= Len(nodePool)
           /\ pc' = "pause" /\ UNCHANGED <<process, filePool, i, node, heard, message>>
  BY Removed DEF GiveUp, Goto, turn

(* Every step of the Syncer and of main keeps it. *)
LEMMA NextInv == Inv /\ [Next]_vars => Inv'
<1> SUFFICES ASSUME Inv, [Next]_vars PROVE Inv'
    OBVIOUS
<1>0. /\ TypeOK /\ Untaught /\ Ahead
      /\ nodePool \in Seq(Nodes) /\ Len(nodePool) \in Nat
      /\ MaxPool \in Nat /\ MaxPeers \in Nat
      BY LenProperties, MaxPoolAssumption, MaxPeersAssumption DEF Inv, TypeOK
<1>1. CASE process = "alive" /\ Stop
  <2>1. TypeOK'
        BY <1>0, <1>1 DEF TypeOK, Ahead, Asking, Taught, Stop, Others, Goto, Crash, pool, turn
  <2>2. Untaught'
        BY <1>0, <1>1 DEF TypeOK, Untaught, Stop, Others, Goto, Crash, pool, turn
  <2>3. Ahead'
        BY <1>0, <1>1 DEF TypeOK, Ahead, Asking, Taught, Stop, Others, Goto, Crash, pool, turn
  <2>4. QED
        BY <2>1, <2>2, <2>3 DEF Inv
<1>2. CASE process = "alive" /\ MainReturns
  <2>1. TypeOK'
        BY <1>0, <1>2 DEF TypeOK, Ahead, Asking, Taught, MainReturns, Others, Goto, Crash, pool, turn
  <2>2. Untaught'
        BY <1>0, <1>2 DEF TypeOK, Untaught, MainReturns, Others, Goto, Crash, pool, turn
  <2>3. Ahead'
        BY <1>0, <1>2 DEF TypeOK, Ahead, Asking, Taught, MainReturns, Others, Goto, Crash, pool, turn
  <2>4. QED
        BY <2>1, <2>2, <2>3 DEF Inv
<1>3. CASE process = "alive" /\ TestRunning
  <2>1. TypeOK'
        BY <1>0, <1>3 DEF TypeOK, Ahead, Asking, Taught, TestRunning, Others, Goto, Crash, pool, turn
  <2>2. Untaught'
        BY <1>0, <1>3 DEF TypeOK, Untaught, TestRunning, Others, Goto, Crash, pool, turn
  <2>3. Ahead'
        BY <1>0, <1>3 DEF TypeOK, Ahead, Asking, Taught, TestRunning, Others, Goto, Crash, pool, turn
  <2>4. QED
        BY <2>1, <2>2, <2>3 DEF Inv
<1>4. CASE process = "alive" /\ NextNode
  <2>0. i < Len(nodePool) => nodePool[i + 1] \in Nodes
        BY <1>0, ElementOfSeq DEF TypeOK
  <2>1. TypeOK'
    <3>1. CASE i < Len(nodePool)
      <4>1. /\ node' \in Nodes /\ heard' = FALSE /\ pc' = "connect"
            /\ UNCHANGED <<peers, process, running, nodePool, filePool, i, message>>
            BY <1>0, <1>4, <2>0, <3>1 DEF TypeOK, NextNode, Others, Goto, pool
      <4>2. QED
            BY <1>0, <4>1 DEF TypeOK
    <3>2. CASE ~(i < Len(nodePool))
      <4>1. /\ pc' = "loop"
            /\ UNCHANGED <<peers, process, running, nodePool, filePool, i, node, heard, message>>
            BY <1>0, <1>4, <3>2 DEF TypeOK, NextNode, Others, Goto, pool
      <4>2. QED
            BY <1>0, <4>1 DEF TypeOK
    <3>3. QED
          BY <3>1, <3>2
  <2>2. Untaught'
        BY <1>0, <1>4 DEF TypeOK, Untaught, NextNode, Others, Goto, Crash, pool, turn
  <2>3. Ahead'
        BY <1>0, <1>4 DEF TypeOK, Ahead, Asking, Taught, NextNode, Others, Goto, Crash, pool, turn
  <2>4. QED
        BY <2>1, <2>2, <2>3 DEF Inv
<1>5. CASE process = "alive" /\ Pause
  <2>1. TypeOK'
        BY <1>0, <1>5 DEF TypeOK, Ahead, Asking, Taught, Pause, Others, Goto, Crash, pool, turn
  <2>2. Untaught'
        BY <1>0, <1>5 DEF TypeOK, Untaught, Pause, Others, Goto, Crash, pool, turn
  <2>3. Ahead'
        BY <1>0, <1>5 DEF TypeOK, Ahead, Asking, Taught, Pause, Others, Goto, Crash, pool, turn
  <2>4. QED
        BY <2>1, <2>2, <2>3 DEF Inv
<1>6. CASE process = "alive" /\ InitTCPClient
  <2>1. CASE GiveUp
    <3>1. /\ nodePool' \in Seq(Nodes) /\ Len(nodePool') \in Nat /\ Len(nodePool') <= Len(nodePool)
          /\ pc' = "pause" /\ UNCHANGED <<process, filePool, i, node, heard, message>>
          /\ UNCHANGED <<peers, running>> /\ pc = "connect" /\ process = "alive"
          BY <1>0, <1>6, <2>1, GivenUp DEF InitTCPClient, Others
    <3>2. TypeOK'
          BY <1>0, <3>1 DEF TypeOK
    <3>3. Untaught'
          BY <1>0, <3>1 DEF Untaught, TypeOK
    <3>4. Ahead'
          BY <1>0, <3>1 DEF Ahead, Asking, Taught, TypeOK
    <3>5. QED
          BY <3>2, <3>3, <3>4 DEF Inv
  <2>2. CASE ~GiveUp
    <3>1. /\ pc = "connect" /\ pc' = "signal" /\ process = "alive"
          /\ UNCHANGED <<peers, running, process, nodePool, filePool, i, node, heard, message>>
          BY <1>6, <2>2 DEF InitTCPClient, Others, Goto, pool, turn
    <3>2. TypeOK'
          BY <1>0, <3>1 DEF TypeOK
    <3>3. Untaught' /\ Ahead'
          BY <1>0, <3>1 DEF Untaught, Ahead, Asking, Taught, TypeOK
    <3>4. QED
          BY <3>2, <3>3 DEF Inv
  <2>3. QED
        BY <2>1, <2>2
<1>7. CASE process = "alive" /\ RecvSignal
  <2>1. CASE GiveUp
    <3>1. /\ nodePool' \in Seq(Nodes) /\ Len(nodePool') \in Nat /\ Len(nodePool') <= Len(nodePool)
          /\ pc' = "pause" /\ UNCHANGED <<process, filePool, i, node, heard, message>>
          /\ UNCHANGED <<peers, running>> /\ pc = "signal" /\ process = "alive"
          BY <1>0, <1>7, <2>1, GivenUp DEF RecvSignal, Others
    <3>2. TypeOK'
          BY <1>0, <3>1 DEF TypeOK
    <3>3. Untaught'
          BY <1>0, <3>1 DEF Untaught, TypeOK
    <3>4. Ahead'
          BY <1>0, <3>1 DEF Ahead, Asking, Taught, TypeOK
    <3>5. QED
          BY <3>2, <3>3, <3>4 DEF Inv
  <2>2. CASE ~GiveUp
    <3>1. /\ pc = "signal" /\ pc' = "reply" /\ process = "alive"
          /\ UNCHANGED <<peers, running, process, nodePool, filePool, i, node, heard, message>>
          BY <1>7, <2>2 DEF RecvSignal, Others, Goto, pool, turn
    <3>2. TypeOK'
          BY <1>0, <3>1 DEF TypeOK
    <3>3. Untaught' /\ Ahead'
          BY <1>0, <3>1 DEF Untaught, Ahead, Asking, Taught, TypeOK
    <3>4. QED
          BY <3>2, <3>3 DEF Inv
  <2>3. QED
        BY <2>1, <2>2
<1>8. CASE process = "alive" /\ RecvReply
  <2>1. pc = "reply" /\ process = "alive" /\ UNCHANGED <<peers, running>>
        BY <1>8 DEF RecvReply, Others
  <2>2. CASE GiveUp
    <3>1. /\ nodePool' \in Seq(Nodes) /\ Len(nodePool') \in Nat /\ Len(nodePool') <= Len(nodePool)
          /\ pc' = "pause" /\ UNCHANGED <<process, filePool, i, node, heard, message>>
          BY <1>0, <2>2, GivenUp
    <3>2. TypeOK'
          BY <1>0, <2>1, <3>1 DEF TypeOK
    <3>3. Untaught' /\ Ahead'
          BY <1>0, <2>1, <3>1 DEF Untaught, Ahead, Asking, Taught, TypeOK
    <3>4. QED
          BY <3>2, <3>3 DEF Inv
  <2>3. CASE Crash /\ UNCHANGED <<pool, turn>>
    <3>1. /\ process' = "crashed"
          /\ UNCHANGED <<peers, running, pc, nodePool, filePool, i, node, heard, message>>
          BY <2>1, <2>3 DEF Crash, pool, turn
    <3>2. TypeOK'
          BY <1>0, <3>1 DEF TypeOK
    <3>3. Untaught' /\ Ahead'
          BY <1>0, <3>1 DEF Untaught, Ahead
    <3>4. QED
          BY <3>2, <3>3 DEF Inv
  <2>4. CASE /\ \E length \in Lengths, whole \in BOOLEAN :
                  Sends(length, whole) /\ ParseNode(length, whole)
             /\ UNCHANGED <<i, node, message>>
    <3>1. PICK length \in Lengths, whole \in BOOLEAN : Sends(length, whole) /\ ParseNode(length, whole)
          BY <2>4
    <3>2. CASE ~Fits(length)
      <4>1. /\ process' = "crashed"
            /\ UNCHANGED <<peers, running, pc, nodePool, filePool, i, node, heard, message>>
            BY <2>1, <2>4, <3>1, <3>2 DEF ParseNode, Crash, pool
      <4>2. TypeOK'
            BY <1>0, <4>1 DEF TypeOK
      <4>3. Untaught' /\ Ahead'
            BY <1>0, <4>1 DEF Untaught, Ahead
      <4>4. QED
            BY <4>2, <4>3 DEF Inv
    <3>3. CASE Fits(length)
      <4>1. PICK n \in Nodes : insertFront(n)
            BY <3>1, <3>3 DEF ParseNode
      <4>2. /\ nodePool' \in Seq(Nodes) /\ Len(nodePool') = Len(nodePool) + 1
            /\ Len(nodePool) < MaxPool /\ heard' = TRUE
            BY <1>0, <3>1, <3>3, <4>1, Inserted DEF ParseNode
      <4>3. UNCHANGED <<peers, running, i, node, message>>
            BY <2>1, <2>4
      <4>4. filePool' \in BOOLEAN
            BY <1>0, <3>1, <3>3 DEF ParseNode, TypeOK
      <4>5. CASE ~whole
        <5>1. process' = "crashed" /\ pc' = pc
              BY <3>1, <3>3, <4>5 DEF ParseNode, Crash
        <5>2. TypeOK'
              BY <1>0, <4>2, <4>3, <4>4, <5>1 DEF TypeOK
        <5>3. Untaught' /\ Ahead'
              BY <1>0, <4>3, <5>1 DEF Untaught, Ahead
        <5>4. QED
              BY <5>2, <5>3 DEF Inv
      <4>6. CASE whole
        <5>1. pc' = "count" /\ process' = process
              BY <3>1, <3>3, <4>6 DEF ParseNode, Goto
        <5>2. peers # "nodes"
              BY <3>1, <3>3, <4>6, LengthsAssumption DEF Sends, Fits
        <5>3. TypeOK'
              BY <1>0, <4>2, <4>3, <4>4, <5>1 DEF TypeOK
        <5>4. Untaught'
              BY <4>3, <5>2 DEF Untaught
        <5>5. Ahead'
              BY <1>0, <2>1, <4>2, <4>3, <5>1 DEF Ahead, Asking, Taught, TypeOK
        <5>6. QED
              BY <5>3, <5>4, <5>5 DEF Inv
      <4>7. QED
            BY <4>5, <4>6
    <3>4. QED
          BY <3>2, <3>3
  <2>5. QED
        BY <1>8, <2>2, <2>3, <2>4 DEF RecvReply
<1>9. CASE process = "alive" /\ RecvCount
  <2>1. TypeOK'
        BY <1>0, <1>9 DEF TypeOK, Ahead, Asking, Taught, RecvCount, Others, Goto, Crash, pool, turn
  <2>2. Untaught'
        BY <1>0, <1>9 DEF TypeOK, Untaught, RecvCount, Others, Goto, Crash, pool, turn
  <2>3. Ahead'
        BY <1>0, <1>9 DEF TypeOK, Ahead, Asking, Taught, RecvCount, Others, Goto, Crash, pool, turn
  <2>4. QED
        BY <2>1, <2>2, <2>3 DEF Inv
<1>10. CASE process = "alive" /\ RecvPeer
  <2>1. /\ pc = "peers" /\ process = "alive" /\ message > 0
        /\ UNCHANGED <<peers, running, filePool, i, node, heard>>
        BY <1>10 DEF RecvPeer, More, Others
  <2>2. CASE Crash /\ UNCHANGED <<nodePool, message>>
    <3>1. process' = "crashed" /\ UNCHANGED <<pc, nodePool, message>>
          BY <2>2 DEF Crash
    <3>2. TypeOK'
          BY <1>0, <2>1, <3>1 DEF TypeOK
    <3>3. Untaught' /\ Ahead'
          BY <1>0, <2>1, <3>1 DEF Untaught, Ahead
    <3>4. QED
          BY <3>2, <3>3 DEF Inv
  <2>3. CASE message' = message - 1 /\ UNCHANGED <<process, pc>>
    <3>1. /\ nodePool' \in Seq(Nodes) /\ Len(nodePool') \in Nat
          /\ Len(nodePool) <= Len(nodePool') /\ Len(nodePool') <= MaxPool
      <4>1. CASE UNCHANGED nodePool
            BY <1>0, <4>1 DEF TypeOK
      <4>2. CASE \E n \in Nodes : insertFront(n) /\ Len(nodePool) < MaxPool
            BY <1>0, <4>2, Inserted
      <4>3. QED
            BY <1>10, <2>1, <2>3, <4>1, <4>2 DEF RecvPeer, Crash
    <3>2. TypeOK'
          BY <1>0, <2>1, <2>3, <3>1 DEF TypeOK
    <3>3. Untaught'
          BY <1>0, <2>1, <2>3 DEF Untaught
    <3>4. Ahead'
          BY <1>0, <2>1, <2>3, <3>1 DEF Ahead, Asking, Taught, TypeOK
    <3>5. QED
          BY <3>2, <3>3, <3>4 DEF Inv
  <2>4. QED
        BY <1>10, <2>2, <2>3 DEF RecvPeer
<1>11. CASE process = "alive" /\ LastPeer
  <2>1. TypeOK'
        BY <1>0, <1>11 DEF TypeOK, Ahead, Asking, Taught, LastPeer, More, Others, Goto, Crash, pool, turn
  <2>2. Untaught'
        BY <1>0, <1>11 DEF TypeOK, Untaught, LastPeer, More, Others, Goto, Crash, pool, turn
  <2>3. Ahead'
        BY <1>0, <1>11 DEF TypeOK, Ahead, Asking, Taught, LastPeer, More, Others, Goto, Crash, pool, turn
  <2>4. QED
        BY <2>1, <2>2, <2>3 DEF Inv
<1>12. CASE UNCHANGED vars
  <2>1. TypeOK' /\ Untaught' /\ Ahead'
        BY <1>0, <1>12 DEF vars, pool, turn, TypeOK, Untaught, Ahead
  <2>2. QED
        BY <2>1 DEF Inv
<1>13. QED
      BY <1>1, <1>2, <1>3, <1>4, <1>5, <1>6, <1>7, <1>8, <1>9, <1>10, <1>11, <1>12 DEF Next, Syncer

LEMMA Invariance == Spec => []Inv
  BY InitInv, NextInv, PTL DEF Spec

(* The variables keep their types, and the index its bound, however the    *)
(* pool changes.                                                           *)
THEOREM Typing == Spec => []TypeOK
<1>1. Inv => TypeOK
      BY DEF Inv
<1>2. QED
      BY <1>1, Invariance, PTL

(* A node among its own kind learns of nobody and of no file, or it ends   *)
(* (SendSync and ParseNode).                                               *)
THEOREM AloneAmongEquals == Spec => []NothingLearned
<1>1. Inv => NothingLearned
      BY DEF Inv, Untaught, NothingLearned
<1>2. QED
      BY <1>1, Invariance, PTL

(* A walk over the pool ends only behind a node that has failed (Syncer's  *)
(* loop and insertVal at 0).                                               *)
THEOREM NoWalkEndsOnAnAnswer == Spec => EndsOnAFailure
<1>1. Inv /\ [Next]_vars => [pc = "walk" /\ pc' = "loop" => ~heard]_vars
  <2> SUFFICES ASSUME Inv, Next, pc = "walk", pc' = "loop" PROVE ~heard
      OBVIOUS
  <2>1. process = "alive" /\ pc' # pc
        BY DEF Next
  <2>2. NextNode
        BY <2>1 DEF Next, Stop, MainReturns, Syncer, TestRunning, Pause, InitTCPClient,
                    RecvSignal, RecvReply, RecvCount, RecvPeer, LastPeer, turn
  <2>3. i >= Len(nodePool)
        BY <2>2 DEF NextNode, Goto
  <2>4. i \in Nat /\ Len(nodePool) \in Nat
        BY LenProperties, MaxPoolAssumption DEF Inv, TypeOK
  <2>5. QED
        BY <2>1, <2>3, <2>4 DEF Inv, Ahead
<1>2. QED
      BY <1>1, Invariance, PTL DEF Spec, EndsOnAFailure

(* Whoever sends the numbers of his known nodes has answered. *)
HasAnswered == pc \in {"count", "peers"} => heard

LEMMA AnsweredStep == Inv /\ HasAnswered /\ [Next]_vars => HasAnswered'
<1> SUFFICES ASSUME Inv, HasAnswered, [Next]_vars PROVE HasAnswered'
    OBVIOUS
<1>1. CASE process = "alive" /\ (Stop \/ MainReturns)
      BY <1>1 DEF HasAnswered, Stop, MainReturns, turn
<1>2. CASE process = "alive" /\ (TestRunning \/ NextNode \/ Pause \/ InitTCPClient \/ RecvSignal)
      BY <1>2 DEF HasAnswered, TestRunning, NextNode, Pause, InitTCPClient, RecvSignal,
                  GiveUp, Goto, turn
<1>3. CASE process = "alive" /\ RecvReply
  <2>1. pc = "reply"
        BY <1>3 DEF RecvReply
  <2>2. pc' \in {"pause", "reply"} \/ heard' = TRUE
        BY <1>3, <2>1 DEF RecvReply, ParseNode, GiveUp, Goto, Crash
  <2>3. QED
        BY <2>2 DEF HasAnswered
<1>4. CASE process = "alive" /\ (RecvCount \/ RecvPeer \/ LastPeer)
      BY <1>4 DEF HasAnswered, RecvCount, RecvPeer, LastPeer, Goto, Crash, turn
<1>5. CASE UNCHANGED vars
      BY <1>5 DEF HasAnswered, vars, turn
<1>6. QED
      BY <1>1, <1>2, <1>3, <1>4, <1>5 DEF Next, Syncer

(* A node that knows nobody asks nobody, and it learns only by asking:     *)
(* once the last known node has failed, with whatever kind of nodes around *)
(* it, its pools stay as they are (RemoveInactiveNode; nothing but SendSync *)
(* inserts, not even a peer that syncs with it).                           *)
THEOREM EmptyForGood == Spec => [][nodePool = << >> => UNCHANGED pool]_vars
<1>1. Init => HasAnswered
      BY DEF Init, HasAnswered
<1>2. Spec => [](Inv /\ HasAnswered)
      BY <1>1, InitInv, NextInv, AnsweredStep, PTL DEF Spec
<1>3. ASSUME Inv, HasAnswered, Next, nodePool = << >>
      PROVE  UNCHANGED pool
  <2>1. i \in Nat /\ Len(nodePool) = 0 /\ process = "alive"
        BY <1>3, MaxPoolAssumption DEF Inv, TypeOK, Next
  <2>2. pc \notin Asking \cup {"count", "peers"}
        BY <1>3, <2>1 DEF Inv, Ahead, HasAnswered, Taught
  <2>3. QED
        BY <1>3, <2>2 DEF Asking, Next, Stop, MainReturns, Syncer, TestRunning, NextNode, Pause,
                          InitTCPClient, RecvSignal, RecvReply, RecvCount, RecvPeer, LastPeer
<1>4. QED
  <2>1. Inv /\ HasAnswered /\ [Next]_vars => [nodePool = << >> => UNCHANGED pool]_vars
        BY <1>3
  <2>2. QED
        BY <1>2, <2>1, PTL DEF Spec
=============================================================================
