------------------------ MODULE StudentServerProofs ------------------------
(***************************************************************************)
(* Proofs about the student server and its clients, for any clients, any   *)
(* lengths of the messages and any number of students.  They are counting: *)
(* every answer takes at most the bytes of one student, and every turn of  *)
(* a client at most those of one answer.  As long as all receives are      *)
(* whole the counts are equal; one that is not leaves somebody behind, and *)
(* nobody ever catches up.                                                 *)
(***************************************************************************)
EXTENDS StudentServer, TLAPS

Replying(c) == spc = "reply" /\ serving = c

(* The answers of the server, with the one it is at; and the turns of the  *)
(* client that are over.                                                   *)
Due(c) == IF Replying(c) THEN Len(answers[c]) + 1 ELSE Len(answers[c])
Turned(c) == IF cpc[c] = "recv" THEN typed[c] - 1 ELSE typed[c]

(* No answer is about a later student than its own number, and nobody has  *)
(* read more than the answers and the turns account for.                   *)
NotAhead(c) ==
    /\ ~closed[c] => Within(taken[c], Due(c))
    /\ \A i \in 1..Len(answers[c]) : answers[c][i] <= i
    /\ Replying(c) => received <= Len(answers[c]) + 1
    /\ Within(read[c], Turned(c))
    /\ response[c] <= Turned(c)
    /\ cpc[c] = "recv" => typed[c] > 0

(* As long as all receives are whole, all of it is exact. *)
Exact(c) ==
    /\ ~closed[c] => taken[c].whole = Due(c) /\ taken[c].part = 0
    /\ \A i \in 1..Len(answers[c]) : answers[c][i] = i
    /\ Replying(c) => received = Len(answers[c]) + 1
    /\ read[c].whole = Turned(c) /\ read[c].part = 0
    /\ response[c] = Turned(c)

(* Afterwards the client is behind the answers, or the answers that it has *)
(* not read are behind the students.                                       *)
ReaderBehind(c) == read[c].whole < Turned(c)
AnswersBehind(c) ==
    /\ ~closed[c] => taken[c].whole < Due(c)
    /\ \A i \in 1..Len(answers[c]) : i > read[c].whole => answers[c][i] < i
    /\ Replying(c) => received < Len(answers[c]) + 1

Counted(c) ==
    cpc[c] # "gone" =>
        /\ NotAhead(c)
        /\ ~missed[c] => Exact(c)
        /\ missed[c] => ReaderBehind(c) \/ AnswersBehind(c)

(* A connection is served once: those that wait for it have been opened    *)
(* and not closed, and are different.                                      *)
Served ==
    /\ spc \in {"recv", "reply"} => ~closed[serving] /\ cpc[serving] # "start"
    /\ \A c \in Clients : cpc[c] = "start" /\ spc # "exited" => ~closed[c]
    /\ \A k \in 1..Len(queue) :
         /\ cpc[queue[k]] # "start"
         /\ spc # "exited" => ~closed[queue[k]]
         /\ spc \in {"recv", "reply"} => queue[k] # serving
         /\ \A l \in 1..Len(queue) : queue[k] = queue[l] => k = l

Inv == TypeOK /\ Served /\ \A c \in Clients : Counted(c)

LEMMA Sizes == Size \in Nat \ {0} /\ AnswerLen \in Nat \ {0} /\ NameLen \in Nat
  BY LengthsAssumption DEF Size

(* What a receive does to a place in the stream. *)
LEMMA ForwardMoves ==
    ASSUME NEW len \in Nat \ {0}, NEW at \in Places(len), NEW n \in 1..len
    PROVE  /\ Forward(at, n, len) \in Places(len)
           /\ Forward(at, n, len).whole \in {at.whole, at.whole + 1}
           /\ at.part = 0 /\ n < len => Forward(at, n, len).whole = at.whole
           /\ at.part = 0 /\ n = len =>
                Forward(at, n, len).whole = at.whole + 1 /\ Forward(at, n, len).part = 0
           /\ Forward(at, n, len) # at
           /\ \A k \in Nat : Within(at, k) => Within(Forward(at, n, len), k + 1)
           /\ \A k \in Nat : Within(Forward(at, n, len), k) => at.whole < k
<1>1. at.whole \in Nat /\ at.part \in Nat /\ at.part < len
      BY DEF Places
<1>2. CASE at.part + n < len
  <2>1. /\ Forward(at, n, len) = [whole |-> at.whole, part |-> at.part + n]
        /\ at.part + n \in 0..(len - 1) /\ at.part + n > at.part
        BY <1>1, <1>2 DEF Forward
  <2>2. QED
        BY <1>1, <2>1 DEF Places, Within
<1>3. CASE ~(at.part + n < len)
  <2>1. /\ Forward(at, n, len) = [whole |-> at.whole + 1, part |-> at.part + n - len]
        /\ at.part + n - len \in 0..(len - 1) /\ at.part + n - len <= at.part
        BY <1>1, <1>3 DEF Forward
  <2>2. QED
        BY <1>1, <1>3, <2>1 DEF Places, Within
<1>4. QED
      BY <1>2, <1>3

(* The invariant holds before anything has happened. *)
LEMMA InitInv == Init => Inv
<1> SUFFICES ASSUME Init PROVE Inv
    OBVIOUS
<1>1. TypeOK
      BY Sizes, BackLogAssumption DEF Init, TypeOK, All, Start, Places, Within, WRONG
<1>2. Served
      BY DEF Init, Served, All
<1>3. ASSUME NEW c \in Clients PROVE Counted(c)
      BY DEF Init, All, Start, Counted, NotAhead, Exact, Replying, Due, Turned, Within, WRONG
<1>4. QED
      BY <1>1, <1>2, <1>3 DEF Inv

(* A client is counted as before if nothing of it changes, except that its *)
(* connection may be closed.                                               *)
LEMMA Untouched ==
    ASSUME TypeOK, NEW c \in Clients, Counted(c),
           UNCHANGED <<typed[c], response[c], taken[c], answers[c], read[c], missed[c]>>,
           cpc'[c] = cpc[c] \/ cpc'[c] = "gone"
                \/ (cpc[c] = "start" /\ cpc'[c] = "prompt"),
           ~closed'[c] => ~closed[c],
           Replying(c)' <=> Replying(c), Replying(c) => received' = received
    PROVE  Counted(c)'
<1>1. CASE cpc'[c] = "gone"
      BY <1>1 DEF Counted
<1>2. CASE cpc'[c] # "gone"
  <2>1. Due(c)' = Due(c) /\ Turned(c)' = Turned(c) /\ cpc[c] # "gone"
        BY <1>2 DEF Due, Turned
  <2>2. NotAhead(c) => NotAhead(c)'
        BY <2>1 DEF NotAhead, Within
  <2>3. Exact(c) => Exact(c)'
        BY <2>1 DEF Exact
  <2>4. /\ ReaderBehind(c) => ReaderBehind(c)'
        /\ AnswersBehind(c) => AnswersBehind(c)'
        BY <2>1 DEF ReaderBehind, AnswersBehind
  <2>5. QED
        BY <2>1, <2>2, <2>3, <2>4 DEF Counted
<1>3. QED
      BY <1>1, <1>2

(* What a step of the server's receive does, in terms of the client it     *)
(* serves.                                                                 *)
LEMMA ReceiveFacts ==
    ASSUME TypeOK, RecvStudent
    PROVE  \E n \in 1..Size :
             /\ serving \in Clients /\ spc = "recv"
             /\ taken' = [taken EXCEPT ![serving] = Forward(taken[serving], n, Size)]
             /\ taken' \in [Clients -> Places(Size)]
             /\ missed' = [missed EXCEPT ![serving] = @ \/ n < Size]
             /\ \A c \in Clients : Within(taken'[c], typed[c])
             /\ Close \/ (n > NameLen /\ Answer(About(n)))
<1>1. serving \in Clients /\ spc = "recv"
      BY DEF RecvStudent, TypeOK
<1>2. PICK n \in 1..Size :
         /\ Within(Forward(taken[serving], n, Size), typed[serving])
         /\ taken' = [taken EXCEPT ![serving] = Forward(@, n, Size)]
         /\ missed' = [missed EXCEPT ![serving] = @ \/ n < Size]
         /\ Close \/ (n > NameLen /\ Answer(About(n)))
      BY DEF RecvStudent
<1>3. taken[serving] \in Places(Size)
      BY <1>1 DEF TypeOK
<1>4. Forward(taken[serving], n, Size) \in Places(Size)
      BY <1>3, Sizes, ForwardMoves
<1>5. taken' \in [Clients -> Places(Size)]
      BY <1>2, <1>4 DEF TypeOK
<1>6. \A c \in Clients : Within(taken'[c], typed[c])
      BY <1>1, <1>2 DEF TypeOK
<1>7. QED
      BY <1>1, <1>2, <1>5, <1>6, Zenon

(* Types, and that nobody reads more than was sent. *)
LEMMA TypeStep == TypeOK /\ [Next]_vars => TypeOK'
<1> SUFFICES ASSUME TypeOK, [Next]_vars PROVE TypeOK'
    OBVIOUS
<1> USE Sizes
<1>1. CASE Accept
  <2>1. queue \in Seq(Clients) /\ queue # << >>
        BY <1>1 DEF Accept, TypeOK
  <2>2. Head(queue) \in Clients /\ Tail(queue) \in Seq(Clients)
        BY <2>1
  <2>3. QED
        BY <1>1, <2>2 DEF Accept, ServerFrame, client, TypeOK
<1>2. CASE AcceptFails
      BY <1>2 DEF AcceptFails, Exit, All, ServerFrame, client, TypeOK
<1>3. CASE RecvStudent
  <2>1. PICK n \in 1..Size :
         /\ serving \in Clients /\ spc = "recv"
         /\ taken' = [taken EXCEPT ![serving] = Forward(taken[serving], n, Size)]
         /\ taken' \in [Clients -> Places(Size)]
         /\ missed' = [missed EXCEPT ![serving] = @ \/ n < Size]
         /\ \A c \in Clients : Within(taken'[c], typed[c])
         /\ Close \/ (n > NameLen /\ Answer(About(n)))
        BY <1>3, ReceiveFacts
  <2>2. UNCHANGED <<cpc, typed, response, read, queue, answers>>
        BY <1>3 DEF RecvStudent, ServerFrame, client
  <2>3. missed' \in [Clients -> BOOLEAN]
        BY <2>1, Zenon DEF TypeOK
  <2>4. CASE Close
    <3>1. broken' = [broken EXCEPT ![serving] = @ \/ taken'[serving].whole < typed[serving]]
          BY <2>4 DEF Close
    <3>2. broken' \in [Clients -> BOOLEAN]
          BY <2>1, <3>1, Zenon DEF TypeOK
    <3>3. QED
          BY <2>1, <2>2, <2>3, <2>4, <3>2 DEF Close, BackToSelect, TypeOK
  <2>5. CASE Answer(About(n))
    <3>1. taken[serving].whole \in Nat
          BY <2>1 DEF TypeOK, Places
    <3>2. About(n) \in Nat
          BY <3>1 DEF About, WRONG
    <3>3. QED
          BY <2>1, <2>2, <2>3, <2>5, <3>2 DEF Answer, TypeOK
  <2>6. QED
        BY <2>1, <2>4, <2>5
<1>4. CASE RecvNothing
  <2>1. UNCHANGED <<cpc, typed, response, read, queue, answers, taken, missed>> /\ Close /\ serving \in Clients
        BY <1>4 DEF RecvNothing, ServerFrame, client, TypeOK
  <2>2. broken' = [broken EXCEPT ![serving] = @ \/ taken'[serving].whole < typed[serving]]
        BY <2>1 DEF Close
  <2>3. broken' \in [Clients -> BOOLEAN]
        BY <2>1, <2>2, Zenon DEF TypeOK
  <2>4. QED
        BY <2>1, <2>3 DEF Close, BackToSelect, TypeOK
<1>5. CASE Send
  <2>1. serving \in Clients /\ UNCHANGED <<cpc, typed, response, read, serving, received, queue, taken, broken, missed>>
        BY <1>5 DEF Send, ServerFrame, client, TypeOK
  <2>2. CASE answers' = [answers EXCEPT ![serving] = Append(@, received)] /\ spc' = "recv" /\ UNCHANGED closed
    <3>1. answers' \in [Clients -> Seq(Nat)]
          BY <2>1, <2>2 DEF TypeOK
    <3>2. \A c \in Clients : Len(answers'[c]) \in {Len(answers[c]), Len(answers[c]) + 1} /\ Len(answers[c]) \in Nat
          BY <2>1, <2>2 DEF TypeOK
    <3>3. \A c \in Clients : read[c].whole \in Nat
          BY DEF TypeOK, Places
    <3>4. \A c \in Clients : Within(read[c], Len(answers'[c]))
      <4>1. SUFFICES ASSUME NEW c \in Clients PROVE Within(read[c], Len(answers'[c]))
            OBVIOUS
      <4>2. Within(read[c], Len(answers[c]))
            BY DEF TypeOK
      <4>3. QED
            BY <3>2, <3>3, <4>2 DEF Within
    <3>5. QED
          BY <2>1, <2>2, <3>1, <3>4 DEF TypeOK
  <2>3. CASE UNCHANGED answers /\ ((spc' = "recv" /\ UNCHANGED closed) \/ Exit)
        BY <2>1, <2>3 DEF TypeOK, Exit, All
  <2>4. QED
        BY <1>5, <2>2, <2>3 DEF Send
<1>6. ASSUME NEW c \in Clients, Connect(c) PROVE TypeOK'
  <2>1. queue' \in Seq(Clients)
    <3>1. queue \in Seq(Clients)
          BY DEF TypeOK
    <3>2. Append(queue, c) \in Seq(Clients)
          BY <3>1
    <3>3. queue' = queue \/ queue' = Append(queue, c)
          BY <1>6 DEF Connect
    <3>4. QED
          BY <3>1, <3>2, <3>3
  <2>2. broken' \in [Clients -> BOOLEAN]
        BY <1>6 DEF Connect, TypeOK
  <2>3. QED
        BY <1>6, <2>1, <2>2 DEF Connect, GoOn, ClientFrame, TypeOK
<1>7. ASSUME NEW c \in Clients, Enter(c) PROVE TypeOK'
  <2>0. /\ typed' = [typed EXCEPT ![c] = @ + 1] /\ (GoOn(c, "recv") \/ GoOn(c, "gone"))
        /\ broken' \in {broken, [broken EXCEPT ![c] = TRUE]}
        /\ UNCHANGED <<spc, serving, received, closed, taken, answers, queue, response, read, missed>>
        BY <1>7 DEF Enter, ClientFrame
  <2>5. cpc' \in [Clients -> {"start", "prompt", "recv", "gone"}]
        BY <2>0 DEF GoOn, TypeOK
  <2>6. broken' \in [Clients -> BOOLEAN]
        BY <2>0 DEF TypeOK
  <2>1. /\ typed' \in [Clients -> Nat]
        /\ \A d \in Clients : typed'[d] \in {typed[d], typed[d] + 1} /\ typed[d] \in Nat
        BY <2>0 DEF TypeOK
  <2>2. \A d \in Clients : taken[d].whole \in Nat
        BY DEF TypeOK, Places
  <2>3. \A d \in Clients : Within(taken[d], typed'[d])
    <3>1. SUFFICES ASSUME NEW d \in Clients PROVE Within(taken[d], typed'[d])
          OBVIOUS
    <3>2. Within(taken[d], typed[d])
          BY DEF TypeOK
    <3>3. QED
          BY <2>1, <2>2, <3>2 DEF Within
  <2>4. QED
        BY <2>0, <2>5, <2>6, <2>1, <2>3 DEF TypeOK
<1>8. ASSUME NEW c \in Clients, RecvResponse(c) PROVE TypeOK'
  <2>1. PICK n \in 1..AnswerLen :
         /\ Within(Forward(read[c], n, AnswerLen), Len(answers[c]))
         /\ read' = [read EXCEPT ![c] = Forward(@, n, AnswerLen)]
         /\ missed' = [missed EXCEPT ![c] = @ \/ n < AnswerLen]
         /\ \/ /\ read[c].part = 0
               /\ response' = [response EXCEPT ![c] = answers[c][read[c].whole + 1]]
            \/ /\ read[c].part # 0 \/ n < AnswerLen
               /\ response' = [response EXCEPT ![c] = WRONG]
        BY <1>8 DEF RecvResponse
  <2>2. read[c] \in Places(AnswerLen) /\ read[c].whole \in Nat /\ Len(answers[c]) \in Nat /\ answers[c] \in Seq(Nat)
        BY <1>8 DEF TypeOK, Places
  <2>3. Forward(read[c], n, AnswerLen) \in Places(AnswerLen) /\ read[c].whole < Len(answers[c])
        BY <2>1, <2>2, ForwardMoves
  <2>4. response' \in [Clients -> Nat]
    <3>1. read[c].whole + 1 \in 1..Len(answers[c])
          BY <2>2, <2>3
    <3>2. answers[c][read[c].whole + 1] \in Nat
          BY <2>2, <3>1
    <3>3. ASSUME NEW v \in Nat, response' = [response EXCEPT ![c] = v] PROVE response' \in [Clients -> Nat]
          BY <3>3 DEF TypeOK
    <3>4. WRONG \in Nat
          BY DEF WRONG
    <3>5. QED
          BY <2>1, <3>2, <3>3, <3>4
  <2>5. missed' \in [Clients -> BOOLEAN]
        BY <2>1, Zenon DEF TypeOK
  <2>6. read' \in [Clients -> Places(AnswerLen)] /\ \A d \in Clients : Within(read'[d], Len(answers[d]))
        BY <2>1, <2>3 DEF TypeOK
  <2>7. QED
        BY <1>8, <2>4, <2>5, <2>6 DEF RecvResponse, GoOn, ClientFrame, TypeOK
<1>9. ASSUME NEW c \in Clients, RecvZero(c) \/ Leave(c) PROVE TypeOK'
      BY <1>9 DEF RecvZero, Leave, GoOn, ClientFrame, TypeOK
<1>10. CASE UNCHANGED vars
      BY <1>10 DEF vars, server, client, stream, TypeOK
<1>11. QED
      BY <1>1, <1>2, <1>3, <1>4, <1>5, <1>6, <1>7, <1>8, <1>9, <1>10 DEF Next, Server, Client

(* No connection is served twice. *)
LEMMA ServedStep == TypeOK /\ Served /\ [Next]_vars => Served'
<1> SUFFICES ASSUME TypeOK, Served, [Next]_vars PROVE Served'
    OBVIOUS
<1>1. CASE Accept
  <2>1. /\ queue \in Seq(Clients) /\ queue # << >> /\ serving' = Head(queue) /\ queue' = Tail(queue)
        /\ spc' = "recv" /\ spc = "select" /\ UNCHANGED <<cpc, closed>>
        BY <1>1 DEF Accept, ServerFrame, client, TypeOK
  <2>2. /\ Len(queue) \in Nat /\ 1 \in 1..Len(queue) /\ Head(queue) = queue[1] /\ Len(Tail(queue)) = Len(queue) - 1
        /\ \A k \in 1..Len(Tail(queue)) : k + 1 \in 1..Len(queue) /\ Tail(queue)[k] = queue[k + 1]
        BY <2>1
  <2>3. ~closed'[serving'] /\ cpc'[serving'] # "start"
        BY <2>1, <2>2 DEF Served
  <2>4. ASSUME NEW k \in 1..Len(queue') PROVE
           /\ cpc'[queue'[k]] # "start" /\ ~closed'[queue'[k]] /\ queue'[k] # serving'
           /\ \A l \in 1..Len(queue') : queue'[k] = queue'[l] => k = l
    <3>1. k + 1 \in 1..Len(queue) /\ queue'[k] = queue[k + 1] /\ k + 1 # 1
          BY <2>1, <2>2
    <3>2. cpc[queue[k + 1]] # "start" /\ ~closed[queue[k + 1]] /\ queue[k + 1] # queue[1]
          BY <2>1, <2>2, <3>1 DEF Served
    <3>3. ASSUME NEW l \in 1..Len(queue'), queue'[k] = queue'[l] PROVE k = l
      <4>1. l + 1 \in 1..Len(queue) /\ queue'[l] = queue[l + 1]
            BY <2>1, <2>2
      <4>2. k + 1 = l + 1
            BY <3>1, <3>3, <4>1 DEF Served
      <4>3. QED
            BY <4>2
    <3>4. QED
          BY <2>1, <2>2, <3>1, <3>2, <3>3
  <2>5. QED
        BY <2>1, <2>3, <2>4 DEF Served
<1>2. CASE AcceptFails \/ RecvStudent \/ RecvNothing \/ Send
  <2>1. /\ UNCHANGED <<queue, cpc>>
        /\ \/ spc' = "exited"
           \/ UNCHANGED closed /\ spc \in {"recv", "reply"} /\ spc' \in {"recv", "reply"} /\ serving' = serving
           \/ spc' = "select" /\ spc \in {"recv", "reply"} /\ closed' = [closed EXCEPT ![serving] = TRUE]
        BY <1>2 DEF AcceptFails, RecvStudent, RecvNothing, Send, Close, Answer, BackToSelect, Exit, ServerFrame, client
  <2>2. CASE spc' = "exited"
        BY <2>1, <2>2 DEF Served
  <2>3. CASE UNCHANGED closed /\ spc \in {"recv", "reply"} /\ spc' \in {"recv", "reply"} /\ serving' = serving
        BY <2>1, <2>3 DEF Served
  <2>4. CASE spc' = "select" /\ spc \in {"recv", "reply"} /\ closed' = [closed EXCEPT ![serving] = TRUE]
    <3>1. serving \in Clients /\ cpc[serving] # "start"
          BY <2>4 DEF Served, TypeOK
    <3>2. \A c \in Clients : c # serving => closed'[c] = closed[c]
          BY <2>4 DEF TypeOK
    <3>3. \A k \in 1..Len(queue) : queue[k] \in Clients /\ queue[k] # serving
          BY <2>4 DEF Served, TypeOK
    <3>4. spc # "exited" /\ spc' \notin {"recv", "reply"}
          BY <2>4
    <3>5. \A c \in Clients : cpc'[c] = "start" => ~closed'[c]
          BY <2>1, <3>1, <3>2, <3>4 DEF Served
    <3>6. QED
          BY <2>1, <3>2, <3>3, <3>4, <3>5 DEF Served
  <2>5. QED
        BY <2>1, <2>2, <2>3, <2>4
<1>3. ASSUME NEW c \in Clients, Connect(c) PROVE Served'
  <2>1. cpc[c] = "start" /\ cpc' = [cpc EXCEPT ![c] = "prompt"] /\ UNCHANGED <<spc, serving, closed>>
        BY <1>3 DEF Connect, GoOn, ClientFrame
  <2>2. CASE spc = "exited"
    <3>1. UNCHANGED queue
          BY <1>3, <2>2 DEF Connect
    <3>2. QED
          BY <2>1, <2>2, <3>1 DEF Served, TypeOK
  <2>3. CASE spc # "exited"
    <3>1. queue' = Append(queue, c) /\ queue \in Seq(Clients)
          BY <1>3, <2>3 DEF Connect, TypeOK
    <3>2. /\ Len(queue) \in Nat /\ Len(queue') = Len(queue) + 1 /\ queue'[Len(queue) + 1] = c
          /\ \A k \in 1..Len(queue) : queue'[k] = queue[k] /\ queue[k] \in Clients
          BY <3>1
    <3>3. ~closed[c]
          BY <2>1, <2>3 DEF Served, TypeOK
    <3>4. QED
      <4>1. spc \in {"recv", "reply"} => serving \in Clients /\ serving # c
            BY <2>1 DEF Served, TypeOK
      <4>2. \A k \in 1..Len(queue) : queue[k] # c
            BY <2>1, <3>2 DEF Served
      <4>3. ASSUME NEW k \in 1..Len(queue') PROVE
              /\ cpc'[queue'[k]] # "start" /\ ~closed[queue'[k]]
              /\ spc \in {"recv", "reply"} => queue'[k] # serving
        <5>1. k \in 1..Len(queue) \/ k = Len(queue) + 1
              BY <3>2
        <5>2. CASE k \in 1..Len(queue)
              BY <2>1, <2>3, <3>2, <4>2, <5>2 DEF Served, TypeOK
        <5>3. CASE k = Len(queue) + 1
              BY <2>1, <3>2, <3>3, <4>1, <5>3 DEF TypeOK
        <5>4. QED
              BY <5>1, <5>2, <5>3
      <4>4. ASSUME NEW k \in 1..Len(queue'), NEW l \in 1..Len(queue'), queue'[k] = queue'[l] PROVE k = l
        <5>1. /\ k \in 1..Len(queue) \/ k = Len(queue) + 1
              /\ l \in 1..Len(queue) \/ l = Len(queue) + 1
              BY <3>2
        <5>2. CASE k \in 1..Len(queue) /\ l \in 1..Len(queue)
              BY <3>2, <4>4, <5>2 DEF Served
        <5>3. CASE ~(k \in 1..Len(queue) /\ l \in 1..Len(queue))
              BY <3>2, <4>2, <4>4, <5>1, <5>3
        <5>4. QED
              BY <5>2, <5>3
      <4>5. spc \in {"recv", "reply"} => ~closed[serving] /\ cpc'[serving] # "start"
            BY <2>1, <4>1 DEF Served, TypeOK
      <4>6. \A d \in Clients : cpc'[d] = "start" => ~closed[d]
            BY <2>1, <2>3 DEF Served, TypeOK
      <4>7. QED
            BY <2>1, <4>3, <4>4, <4>5, <4>6 DEF Served
  <2>4. QED
        BY <2>2, <2>3
<1>4. ASSUME NEW c \in Clients, Enter(c) \/ RecvResponse(c) \/ RecvZero(c) \/ Leave(c) PROVE Served'
  <2>1. UNCHANGED <<spc, serving, closed, queue>> /\ \A d \in Clients : cpc[d] # "start" => cpc'[d] # "start"
        BY <1>4 DEF Enter, RecvResponse, RecvZero, Leave, GoOn, ClientFrame, TypeOK
  <2>2. \A k \in 1..Len(queue) : queue[k] \in Clients
        BY DEF TypeOK
  <2>3. spc \in {"recv", "reply"} => serving \in Clients
        BY DEF TypeOK
  <2>4. QED
        BY <2>1, <2>2, <2>3 DEF Served
<1>5. CASE UNCHANGED vars
      BY <1>5 DEF vars, server, client, Served
<1>6. QED
      BY <1>1, <1>2, <1>3, <1>4, <1>5 DEF Next, Server, Client

-----------------------------------------------------------------------------
(* The counting. *)

(* Receiving, by the client that is served: to close leaves the counts of  *)
(* answers alone, and an answer is never about a later student than its    *)
(* own number.                                                             *)
LEMMA ReceiveCounts ==
    ASSUME Inv, RecvStudent, NEW d \in Clients
    PROVE  Counted(d)'
<1>0. TypeOK /\ Counted(d)
      BY DEF Inv
<1>1. PICK n \in 1..Size :
         /\ serving \in Clients /\ spc = "recv"
         /\ taken' = [taken EXCEPT ![serving] = Forward(taken[serving], n, Size)]
         /\ taken' \in [Clients -> Places(Size)]
         /\ missed' = [missed EXCEPT ![serving] = @ \/ n < Size]
         /\ \A c \in Clients : Within(taken'[c], typed[c])
         /\ Close \/ (n > NameLen /\ Answer(About(n)))
      BY <1>0, ReceiveFacts
<1>2. UNCHANGED <<cpc, typed, response, read, queue, answers>> /\ ~closed[serving]
      BY <1>1 DEF RecvStudent, ServerFrame, client, Inv, Served
<1>3. CASE d # serving
  <2>1. taken'[d] = taken[d]
        BY <1>0, <1>1, <1>3 DEF TypeOK
  <2>2. missed'[d] = missed[d]
        BY <1>0, <1>1, <1>3, Zenon DEF TypeOK
  <2>3. closed'[d] = closed[d] /\ ~Replying(d)' /\ ~Replying(d)
        BY <1>0, <1>1, <1>3 DEF Close, BackToSelect, Answer, Replying, TypeOK
  <2>4. QED
        BY <1>0, <1>2, <2>1, <2>2, <2>3, Untouched
<1>4. CASE d = serving
  <2>1. SUFFICES ASSUME cpc[d] # "gone"
                 PROVE  /\ NotAhead(d)'
                        /\ ~missed'[d] => Exact(d)'
                        /\ missed'[d] => (ReaderBehind(d)' \/ AnswersBehind(d)')
        BY <1>2 DEF Counted
  <2>2. /\ NotAhead(d) /\ (~missed[d] => Exact(d)) /\ (missed[d] => ReaderBehind(d) \/ AnswersBehind(d))
        BY <1>0, <2>1 DEF Counted
  <2>3. missed'[d] <=> missed[d] \/ n < Size
        BY <1>0, <1>1, <1>4, Zenon DEF TypeOK
  <2>4. /\ Turned(d)' = Turned(d) /\ ~Replying(d) /\ ~closed[d] /\ Due(d) = Len(answers[d])
        /\ UNCHANGED <<cpc[d], typed[d], response[d], read[d], answers[d]>>
        BY <1>1, <1>2, <1>4 DEF Turned, Replying, Due
  <2>5. /\ taken[d] \in Places(Size) /\ taken[d].whole \in Nat /\ Len(answers[d]) \in Nat /\ typed[d] \in Nat
        /\ read[d].whole \in Nat /\ taken'[d] \in Places(Size) /\ taken'[d].whole \in Nat
        BY <1>0, <1>1 DEF TypeOK, Places
  <2>6. taken'[d] = Forward(taken[d], n, Size)
        BY <1>0, <1>1, <1>4 DEF TypeOK
  <2>7. /\ taken'[d].whole \in {taken[d].whole, taken[d].whole + 1}
        /\ taken[d].part = 0 /\ n < Size => taken'[d].whole = taken[d].whole
        /\ taken[d].part = 0 /\ n = Size => taken'[d].whole = taken[d].whole + 1 /\ taken'[d].part = 0
        /\ Within(taken[d], Len(answers[d])) => Within(taken'[d], Len(answers[d]) + 1)
        /\ Within(taken'[d], typed[d]) => taken[d].whole < typed[d]
    <3>1. /\ Forward(taken[d], n, Size).whole \in {taken[d].whole, taken[d].whole + 1}
          /\ taken[d].part = 0 /\ n < Size => Forward(taken[d], n, Size).whole = taken[d].whole
          /\ taken[d].part = 0 /\ n = Size =>
               Forward(taken[d], n, Size).whole = taken[d].whole + 1 /\ Forward(taken[d], n, Size).part = 0
          /\ \A k \in Nat : Within(taken[d], k) => Within(Forward(taken[d], n, Size), k + 1)
          /\ \A k \in Nat : Within(Forward(taken[d], n, Size), k) => taken[d].whole < k
          BY <2>5, Sizes, ForwardMoves
    <3>2. QED
          BY <2>5, <2>6, <3>1
  <2>8. taken[d].whole < typed[d]
        BY <1>1, <2>7
  <2>9. Within(taken[d], Len(answers[d])) /\ taken[d].whole <= Len(answers[d])
        BY <2>2, <2>4, <2>5 DEF NotAhead, Within
  <2>10. ~missed[d] => \A i \in 1..Len(answers[d]) : ~(i > read[d].whole)
    <3>1. SUFFICES ASSUME ~missed[d] PROVE Len(answers[d]) <= read[d].whole
          BY <2>5
    <3>2. taken[d].whole = Len(answers[d]) /\ read[d].whole = Turned(d)
          BY <2>2, <2>4, <3>1 DEF Exact
    <3>3. typed[d] - 1 <= Turned(d)
          BY <2>5 DEF Turned
    <3>4. QED
          BY <2>5, <2>8, <3>2, <3>3
  <2>11. ReaderBehind(d) => ReaderBehind(d)'
        BY <2>4 DEF ReaderBehind
  <2>12. CASE Close
    <3>1. closed'[d] /\ ~Replying(d)'
          BY <1>0, <1>4, <2>12 DEF Close, BackToSelect, Replying, TypeOK
    <3>2. NotAhead(d)'
          BY <2>2, <2>4, <3>1 DEF NotAhead
    <3>3. Exact(d) => Exact(d)'
          BY <2>4, <3>1 DEF Exact
    <3>4. AnswersBehind(d) \/ ~missed[d] => AnswersBehind(d)'
          BY <2>4, <2>10, <3>1 DEF AnswersBehind
    <3>5. QED
          BY <2>2, <2>3, <2>11, <3>2, <3>3, <3>4
  <2>13. CASE n > NameLen /\ Answer(About(n))
    <3>1. Replying(d)' /\ received' = About(n) /\ closed'[d] = closed[d] /\ Due(d)' = Len(answers[d]) + 1
          BY <1>2, <1>4, <2>13 DEF Answer, Replying, Due
    <3>3. /\ n = Size /\ taken[d].part = 0 => received' = taken[d].whole + 1
          /\ ~(n = Size /\ taken[d].part = 0) => received' = 0
          BY <1>4, <3>1 DEF About, WRONG
    <3>4. NotAhead(d)'
          BY <2>2, <2>4, <2>5, <2>7, <2>9, <3>1, <3>3 DEF NotAhead
    <3>5. ~missed'[d] => Exact(d)'
      <4>0. n < Size \/ n = Size
            BY <1>1, Sizes
      <4>1. SUFFICES ASSUME ~missed[d], n = Size PROVE Exact(d)'
            BY <2>3, <4>0
      <4>2. taken[d].whole = Len(answers[d]) /\ taken[d].part = 0
            BY <2>2, <2>4, <4>1 DEF Exact
      <4>3. taken'[d].whole = Len(answers[d]) + 1 /\ taken'[d].part = 0 /\ received' = Len(answers[d]) + 1
            BY <2>7, <3>3, <4>1, <4>2
      <4>4. QED
            BY <2>2, <2>4, <3>1, <4>1, <4>3 DEF Exact
    <3>6. AnswersBehind(d) => AnswersBehind(d)'
      <4>1. SUFFICES ASSUME AnswersBehind(d) PROVE AnswersBehind(d)'
            OBVIOUS
      <4>2. taken[d].whole < Len(answers[d])
            BY <2>4, <4>1 DEF AnswersBehind
      <4>3. taken'[d].whole < Len(answers[d]) + 1 /\ received' < Len(answers[d]) + 1
            BY <2>5, <2>7, <3>3, <4>2
      <4>4. QED
            BY <2>4, <3>1, <4>1, <4>3 DEF AnswersBehind
    <3>7. ~missed[d] /\ n < Size => AnswersBehind(d)'
      <4>1. SUFFICES ASSUME ~missed[d], n < Size PROVE AnswersBehind(d)'
            OBVIOUS
      <4>2. taken[d].whole = Len(answers[d]) /\ taken[d].part = 0
            BY <2>2, <2>4, <4>1 DEF Exact
      <4>3. taken'[d].whole < Len(answers[d]) + 1 /\ received' < Len(answers[d]) + 1
            BY <2>5, <2>7, <3>3, <4>1, <4>2
      <4>4. QED
            BY <2>4, <2>10, <3>1, <4>1, <4>3 DEF AnswersBehind
    <3>8. QED
          BY <2>2, <2>3, <2>11, <3>4, <3>5, <3>6, <3>7
  <2>14. QED
        BY <1>1, <2>12, <2>13
<1>5. QED
      BY <1>3, <1>4

(* Answering: the answer that was due is sent. *)
LEMMA SendCounts ==
    ASSUME Inv, Send, NEW d \in Clients
    PROVE  Counted(d)'
<1>0. TypeOK /\ Counted(d)
      BY DEF Inv
<1>1. /\ serving \in Clients /\ spc = "reply" /\ spc' # "reply"
      /\ UNCHANGED <<cpc, typed, response, read, serving, received, queue, taken, broken, missed>>
      BY <1>0 DEF Send, Exit, ServerFrame, client, TypeOK
<1>2. CASE d # serving
  <2>1. answers'[d] = answers[d]
        BY <1>0, <1>1, <1>2 DEF Send, TypeOK
  <2>2. ~closed'[d] => ~closed[d]
        BY DEF Send, Exit, All
  <2>3. ~Replying(d) /\ ~Replying(d)'
        BY <1>1, <1>2 DEF Replying
  <2>4. QED
        BY <1>0, <1>1, <2>1, <2>2, <2>3, Untouched
<1>3. CASE d = serving /\ cpc[d] = "gone"
      BY <1>1, <1>3 DEF Counted
<1>4. CASE d = serving /\ cpc[d] # "gone"
  <2>1. answers'[d] = Append(answers[d], received) /\ UNCHANGED closed
        BY <1>0, <1>1, <1>4 DEF Send, TypeOK
  <2>2. /\ answers[d] \in Seq(Nat) /\ Len(answers[d]) \in Nat /\ received \in Nat
        /\ read[d].whole \in Nat
        BY <1>0 DEF TypeOK, Places
  <2>3. /\ Len(answers'[d]) = Len(answers[d]) + 1 /\ answers'[d][Len(answers[d]) + 1] = received
        /\ \A i \in 1..Len(answers[d]) : answers'[d][i] = answers[d][i]
        BY <2>1, <2>2
  <2>4. Replying(d) /\ ~Replying(d)' /\ Turned(d)' = Turned(d) /\ Due(d)' = Due(d)
        BY <1>1, <1>4, <2>3 DEF Replying, Turned, Due
  <2>5. \A i \in 1..Len(answers'[d]) : i \in 1..Len(answers[d]) \/ i = Len(answers[d]) + 1
        BY <2>2, <2>3
  <2>6. NotAhead(d) => NotAhead(d)'
        BY <1>1, <2>1, <2>3, <2>4, <2>5 DEF NotAhead
  <2>7. Exact(d) => Exact(d)'
        BY <1>1, <2>1, <2>3, <2>4, <2>5 DEF Exact
  <2>8. ReaderBehind(d) => ReaderBehind(d)'
        BY <1>1, <2>4 DEF ReaderBehind
  <2>9. AnswersBehind(d) => AnswersBehind(d)'
        BY <1>1, <2>1, <2>3, <2>4, <2>5 DEF AnswersBehind
  <2>10. QED
        BY <1>0, <1>1, <1>4, <2>6, <2>7, <2>8, <2>9 DEF Counted
<1>5. QED
      BY <1>2, <1>3, <1>4

(* A turn of a client that ends reads, at most, the answer of that turn. *)
LEMMA ResponseCounts ==
    ASSUME Inv, NEW c \in Clients, RecvResponse(c)
    PROVE  Counted(c)'
<1>0. TypeOK /\ Counted(c) /\ cpc[c] = "recv" /\ cpc'[c] = "prompt"
      BY DEF Inv, RecvResponse, GoOn, TypeOK
<1>1. NotAhead(c) /\ (~missed[c] => Exact(c)) /\ (missed[c] => ReaderBehind(c) \/ AnswersBehind(c))
      BY <1>0 DEF Counted
<1>2. UNCHANGED <<typed, closed, taken, answers, spc, serving, received>>
      BY DEF RecvResponse, ClientFrame
<1>3. PICK n \in 1..AnswerLen :
         /\ Within(Forward(read[c], n, AnswerLen), Len(answers[c]))
         /\ read' = [read EXCEPT ![c] = Forward(@, n, AnswerLen)]
         /\ missed' = [missed EXCEPT ![c] = @ \/ n < AnswerLen]
         /\ \/ /\ read[c].part = 0
               /\ response' = [response EXCEPT ![c] = answers[c][read[c].whole + 1]]
            \/ /\ read[c].part # 0 \/ n < AnswerLen
               /\ response' = [response EXCEPT ![c] = WRONG]
      BY DEF RecvResponse
<1>4. missed'[c] <=> missed[c] \/ n < AnswerLen
      BY <1>0, <1>3, Zenon DEF TypeOK
<1>5. read'[c] = Forward(read[c], n, AnswerLen)
      BY <1>0, <1>3 DEF TypeOK
<1>6. /\ read[c] \in Places(AnswerLen) /\ read[c].whole \in Nat /\ Len(answers[c]) \in Nat /\ typed[c] \in Nat
      /\ answers[c] \in Seq(Nat)
      BY <1>0 DEF TypeOK, Places
<1>7. typed[c] > 0 /\ Turned(c) = typed[c] - 1 /\ Turned(c) \in Nat /\ Turned(c)' = Turned(c) + 1
      BY <1>0, <1>1, <1>2, <1>6 DEF NotAhead, Turned
<1>8. /\ read'[c].whole \in {read[c].whole, read[c].whole + 1}
      /\ read[c].part = 0 /\ n < AnswerLen => read'[c].whole = read[c].whole
      /\ read[c].part = 0 /\ n = AnswerLen => read'[c].whole = read[c].whole + 1 /\ read'[c].part = 0
      /\ Within(read[c], Turned(c)) => Within(read'[c], Turned(c) + 1)
      /\ read[c].whole < Len(answers[c])
  <2>1. /\ Forward(read[c], n, AnswerLen).whole \in {read[c].whole, read[c].whole + 1}
        /\ read[c].part = 0 /\ n < AnswerLen => Forward(read[c], n, AnswerLen).whole = read[c].whole
        /\ read[c].part = 0 /\ n = AnswerLen =>
             /\ Forward(read[c], n, AnswerLen).whole = read[c].whole + 1
             /\ Forward(read[c], n, AnswerLen).part = 0
        /\ \A k \in Nat : Within(read[c], k) => Within(Forward(read[c], n, AnswerLen), k + 1)
        /\ \A k \in Nat : Within(Forward(read[c], n, AnswerLen), k) => read[c].whole < k
        BY <1>6, Sizes, ForwardMoves
  <2>2. QED
        BY <1>3, <1>5, <1>6, <1>7, <2>1
<1>9. read[c].whole + 1 \in 1..Len(answers[c]) /\ answers[c][read[c].whole + 1] \in Nat
  <2>1. read[c].whole + 1 \in 1..Len(answers[c])
        BY <1>6, <1>8
  <2>2. QED
        BY <1>6, <2>1
<1>10. \/ read[c].part = 0 /\ response'[c] = answers[c][read[c].whole + 1]
       \/ (read[c].part # 0 \/ n < AnswerLen) /\ response'[c] = 0
      BY <1>0, <1>3 DEF TypeOK, WRONG
<1>11. read[c].whole <= Turned(c)
      BY <1>1, <1>6, <1>7 DEF NotAhead, Within
<1>12. (Replying(c)' <=> Replying(c)) /\ Due(c)' = Due(c) /\ received' = received
      BY <1>2 DEF Replying, Due
<1>13. NotAhead(c)'
  <2>1. response'[c] <= Turned(c)'
    <3>1. answers[c][read[c].whole + 1] <= read[c].whole + 1
          BY <1>1, <1>9 DEF NotAhead
    <3>2. CASE response'[c] = answers[c][read[c].whole + 1]
      <4>1. response'[c] <= read[c].whole + 1 /\ response'[c] \in Nat
            BY <1>9, <3>1, <3>2
      <4>2. QED
            BY <1>6, <1>7, <1>11, <4>1
    <3>3. QED
          BY <1>7, <1>10, <3>2
  <2>2. Within(read'[c], Turned(c)')
        BY <1>1, <1>7, <1>8 DEF NotAhead
  <2>3. QED
        BY <1>1, <1>2, <1>7, <1>12, <2>1, <2>2 DEF NotAhead
<1>14. ~missed'[c] => Exact(c)'
  <2>1. SUFFICES ASSUME ~missed[c], n = AnswerLen PROVE Exact(c)'
        BY <1>3, <1>4, Sizes
  <2>2. read[c].whole = Turned(c) /\ read[c].part = 0
        BY <1>1, <2>1 DEF Exact
  <2>3. /\ read'[c].whole = Turned(c)' /\ read'[c].part = 0
        /\ response'[c] = answers[c][read[c].whole + 1]
        BY <1>7, <1>8, <1>10, <2>1, <2>2, Sizes
  <2>4. response'[c] = Turned(c)'
        BY <1>1, <1>7, <1>9, <2>1, <2>2, <2>3 DEF Exact
  <2>5. QED
        BY <1>1, <1>2, <1>12, <2>1, <2>3, <2>4 DEF Exact
<1>15. ~missed[c] /\ n < AnswerLen => ReaderBehind(c)'
      BY <1>1, <1>6, <1>7, <1>8 DEF Exact, ReaderBehind
<1>16. ReaderBehind(c) => ReaderBehind(c)'
      BY <1>6, <1>7, <1>8 DEF ReaderBehind
<1>17. AnswersBehind(c) => AnswersBehind(c)'
      BY <1>2, <1>6, <1>8, <1>12 DEF AnswersBehind
<1>18. QED
      BY <1>0, <1>1, <1>4, <1>13, <1>14, <1>15, <1>16, <1>17 DEF Counted

(* A turn that ends with nothing reads less than that. *)
LEMMA ZeroCounts ==
    ASSUME Inv, NEW c \in Clients, RecvZero(c)
    PROVE  Counted(c)'
<1>0. TypeOK /\ Counted(c) /\ cpc[c] = "recv" /\ cpc'[c] = "prompt" /\ closed[c]
      BY DEF Inv, RecvZero, GoOn, TypeOK
<1>1. NotAhead(c) /\ (~missed[c] => Exact(c)) /\ (missed[c] => ReaderBehind(c) \/ AnswersBehind(c))
      BY <1>0 DEF Counted
<1>2. /\ UNCHANGED <<typed, closed, taken, answers, spc, serving, received, read, response>>
      BY DEF RecvZero, ClientFrame
<1>3. read[c].whole \in Nat /\ typed[c] \in Nat /\ response[c] \in Nat
      BY <1>0 DEF TypeOK, Places
<1>4. typed[c] > 0 /\ Turned(c) = typed[c] - 1 /\ Turned(c) \in Nat /\ Turned(c)' = Turned(c) + 1
      BY <1>0, <1>1, <1>2, <1>3 DEF NotAhead, Turned
<1>5. missed'[c] = TRUE
      BY <1>0 DEF RecvZero, TypeOK
<1>6. (Replying(c)' <=> Replying(c)) /\ Due(c)' = Due(c)
      BY <1>2 DEF Replying, Due
<1>7. Within(read[c], Turned(c) + 1) /\ response[c] <= Turned(c) + 1
      BY <1>1, <1>3, <1>4 DEF NotAhead, Within
<1>8. NotAhead(c)'
      BY <1>0, <1>1, <1>2, <1>4, <1>6, <1>7 DEF NotAhead
<1>9. ReaderBehind(c) \/ Exact(c) => ReaderBehind(c)'
      BY <1>2, <1>3, <1>4 DEF ReaderBehind, Exact
<1>10. AnswersBehind(c) => AnswersBehind(c)'
      BY <1>2, <1>6 DEF AnswersBehind
<1>11. QED
      BY <1>0, <1>1, <1>5, <1>8, <1>9, <1>10 DEF Counted

(* A turn begins. *)
LEMMA EnterCounts ==
    ASSUME Inv, NEW c \in Clients, Enter(c)
    PROVE  Counted(c)'
<1>0. TypeOK /\ Counted(c) /\ cpc[c] = "prompt"
      BY DEF Inv, Enter
<1>1. /\ typed'[c] = typed[c] + 1 /\ typed[c] \in Nat /\ cpc'[c] \in {"recv", "gone"}
      /\ UNCHANGED <<closed, taken, answers, spc, serving, received, read, response, missed>>
      BY <1>0 DEF Enter, GoOn, ClientFrame, TypeOK
<1>2. CASE cpc'[c] = "gone"
      BY <1>2 DEF Counted
<1>3. CASE cpc'[c] = "recv"
  <2>1. Turned(c)' = Turned(c) /\ Due(c)' = Due(c) /\ (Replying(c)' <=> Replying(c)) /\ typed'[c] > 0
        BY <1>0, <1>1, <1>3 DEF Turned, Due, Replying
  <2>2. NotAhead(c) => NotAhead(c)'
        BY <1>1, <2>1 DEF NotAhead
  <2>3. Exact(c) => Exact(c)'
        BY <1>1, <2>1 DEF Exact
  <2>4. (ReaderBehind(c) => ReaderBehind(c)') /\ (AnswersBehind(c) => AnswersBehind(c)')
        BY <1>1, <2>1 DEF ReaderBehind, AnswersBehind
  <2>5. QED
        BY <1>0, <1>1, <1>3, <2>2, <2>3, <2>4 DEF Counted
<1>4. QED
      BY <1>1, <1>2, <1>3

LEMMA CountedStep ==
    ASSUME Inv, [Next]_vars, NEW d \in Clients
    PROVE  Counted(d)'
<1>0. TypeOK /\ Counted(d)
      BY DEF Inv
<1>1. CASE Accept \/ AcceptFails \/ RecvNothing
  <2>1. UNCHANGED <<cpc, typed, response, read, answers, taken, missed, received>>
        BY <1>1 DEF Accept, AcceptFails, RecvNothing, Close, ServerFrame, client
  <2>2. spc # "reply" /\ spc' # "reply"
        BY <1>1 DEF Accept, AcceptFails, Exit, RecvNothing, Close, BackToSelect
  <2>3. ~closed'[d] => ~closed[d]
        BY <1>0, <1>1 DEF Accept, AcceptFails, Exit, All, RecvNothing, Close, TypeOK
  <2>4. QED
        BY <1>0, <2>1, <2>2, <2>3, Untouched DEF Replying
<1>2. CASE RecvStudent
      BY <1>2, ReceiveCounts
<1>3. CASE Send
      BY <1>3, SendCounts
<1>4. ASSUME NEW c \in Clients, Connect(c) \/ Enter(c) \/ RecvResponse(c) \/ RecvZero(c) \/ Leave(c), d # c
      PROVE  Counted(d)'
  <2>1. UNCHANGED <<spc, serving, received, closed, taken, answers>>
        BY <1>4 DEF Connect, Enter, RecvResponse, RecvZero, Leave, ClientFrame
  <2>2. UNCHANGED <<cpc[d], typed[d], response[d], read[d]>>
        BY <1>0, <1>4 DEF Connect, Enter, RecvResponse, RecvZero, Leave, GoOn, TypeOK
  <2>3. missed'[d] = missed[d]
    <3>1. CASE UNCHANGED missed
          BY <3>1
    <3>2. CASE RecvZero(c)
          BY <1>0, <1>4, <3>2 DEF RecvZero, TypeOK
    <3>3. CASE RecvResponse(c)
      <4>1. PICK n \in 1..AnswerLen : missed' = [missed EXCEPT ![c] = @ \/ n < AnswerLen]
            BY <3>3 DEF RecvResponse
      <4>2. QED
            BY <1>0, <1>4, <4>1, Zenon DEF TypeOK
    <3>4. QED
          BY <1>4, <3>1, <3>2, <3>3 DEF Connect, Enter, Leave
  <2>4. QED
        BY <1>0, <2>1, <2>2, <2>3, Untouched DEF Replying
<1>5. ASSUME Connect(d) \/ Leave(d) PROVE Counted(d)'
  <2>1. UNCHANGED <<spc, serving, received, closed, taken, answers, typed, response, read, missed>>
        BY <1>5 DEF Connect, Leave, ClientFrame
  <2>2. cpc'[d] = "gone" \/ (cpc[d] = "start" /\ cpc'[d] = "prompt")
        BY <1>0, <1>5 DEF Connect, Leave, GoOn, TypeOK
  <2>3. QED
        BY <1>0, <2>1, <2>2, Untouched DEF Replying
<1>6. CASE UNCHANGED vars
      BY <1>0, <1>6, Untouched DEF vars, server, client, stream, Replying
<1>7. QED
      BY <1>1, <1>2, <1>3, <1>4, <1>5, <1>6, EnterCounts, ResponseCounts, ZeroCounts
      DEF Next, Server, Client

LEMMA Invariance == Spec => []Inv
<1>1. Inv /\ [Next]_vars => Inv'
      BY TypeStep, ServedStep, CountedStep DEF Inv
<1>2. QED
      BY InitInv, <1>1, PTL DEF Spec

-----------------------------------------------------------------------------
(* Every variable has its type, and nobody reads more than was sent.       *)
THEOREM Typing == Spec => []TypeOK
<1>1. Inv => TypeOK
      BY DEF Inv
<1>2. QED
      BY Invariance, <1>1, PTL

(* Client and server never wait for each other, in however many pieces     *)
(* students and answers arrive; and until a receive was short, what is     *)
(* printed is about the student that was typed.                            *)
THEOREM AnswersAreAboutTheStudent == Spec => []InStep
<1>1. ASSUME Inv, NEW c \in Clients, ~closed[c], cpc[c] = "recv", ~Up(c), ~Replying(c) PROVE Down(c)
  <2>1. /\ taken[c].whole \in Nat /\ read[c].whole \in Nat /\ typed[c] \in Nat /\ Len(answers[c]) \in Nat
        BY <1>1 DEF Inv, TypeOK, Places
  <2>2. NotAhead(c) /\ Within(taken[c], typed[c])
        BY <1>1 DEF Inv, Counted, TypeOK
  <2>3. typed[c] <= taken[c].whole /\ taken[c].whole <= Len(answers[c])
        BY <1>1, <2>1, <2>2 DEF Up, NotAhead, Due, Within
  <2>4. read[c].whole <= typed[c] - 1 /\ typed[c] > 0
        BY <1>1, <2>1, <2>2 DEF NotAhead, Turned, Within
  <2>5. QED
        BY <2>1, <2>3, <2>4 DEF Down
<1>2. ASSUME Inv, NEW c \in Clients, cpc[c] = "prompt", ~missed[c] PROVE response[c] = typed[c]
      BY <1>2 DEF Inv, Counted, Exact, Turned
<1>3. Inv => InStep
      BY <1>1, <1>2 DEF InStep, Replying
<1>4. QED
      BY Invariance, <1>3, PTL

(* After a short receive the client never again prints an answer that was  *)
(* made from the student its user has just typed.                          *)
THEOREM NoAnswerIsRightAgain == Spec => SplitNeverHeals
<1>1. ASSUME Inv, [Next]_vars, NEW c \in Clients, cpc[c] = "recv", cpc'[c] = "prompt",
             missed[c] \/ read'[c] = read[c]
      PROVE  response'[c] # typed[c]
  <2>0. TypeOK /\ Counted(c)
        BY <1>1 DEF Inv
  <2>1. RecvResponse(c) \/ RecvZero(c)
    <3>1. cpc' # cpc
          BY <1>1
    <3>2. Client
          BY <1>1, <3>1 DEF Next, Server, Accept, AcceptFails, RecvStudent, RecvNothing, Send,
             ServerFrame, client, vars
    <3>3. PICK d \in Clients : Connect(d) \/ Enter(d) \/ RecvResponse(d) \/ RecvZero(d) \/ Leave(d)
          BY <3>2 DEF Client
    <3>4. QED
          BY <1>1, <2>0, <3>3 DEF Connect, Enter, RecvResponse, RecvZero, Leave, GoOn, TypeOK
  <2>2. NotAhead(c) /\ (missed[c] => ReaderBehind(c) \/ AnswersBehind(c))
        BY <1>1, <2>0 DEF Counted
  <2>3. /\ read[c].whole \in Nat /\ typed[c] \in Nat /\ Len(answers[c]) \in Nat /\ response[c] \in Nat
        /\ read[c] \in Places(AnswerLen) /\ answers[c] \in Seq(Nat)
        BY <2>0 DEF TypeOK, Places
  <2>4. typed[c] > 0 /\ Turned(c) = typed[c] - 1
        BY <1>1, <2>2 DEF NotAhead, Turned
  <2>5. CASE RecvZero(c)
    <3>1. response' = response /\ response[c] <= Turned(c)
          BY <2>2, <2>5 DEF RecvZero, NotAhead
    <3>2. QED
          BY <2>3, <2>4, <3>1
  <2>6. CASE RecvResponse(c)
    <3>1. PICK n \in 1..AnswerLen :
            /\ Within(Forward(read[c], n, AnswerLen), Len(answers[c]))
            /\ read' = [read EXCEPT ![c] = Forward(@, n, AnswerLen)]
            /\ \/ response' = [response EXCEPT ![c] = answers[c][read[c].whole + 1]]
               \/ response' = [response EXCEPT ![c] = WRONG]
          BY <2>6 DEF RecvResponse
    <3>2. read'[c] = Forward(read[c], n, AnswerLen)
          BY <2>0, <3>1 DEF TypeOK
    <3>3. read'[c] # read[c] /\ read[c].whole < Len(answers[c])
          BY <2>3, <3>1, <3>2, Sizes, ForwardMoves
    <3>4. missed[c]
          BY <1>1, <3>3
    <3>5. read[c].whole + 1 \in 1..Len(answers[c])
          BY <2>3, <3>3
    <3>9. answers[c][read[c].whole + 1] \in Nat
          BY <2>3, <3>5
    <3>6. ASSUME NEW v \in Nat, v = answers[c][read[c].whole + 1] PROVE v < typed[c]
      <4>1. CASE ReaderBehind(c)
        <5>1. read[c].whole < Turned(c)
              BY <4>1 DEF ReaderBehind
        <5>2. v <= read[c].whole + 1
              BY <2>2, <3>5, <3>6 DEF NotAhead
        <5>3. QED
              BY <2>3, <2>4, <5>1, <5>2
      <4>2. CASE AnswersBehind(c)
        <5>1. v < read[c].whole + 1
              BY <2>3, <3>5, <3>6, <4>2 DEF AnswersBehind
        <5>2. read[c].whole <= Turned(c)
              BY <2>2, <2>3, <2>4 DEF NotAhead, Within
        <5>3. QED
              BY <2>3, <2>4, <5>1, <5>2
      <4>3. QED
            BY <2>2, <3>4, <4>1, <4>2
    <3>7. response'[c] = answers[c][read[c].whole + 1] \/ response'[c] = 0
          BY <2>0, <3>1 DEF TypeOK, WRONG
    <3>8. QED
          BY <2>3, <2>4, <3>9, <3>6, <3>7
  <2>7. QED
        BY <2>1, <2>5, <2>6
<1>2. Inv /\ [Next]_vars => [\A c \in Clients :
         /\ cpc[c] = "recv" /\ cpc'[c] = "prompt"
         /\ missed[c] \/ read'[c] = read[c]
         => response'[c] # typed[c]]_vars
      BY <1>1
<1>3. QED
      BY Invariance, <1>2, PTL DEF Spec, SplitNeverHeals
==============================================================================
