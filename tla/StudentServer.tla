---------------------------- MODULE StudentServer ----------------------------
(***************************************************************************)
(* The student server of Lab 4 and its clients.  The server takes one      *)
(* connection at a time: it receives a Student, answers with a text, and   *)
(* goes on until the client leaves or what it received looks like the      *)
(* farewell, a student of age 0 and group 0.  A client sends what its user *)
(* types and prints what it receives.                                      *)
(*                                                                         *)
(* TCP is a stream, and neither side looks at how many bytes it got.  Any  *)
(* receive may return less than a whole Student or a whole answer; what is *)
(* left comes with the next one.  So the model counts bytes.               *)
(***************************************************************************)
EXTENDS Integers, Sequences

CONSTANTS Clients,
          NameLen,    \* sizeof(name); 30 in the code
          AnswerLen,  \* sizeof(response); 128 in the code
          BackLog,    \* how many connections wait for accept; 5 in the code
          Turns       \* bound: the students the user of a client types

ASSUME LengthsAssumption == NameLen \in Nat \ {0} /\ AnswerLen \in Nat \ {0}
ASSUME BackLogAssumption == BackLog \in Nat \ {0}
ASSUME TurnsAssumption == Turns \in [Clients -> Nat]

NONE == "none"
ASSUME ClientsAssumption == NONE \notin Clients

Size == NameLen + 2   \* the name, a byte of age and a byte of group
WRONG == 0            \* an answer that is not made from one whole student

VARIABLES
    spc,         \* where the server is
    serving,     \* the client of comm_socket_fd
    received,    \* which student of the client is in student_recieved
    queue,       \* connections that wait for accept
    closed,      \* by client: the server's end of its connection is closed
    cpc,         \* where the client is
    typed,       \* how many students its user has typed
    response,    \* which of them what it printed last is about
    taken,       \* how far the server has read what the client sent
    answers,     \* which students the server's answers are about
    read,        \* how far the client has read them
    broken,      \* the client's end has been reset
    missed       \* some receive on this connection was not a whole one

server == <<spc, serving, received, queue, closed>>
client == <<cpc, typed, response>>
stream == <<taken, answers, read, broken, missed>>
vars == <<server, client, stream>>

All(x) == [c \in Clients |-> x]

(* A place in a stream: so many whole messages, and so many bytes.         *)
Start == [whole |-> 0, part |-> 0]

Forward_Resyncs(at, n, len) == [whole |-> at.whole + 1, part |-> 0]
Forward(at, n, len) ==
    IF at.part + n < len THEN [whole |-> at.whole, part |-> at.part + n]
    ELSE [whole |-> at.whole + 1, part |-> at.part + n - len]

(* The place comes not after the end of the message k. *)
Within(at, k) == at.whole < k \/ (at.whole = k /\ at.part = 0)

(* Bytes of the client, and bytes of the server, that are still to be read. *)
Up(c) == taken[c].whole < typed[c]
Down(c) == read[c].whole < Len(answers[c])

Init ==
    /\ spc = "select" /\ serving = NONE /\ received = WRONG
    /\ queue = << >> /\ closed = All(FALSE)
    /\ cpc = All("start") /\ typed = All(0) /\ response = All(WRONG)
    /\ taken = All(Start) /\ answers = All(<< >>) /\ read = All(Start)
    /\ broken = All(FALSE) /\ missed = All(FALSE)

-----------------------------------------------------------------------------
(* The server *)

ServerFrame == UNCHANGED <<client, read>>

(* select returns when a connection waits. *)
Accept ==
    /\ spc = "select" /\ queue # << >>
    /\ serving' = Head(queue) /\ queue' = Tail(queue)
    /\ spc' = "recv"
    /\ ServerFrame /\ UNCHANGED <<received, closed, taken, answers, broken, missed>>

(* The server ends, and all connections with it. *)
Exit == spc' = "exited" /\ closed' = All(TRUE)

AcceptFails ==
    /\ spc = "select" /\ queue # << >>
    /\ Exit
    /\ ServerFrame /\ UNCHANGED <<serving, received, queue, taken, answers, broken, missed>>

BackToSelect_Never == UNCHANGED <<spc, serving>>
BackToSelect == spc' = "select" /\ serving' = NONE

(* close; what has not been read resets the connection. *)
Close ==
    /\ closed' = [closed EXCEPT ![serving] = TRUE]
    /\ broken' = [broken EXCEPT ![serving] = @ \/ taken'[serving].whole < typed[serving]]
    /\ BackToSelect
    /\ UNCHANGED received

(* A student that is received whole is what its client sent; any other is   *)
(* made of bytes of two, or ends in zeros.                                 *)
About(n) == IF n = Size /\ taken[serving].part = 0 THEN taken[serving].whole + 1 ELSE WRONG

Answer_WholeOnly(s) ==
    received' = s /\ spc' = (IF s = WRONG THEN "recv" ELSE "reply") /\ UNCHANGED <<serving, closed, broken>>
Answer(s) == received' = s /\ spc' = "reply" /\ UNCHANGED <<serving, closed, broken>>

(* Whatever there is of a student is received over zeros.  Without a byte  *)
(* at the place of the age it is the farewell; otherwise it may be.        *)
RecvStudent ==
    /\ spc = "recv"
    /\ \E n \in 1..Size :
         /\ Within(Forward(taken[serving], n, Size), typed[serving])
         /\ taken' = [taken EXCEPT ![serving] = Forward(@, n, Size)]
         /\ missed' = [missed EXCEPT ![serving] = @ \/ n < Size]
         /\ \/ Close
            \/ n > NameLen /\ Answer(About(n))
    /\ ServerFrame /\ UNCHANGED <<queue, answers>>

(* recv returns 0 or fails, which leaves a student of zeros: both close.   *)
RecvNothing ==
    /\ spc = "recv" /\ ~Up(serving) /\ cpc[serving] = "gone"
    /\ UNCHANGED taken /\ Close
    /\ ServerFrame /\ UNCHANGED <<queue, answers, missed>>

(* sprintf and sendto.  To a client that is gone, and has been sent more   *)
(* than it read, sending may fail, or raise the signal that ends a process. *)
Send ==
    /\ spc = "reply"
    /\ \/ /\ answers' = [answers EXCEPT ![serving] = Append(@, received)]
          /\ spc' = "recv" /\ UNCHANGED closed
       \/ /\ cpc[serving] = "gone" /\ Down(serving)
          /\ (spc' = "recv" /\ UNCHANGED closed) \/ Exit
          /\ UNCHANGED answers
    /\ ServerFrame /\ UNCHANGED <<serving, received, queue, taken, broken, missed>>

Server == Accept \/ AcceptFails \/ RecvStudent \/ RecvNothing \/ Send

-----------------------------------------------------------------------------
(* The clients.  No result of connect, sendto or recvfrom is looked at.    *)

ClientFrame == UNCHANGED <<spc, serving, received, closed, taken, answers>>
GoOn(c, where) == cpc' = [cpc EXCEPT ![c] = where]

Connect(c) ==
    /\ cpc[c] = "start"
    /\ GoOn(c, "prompt")
    /\ IF spc = "exited"
       THEN broken' = [broken EXCEPT ![c] = TRUE] /\ UNCHANGED queue
       ELSE Len(queue) < BackLog /\ queue' = Append(queue, c) /\ UNCHANGED broken
    /\ ClientFrame /\ UNCHANGED <<typed, response, read, missed>>

(* The user types a student, which is sent.  A send to a server that has   *)
(* closed is answered with a reset, and the next one after it with the     *)
(* signal for a broken connection, which ends the client.                  *)
Enter(c) ==
    /\ cpc[c] = "prompt" /\ typed[c] < Turns[c]
    /\ typed' = [typed EXCEPT ![c] = @ + 1]
    /\ \/ ~closed[c] /\ GoOn(c, "recv") /\ UNCHANGED broken
       \/ closed[c] /\ ~broken[c] /\ broken' \in {broken, [broken EXCEPT ![c] = TRUE]}
          /\ GoOn(c, "recv")
       \/ broken[c] /\ GoOn(c, "gone") /\ UNCHANGED broken
    /\ ClientFrame /\ UNCHANGED <<queue, response, read, missed>>

(* What is printed is about the student an answer is about if it begins    *)
(* with that answer and has come as far as its last character.             *)
RecvResponse(c) ==
    /\ cpc[c] = "recv"
    /\ \E n \in 1..AnswerLen :
         /\ Within(Forward(read[c], n, AnswerLen), Len(answers[c]))
         /\ read' = [read EXCEPT ![c] = Forward(@, n, AnswerLen)]
         /\ missed' = [missed EXCEPT ![c] = @ \/ n < AnswerLen]
         /\ \/ /\ read[c].part = 0
               /\ response' = [response EXCEPT ![c] = answers[c][read[c].whole + 1]]
            \/ /\ read[c].part # 0 \/ n < AnswerLen
               /\ response' = [response EXCEPT ![c] = WRONG]
    /\ GoOn(c, "prompt")
    /\ ClientFrame /\ UNCHANGED <<queue, typed, broken>>

(* recvfrom does not wait for bytes that cannot come any more, because the *)
(* server has closed and all was read, or because the reset has discarded  *)
(* the rest: what was printed before is printed again.                     *)
RecvZero(c) ==
    /\ cpc[c] = "recv" /\ closed[c] /\ (broken[c] \/ ~Down(c))
    /\ missed' = [missed EXCEPT ![c] = TRUE]
    /\ GoOn(c, "prompt")
    /\ ClientFrame /\ UNCHANGED <<queue, typed, response, read, broken>>

Leave(c) ==
    /\ cpc[c] \in {"prompt", "recv"}
    /\ GoOn(c, "gone")
    /\ ClientFrame /\ UNCHANGED <<queue, typed, response, read, broken, missed>>

Client == \E c \in Clients : Connect(c) \/ Enter(c) \/ RecvResponse(c) \/ RecvZero(c) \/ Leave(c)

Next == Server \/ Client

Spec == Init /\ [][Next]_vars

(* The server runs; accept does not fail for ever.  Users do as they like. *)
FairSpec == Spec /\ WF_vars(Server)

-----------------------------------------------------------------------------
(* Properties *)

Places(len) == [whole : Nat, part : 0..(len - 1)]

(* Every variable has its type; nobody reads more than was sent.           *)
TypeOK ==
    /\ spc \in {"select", "recv", "reply", "exited"}
    /\ serving \in Clients \cup {NONE} /\ (spc \in {"recv", "reply"} => serving \in Clients)
    /\ received \in Nat
    /\ queue \in Seq(Clients)
    /\ closed \in [Clients -> BOOLEAN] /\ broken \in [Clients -> BOOLEAN]
    /\ missed \in [Clients -> BOOLEAN]
    /\ cpc \in [Clients -> {"start", "prompt", "recv", "gone"}]
    /\ typed \in [Clients -> Nat] /\ response \in [Clients -> Nat]
    /\ taken \in [Clients -> Places(Size)] /\ read \in [Clients -> Places(AnswerLen)]
    /\ answers \in [Clients -> Seq(Nat)]
    /\ \A c \in Clients : Within(taken[c], typed[c]) /\ Within(read[c], Len(answers[c]))

(* Until the server closes, client and server never wait for each other,   *)
(* in however many pieces students and answers arrive: while a client      *)
(* waits, bytes of its student or of an answer are there to be read, or    *)
(* the server is at its answer.  And as long as no receive was short, what *)
(* it prints is about the student its user has just typed (client.c lines  *)
(* 71-96, server.c lines 123-168).                                         *)
InStep ==
    \A c \in Clients : ~closed[c] =>
        /\ cpc[c] = "recv" => Up(c) \/ Down(c) \/ (spc = "reply" /\ serving = c)
        /\ cpc[c] = "prompt" /\ ~missed[c] => response[c] = typed[c]

(* Once a receive on a connection was short, on either side, or returned   *)
(* nothing, its client never again prints an answer that was made from the *)
(* student its user has just typed.  The pieces may fall into place, but   *)
(* then the answers are one behind, and stay so (server.c line 133,        *)
(* client.c line 91).                                                      *)
SplitNeverHeals ==
    [][\A c \in Clients :
         /\ cpc[c] = "recv" /\ cpc'[c] = "prompt"
         /\ missed[c] \/ read'[c] = read[c]
         => response'[c] # typed[c]]_vars

(* A waiting connection is served unless one client stays connected for    *)
(* ever or the server has ended (server.c's inner loop).                   *)
OnlyAStayerStarves ==
    \A c \in Clients :
        (\E k \in 1..Len(queue) : queue[k] = c)
            ~> (\/ serving = c \/ spc = "exited"
                \/ \E d \in Clients : [](serving = d /\ cpc[d] # "gone"))
==============================================================================
