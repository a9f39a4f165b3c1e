-------------------------- MODULE PipeStackProofs --------------------------
(***************************************************************************)
(* The client-server stack, proved for any heap and any values, in five    *)
(* parts: client and server take turns, and nothing but the client ends    *)
(* the session; the stack stands on its heap as a list does, and every     *)
(* request does to it what the contract says; after the end of the input   *)
(* the request stays as it is; the server does what the last word asks     *)
(* for; every value taken off the stack is lost to the heap.               *)
(***************************************************************************)
EXTENDS PipeStack, SequenceTheorems, FiniteSetTheorems, FunctionTheorems,
        WellFoundedInduction, TLAPS

Prompt == {"command", "value", "send"}
Early == {"start", "created", "listening", "hello"}

(* What is in the pipe, by where the server and the client are.            *)
BeforeSession ==
    /\ toClient = << >>
    /\ cpc \in {"sleep", "greet"} => toServer = << >>
    /\ cpc \in Prompt => toServer = <<HELLO>>
    /\ cpc = "await" => \E r : toServer = <<HELLO, r>> /\ r[1] # SERVEREXIT
    /\ cpc = "gone" => toServer \in {<< >>, <<HELLO>>}

InSession ==
    /\ cpc \in Prompt \cup {"await", "gone"}
    /\ cpc # "await" => toServer = << >> /\ toClient = << >>
    /\ cpc = "await" => \/ toClient = << >> /\ \E r : toServer = <<r>> /\ r[1] # SERVEREXIT
                        \/ toClient = <<1>> /\ toServer = << >>

Answering == cpc = "await" /\ toServer = << >> /\ toClient = << >>

AfterSession ==
    /\ cpc \in {"sleep", "greet"} => toServer = << >> /\ toClient = << >>
    /\ cpc \in Prompt => toServer \in {<< >>, <<HELLO>>} /\ toClient = << >>
    /\ cpc = "await" => toClient = << >>

Turns ==
    /\ spc \in Early \cup Serving \cup {"no pipe", "too late", "no memory", "read failed"}
    /\ cpc \in Prompt \cup {"sleep", "greet", "await", "gone"}
    /\ cpc = "send" => requestBuffer[1] # SERVEREXIT
    /\ spc = "start" => cpc \in {"sleep", "gone"}
    /\ spc \in Early => BeforeSession
    /\ spc = "hello" => cpc # "sleep"
    /\ spc = "ready" => InSession
    /\ spc = "answer" => Answering
    /\ spc \in Gone => AfterSession

(* A pipe that holds nothing, and a pipe that holds one message or two.    *)
LEMMA Pipe ==
    ASSUME NEW a, NEW b
    PROVE  /\ Append(<< >>, a) = <<a>> /\ Append(<<a>>, b) = <<a, b>>
           /\ <<a>> # << >> /\ <<a, b>> # << >>
           /\ Head(<<a>>) = a /\ Head(<<a, b>>) = a
           /\ Tail(<<a>>) = << >> /\ Tail(<<a, b>>) = <<b>>
<1> DEFINE S == {a, b}
<1>1. Append(<< >>, a) = <<a>>
  OBVIOUS
<1>2. <<a>> # << >> /\ <<a, b>> # << >> /\ Tail(<<a>>) = << >>
  OBVIOUS
<1>3. Head(<<a>>) = a /\ Head(<<a, b>>) = a
  OBVIOUS
<1>4. /\ <<a>> \in Seq(S) /\ Len(<<a>>) = 1 /\ <<a>>[1] = a
      /\ <<b>> \in Seq(S) /\ Len(<<b>>) = 1 /\ <<b>>[1] = b
      /\ <<a, b>> \in Seq(S) /\ Len(<<a, b>>) = 2 /\ <<a, b>>[1] = a /\ <<a, b>>[2] = b
  OBVIOUS
<1>5. /\ Append(<<a>>, b) \in Seq(S) /\ Len(Append(<<a>>, b)) = 2
      /\ Append(<<a>>, b)[1] = a /\ Append(<<a>>, b)[2] = b
  BY <1>4, AppendProperties
<1>6. /\ Tail(<<a, b>>) \in Seq(S) /\ Len(Tail(<<a, b>>)) = 1
      /\ Tail(<<a, b>>)[1] = b
  BY <1>2, <1>4, HeadTailProperties
<1> HIDE DEF S
<1>7. Append(<<a>>, b) = <<a, b>>
  <2>1. \A i \in 1..2 : Append(<<a>>, b)[i] = <<a, b>>[i]
    BY ONLY <1>4, <1>5
  <2> QED
    BY ONLY <1>4, <1>5, <2>1, SeqEqual
<1>8. Tail(<<a, b>>) = <<b>>
  <2>1. \A i \in 1..1 : Tail(<<a, b>>)[i] = <<b>>[i]
    BY ONLY <1>4, <1>6
  <2> QED
    BY ONLY <1>4, <1>6, <2>1, SeqEqual
<1> QED
  BY ONLY <1>1, <1>2, <1>3, <1>7, <1>8

(* The words that are sent as they are do not ask the server to stop.      *)
LEMMA SimpleGoesOn == \A w \in DOMAIN Simple : Simple[w] # SERVEREXIT
  BY DEF Simple, STACKPEEK, STACKPOP, STACKNEW, STACKSIZE, STACKISEMPTY, STACKDISPLAY, SERVERHELP,
         SERVEREXIT

(* The server's steps up to the greeting. *)
LEMMA ServerStarts ==
    ASSUME Turns, CreatePipe \/ ConnectPipe \/ PipeConnected
    PROVE  Turns'
<1>1. UNCHANGED <<process, cpc, input, toServer, toClient>>
  BY DEF CreatePipe, ConnectPipe, PipeConnected, ServerFrame
<1>2. /\ spc \in {"start", "created", "listening"}
      /\ spc' \in {"created", "listening", "hello", "no pipe", "too late"}
      /\ spc' = "hello" => cpc # "sleep"
  BY DEF CreatePipe, ConnectPipe, PipeConnected, Ends
<1>3. BeforeSession
  BY <1>2 DEF Turns, Early
<1> QED
  BY <1>1, <1>2, <1>3 DEF Turns, Early, Serving, Gone, BeforeSession, AfterSession, Prompt, input

(* The greeting is the first thing the server reads.                       *)
LEMMA ServerGreeted ==
    ASSUME Turns, ReadHello
    PROVE  Turns'
<1>1. /\ UNCHANGED <<process, cpc, input, toClient>>
      /\ spc = "hello" /\ toServer # << >> /\ toServer' = Tail(toServer)
  BY DEF ReadHello, ServerFrame
<1>2. BeforeSession /\ cpc \in Prompt \cup {"greet", "await", "gone"}
  BY <1>1 DEF Turns, Early
<1>3. \/ cpc \in Prompt \cup {"gone"} /\ toServer = <<HELLO>>
      \/ cpc = "await" /\ \E r : toServer = <<HELLO, r>> /\ r[1] # SERVEREXIT
  BY <1>1, <1>2 DEF BeforeSession
<1>4. /\ Head(toServer) = HELLO
      /\ cpc # "await" => toServer' = << >>
      /\ cpc = "await" => \E r : toServer' = <<r>> /\ r[1] # SERVEREXIT
      /\ toClient' = << >>
  <2>1. toClient' = << >>
    BY <1>1, <1>2 DEF BeforeSession
  <2>2. CASE cpc # "await"
    BY <1>1, <1>3, <2>1, <2>2, Pipe
  <2>3. CASE cpc = "await"
    <3>1. PICK r : toServer = <<HELLO, r>> /\ r[1] # SERVEREXIT
      BY <1>3, <2>3 DEF Prompt
    <3>2. toServer' = <<r>> /\ Head(toServer) = HELLO
      BY <1>1, <3>1, Pipe
    <3> QED
      BY <2>1, <2>3, <3>1, <3>2
  <2> QED
    BY <2>2, <2>3
<1>5. spc' \in {"ready", "no memory"}
  BY <1>4 DEF ReadHello, Ends
<1>6. InSession'
  BY <1>1, <1>3, <1>4 DEF InSession, Prompt
<1>7. AfterSession'
  BY <1>1, <1>3, <1>4 DEF AfterSession, Prompt
<1> QED
  BY <1>1, <1>2, <1>5, <1>6, <1>7 DEF Turns, Early, Serving, input

(* A request is served and answered, or the client has hung up.            *)
LEMMA ServerServes ==
    ASSUME Turns, ReadRequest \/ ReadFails \/ WriteAnswer
    PROVE  Turns'
<1>1. UNCHANGED <<process, cpc, input>>
  BY DEF ReadRequest, ReadFails, WriteAnswer, ServerFrame
<1>2. CASE ReadRequest
  <2>1. spc = "ready" /\ toServer # << >> /\ toServer' = Tail(toServer) /\ toClient' = toClient
    BY <1>2 DEF ReadRequest
  <2>2. cpc = "await" /\ toClient = << >> /\ \E r : toServer = <<r>> /\ r[1] # SERVEREXIT
    BY <2>1 DEF Turns, InSession
  <2>3. toServer' = << >> /\ Head(toServer)[1] # SERVEREXIT
    BY <2>1, <2>2, Pipe
  <2>4. spc' = "answer"
    BY <1>2, <2>3 DEF ReadRequest
  <2> QED
    BY <1>1, <2>1, <2>2, <2>3, <2>4 DEF Turns, Early, Serving, Gone, Answering, input
<1>3. CASE ReadFails
  <2>1. spc = "ready" /\ spc' = "read failed" /\ UNCHANGED <<toServer, toClient>>
    BY <1>3 DEF ReadFails, Ends
  <2>2. AfterSession'
    BY <1>1, <1>3, <2>1 DEF Turns, InSession, AfterSession, ReadFails, ClientHasPipe, Prompt
  <2> QED
    BY <1>1, <2>1, <2>2 DEF Turns, Early, Serving, input
<1>4. CASE WriteAnswer
  <2>1. spc = "answer" /\ Answering /\ toServer' = toServer
    BY <1>4 DEF WriteAnswer, Turns
  <2>2. spc' = "ready" /\ toClient' = <<1>>
    BY <1>4, <2>1, Pipe DEF WriteAnswer, Answering, ClientHasPipe
  <2> QED
    BY <1>1, <2>1, <2>2 DEF Turns, Early, Serving, Gone, Answering, InSession, Prompt, input
<1> QED
  BY <1>2, <1>3, <1>4

(* The client writes only when it is its turn.                             *)
LEMMA ClientWrites ==
    ASSUME Turns, OpenPipe \/ Greet \/ SendRequest
    PROVE  Turns'
<1>1. UNCHANGED <<process, spc, toClient, input>>
  BY DEF OpenPipe, Greet, SendRequest, Writes, ClientFrame, server
<1>2. CASE OpenPipe
  <2>1. /\ cpc = "sleep" /\ cpc' \in {"greet", "gone"} /\ toServer' = toServer
        /\ spc = "start" => cpc' = "gone"
    BY <1>2 DEF OpenPipe
  <2> QED
    BY <1>1, <2>1 DEF Turns, Early, Serving, Gone, BeforeSession, InSession, Answering, AfterSession,
                      Prompt, input
<1>3. CASE Greet
  <2>1. cpc = "greet" /\ spc \notin Serving
    BY <1>3 DEF Greet, Turns, Serving, InSession, Answering, Prompt
  <2>2. \/ spc \in Early /\ cpc' = "command" /\ toServer' = <<HELLO>>
        \/ cpc' = "gone" /\ toServer' = << >>
    <3>1. toServer = << >>
      BY <2>1 DEF Turns, Early, Serving, Gone, BeforeSession, AfterSession
    <3> QED
      BY <1>3, <2>1, <3>1, Pipe DEF Greet, Writes, ServerHasPipe, Early
  <2> QED
    BY <1>1, <2>1, <2>2 DEF Turns, Early, Serving, Gone, BeforeSession, InSession, Answering,
                            AfterSession, Prompt, input
<1>4. CASE SendRequest
  <2>1. cpc = "send" /\ spc # "answer" /\ requestBuffer[1] # SERVEREXIT
    BY <1>4 DEF SendRequest, Turns, Answering
  <2>2. CASE spc \in Early
    <3>1. toServer = <<HELLO>> /\ toClient = << >>
      BY <2>1, <2>2 DEF Turns, BeforeSession, Prompt
    <3>2. \/ cpc' = "await" /\ toServer' = <<HELLO, requestBuffer>>
          \/ cpc' = "gone" /\ toServer' = <<HELLO>>
      BY <1>4, <3>1, Pipe DEF SendRequest, Writes, afterSend
    <3>3. BeforeSession'
      BY <1>1, <2>1, <3>1, <3>2 DEF BeforeSession, Prompt
    <3> QED
      BY <1>1, <2>1, <2>2, <3>2, <3>3 DEF Turns, Early, Serving, Gone
  <2>3. CASE spc = "ready"
    <3>1. toServer = << >> /\ toClient = << >>
      BY <2>1, <2>3 DEF Turns, InSession
    <3>2. cpc' = "await" /\ toServer' = <<requestBuffer>>
      BY <1>4, <2>3, <3>1, Pipe DEF SendRequest, Writes, ServerHasPipe, Serving, afterSend
    <3>3. InSession'
      BY <1>1, <2>1, <3>1, <3>2 DEF InSession
    <3> QED
      BY <1>1, <2>3, <3>2, <3>3 DEF Turns, Early, Serving, Gone
  <2>4. CASE spc \in Gone
    <3>1. cpc' = "gone"
      BY <1>4, <2>4 DEF SendRequest, Writes, ServerHasPipe, Serving, Gone
    <3> QED
      BY <1>1, <2>4, <3>1 DEF Turns, Early, Serving, Gone, AfterSession, Prompt
  <2> QED
    BY <2>1, <2>2, <2>3, <2>4 DEF Turns, Serving, Gone
<1> QED
  BY <1>2, <1>3, <1>4

(* The user's words change nothing in the pipe; exit is the client's end.  *)
LEMMA ClientReads ==
    ASSUME Turns, ReadCommand \/ ReadValue
    PROVE  Turns'
<1>1. UNCHANGED <<process, spc, toServer, toClient>>
  BY DEF ReadCommand, ReadValue, ClientFrame, server
<1>2. cpc \in Prompt /\ cpc' \in Prompt \cup {"gone"}
  BY DEF ReadCommand, ReadValue, Obey, exitSends, afterWord, Prompt
<1>3. cpc' = "send" => requestBuffer'[1] # SERVEREXIT
  <2>1. ASSUME NEW w, Obey(w), cpc' = "send"
        PROVE  requestBuffer'[1] # SERVEREXIT
    <3>1. w \in DOMAIN Simple
      BY <2>1 DEF Obey, exitSends
    <3> QED
      BY <2>1, <3>1, SimpleGoesOn DEF Obey
  <2>2. CASE ReadCommand
    BY <2>1, <2>2 DEF ReadCommand
  <2>3. CASE ReadValue
    BY <2>3 DEF ReadValue, afterWord, STACKPUSH, SERVEREXIT
  <2> QED
    BY <2>2, <2>3
<1> QED
  BY <1>1, <1>2, <1>3 DEF Turns, Early, Serving, Gone, BeforeSession, InSession, Answering,
                          AfterSession, Prompt

(* The client takes its answer, or finds the server gone.                  *)
LEMMA ClientAnswered ==
    ASSUME Turns, ReadAnswer
    PROVE  Turns'
<1>1. cpc = "await" /\ UNCHANGED <<process, spc, toServer, input>>
  BY DEF ReadAnswer, ClientFrame, server
<1>2. CASE toClient # << >> /\ toClient' = Tail(toClient) /\ cpc' \in {"command", "gone"}
  <2>1. toClient = <<1>> /\ spc = "ready" /\ toServer = << >>
    BY <1>1, <1>2 DEF Turns, Early, Serving, Gone, BeforeSession, InSession, Answering, AfterSession
  <2>2. toClient' = << >>
    BY <1>2, <2>1, Pipe
  <2>3. InSession'
    BY <1>1, <1>2, <2>1, <2>2 DEF InSession, Prompt
  <2> QED
    BY <1>1, <1>2, <2>1, <2>3 DEF Turns, Early, Serving, Gone, Prompt
<1>3. CASE ~ServerHasPipe /\ cpc' = "gone"
  BY <1>1, <1>3 DEF Turns, Early, Serving, Gone, AfterSession, Prompt, ServerHasPipe
<1> QED
  BY <1>2, <1>3 DEF ReadAnswer

(* No step of the server, the client or the user is taken out of turn.     *)
LEMMA TurnsStep ==
    ASSUME Turns, [Next]_vars
    PROVE  Turns'
<1>1. CASE UNCHANGED vars \/ InputEnds \/ MainReturns
  <2>1. UNCHANGED <<spc, cpc, toServer, toClient, requestBuffer>>
    BY <1>1 DEF vars, server, input, InputEnds, MainReturns, ClientFrame
  <2> QED
    BY <2>1 DEF Turns, BeforeSession, InSession, Answering, AfterSession
<1> QED
  BY <1>1, ServerStarts, ServerGreeted, ServerServes, ClientWrites, ClientReads, ClientAnswered
     DEF Next, ServerJob, ClientJob

(* Client and server take turns: what is in the pipe follows from where    *)
(* they are.                                                               *)
THEOREM TakesTurns == Spec => []Turns
<1>1. Init => Turns
  BY DEF Init, Turns, BeforeSession, Early, Serving, Gone, Prompt
<1>2. Turns /\ [Next]_vars => Turns'
  BY TurnsStep
<1> QED
  BY <1>1, <1>2, PTL DEF Spec

(* At the prompt everything that was asked is done, and a client that      *)
(* waits waits for one thing, for any heap, any values and any commands    *)
(* (ServerJob, ClientJob).                                                 *)
THEOREM OneMessage == Spec => []OneAtATime
<1>1. ASSUME Turns, cpc \in Prompt
      PROVE  toClient = << >> /\ spc # "answer" /\ toServer \in {<< >>, <<HELLO>>}
  BY <1>1 DEF Turns, Early, Serving, Gone, BeforeSession, InSession, Answering, AfterSession, Prompt
<1>2. ASSUME Turns, cpc = "await", spc = "ready"
      PROVE  (toServer = << >>) # (toClient = << >>)
  <2>1. \/ toClient = << >> /\ \E r : toServer = <<r>>
        \/ toClient = <<1>> /\ toServer = << >>
    BY <1>2 DEF Turns, Serving, InSession
  <2> QED
    BY <2>1, Pipe
<1>3. Turns => OneAtATime
  BY <1>1, <1>2 DEF Turns, Answering, OneAtATime, Serving, Prompt
<1> QED
  BY <1>3, TakesTurns, PTL

(* The server is never told to stop, never fails to answer and is never    *)
(* greeted wrongly: only the client's hanging up ends a session.           *)
THEOREM OnlyTheClientEnds == Spec => []EndsByHangUp
<1>1. Turns => EndsByHangUp
  BY DEF Turns, EndsByHangUp, Early, Serving
<1> QED
  BY <1>1, TakesTurns, PTL

-----------------------------------------------------------------------------
(* The stack on its heap                                                   *)

(* c lists the nodes from the top down: the links, the size and the two    *)
(* ends say so, and all its nodes and integers are different blocks in use. *)
Lists(c) ==
    /\ stack.size \in Nat
    /\ c \in [1..stack.size -> Addr]
    /\ stack.top = IF stack.size = 0 THEN NULL ELSE c[1]
    /\ stack.size # 0 => stack.bottom = c[stack.size]
    /\ \A i \in 1..stack.size : prev[c[i]] = IF i = stack.size THEN NULL ELSE c[i + 1]
    /\ \A i \in 1..stack.size : c[i] \in used /\ data[c[i]] \in used
    /\ \A i, j \in 1..stack.size : i # j => c[i] # c[j] /\ data[c[i]] # data[c[j]]
    /\ \A i, j \in 1..stack.size : c[i] # data[c[j]]

Linked == \E c : Lists(c)

(* A set of natural numbers has a least one. *)
LEMMA LeastNatural ==
    ASSUME NEW T, T \subseteq Nat, T # {}
    PROVE  \E m \in T : \A k \in T : m <= k
<1>1. \E x \in T : \A y \in T : <<y, x>> \notin OpToRel(<, Nat)
  BY NatLessThanWellFounded, WFMin, Zenon
<1>2. PICK x \in T : \A y \in T : <<y, x>> \notin OpToRel(<, Nat)
  BY <1>1
<1>3. x \in Nat
  OBVIOUS
<1>4. \A y \in Nat : y < x => <<y, x>> \in OpToRel(<, Nat)
  BY <1>3 DEF OpToRel
<1>5. \A y \in T : y \in Nat /\ ~(y < x)
  BY <1>2, <1>4
<1> QED
  BY <1>3, <1>5

(* The nodes of a list are no more than the blocks of the heap.            *)
LEMMA StackFits ==
    ASSUME NEW c, Lists(c)
    PROVE  Cardinality(Addr) \in Nat /\ stack.size <= Cardinality(Addr)
<1>1. Cardinality(Addr) \in Nat
  BY AddrAssumption, FS_CardinalityType
<1>2. c \in [1..stack.size -> Addr] /\ stack.size \in Nat
  BY DEF Lists
<1>3. \A i, j \in 1..stack.size : c[i] = c[j] => i = j
  BY DEF Lists
<1>4. c \in Injection(1..stack.size, Addr)
  BY ONLY <1>2, <1>3, Fun_IsInj
<1>5. Cardinality(1..stack.size) <= Cardinality(Addr)
  BY <1>4, AddrAssumption, FS_Injection
<1>6. Cardinality(1..stack.size) = stack.size
  BY <1>2, FS_Interval
<1> QED
  BY <1>1, <1>5, <1>6

(* Walking the links from the top goes along the list and then stays at    *)
(* NULL.                                                                   *)
LEMMA WalkAlong ==
    ASSUME NEW c, Lists(c)
    PROVE  /\ DOMAIN NodeAt = 0..Cardinality(Addr)
           /\ \A k \in 0..Cardinality(Addr) :
                NodeAt[k] = IF k < stack.size THEN c[k + 1] ELSE NULL
<1> DEFINE n == Cardinality(Addr)
           Step(f) == [i \in 0..n |-> IF i = 0 THEN stack.top
                                      ELSE IF f[i - 1] = NULL THEN NULL ELSE prev[f[i - 1]]]
           d == [i \in 0..n |-> IF i < stack.size THEN c[i + 1] ELSE NULL]
           g == CHOOSE f : f = Step(f)
<1>0. n \in Nat /\ stack.size <= n
  BY StackFits
<1>1. d = Step(d)
  <2>1. ASSUME NEW i \in 0..n
        PROVE  d[i] = Step(d)[i]
    <3>1. CASE i = 0
      BY <3>1, <1>0 DEF Lists
    <3>2. CASE i # 0
      <4>1. i - 1 \in 0..n /\ i \in 1..n
        BY <3>2, <1>0
      <4>2. Step(d)[i] = IF d[i - 1] = NULL THEN NULL ELSE prev[d[i - 1]]
        BY <3>2
      <4>3. d[i - 1] = IF i - 1 < stack.size THEN c[i] ELSE NULL
        BY <4>1, <1>0
      <4>4. CASE i <= stack.size
        <5>1. c[i] \in Addr /\ prev[c[i]] = IF i = stack.size THEN NULL ELSE c[i + 1]
          BY <4>1, <4>4, <1>0 DEF Lists
        <5>2. d[i - 1] = c[i] /\ c[i] # NULL
          BY <4>1, <4>3, <4>4, <5>1, <1>0, NullAssumption DEF Lists
        <5>3. d[i] = IF i < stack.size THEN c[i + 1] ELSE NULL
          OBVIOUS
        <5>4. stack.size \in Nat
          BY DEF Lists
        <5> QED
          BY <4>2, <5>1, <5>2, <5>3, <4>4, <5>4
      <4>5. CASE ~(i <= stack.size)
        <5>1. stack.size \in Nat
          BY DEF Lists
        <5>2. d[i] = NULL /\ d[i - 1] = NULL
          BY <4>1, <4>3, <4>5, <5>1
        <5> QED
          BY <4>2, <5>2
      <4> QED
        BY <4>4, <4>5
    <3> QED
      BY <3>1, <3>2
  <2> QED
    BY <2>1
<1>2. g = Step(g)
  BY <1>1
<1>3. NodeAt = g
  BY DEF NodeAt
<1> HIDE DEF g
<1>4. /\ DOMAIN g = 0..n
      /\ \A i \in 0..n : g[i] = IF i = 0 THEN stack.top
                                ELSE IF g[i - 1] = NULL THEN NULL ELSE prev[g[i - 1]]
  BY <1>2
<1>5. \A i \in 0..n : d[i] = IF i = 0 THEN stack.top
                             ELSE IF d[i - 1] = NULL THEN NULL ELSE prev[d[i - 1]]
  <2> HIDE DEF d
  <2> QED
    BY <1>1
<1> HIDE DEF d
<1> DEFINE Apart == {i \in 0..n : g[i] # d[i]}
<1>6. Apart = {}
  <2> SUFFICES ASSUME Apart # {} PROVE FALSE
    OBVIOUS
  <2>1. Apart \subseteq Nat
    OBVIOUS
  <2>2. PICK m \in Apart : \A l \in Apart : m <= l
    <3> HIDE DEF Apart
    <3> QED
      BY <2>1, LeastNatural
  <2>3. m \in 0..n /\ g[m] # d[m]
    BY <2>2
  <2>4. CASE m = 0
    BY <1>4, <1>5, <2>3, <2>4
  <2>5. CASE m # 0
    <3>1. m - 1 \in 0..n /\ m - 1 \notin Apart
      BY <2>2, <2>3, <2>5, <1>0
    <3>2. g[m - 1] = d[m - 1]
      BY <3>1
    <3>3. g[m] = IF g[m - 1] = NULL THEN NULL ELSE prev[g[m - 1]]
      BY <1>4, <2>3, <2>5
    <3>4. d[m] = IF d[m - 1] = NULL THEN NULL ELSE prev[d[m - 1]]
      BY <1>5, <2>3, <2>5
    <3> QED
      BY <2>3, <3>2, <3>3, <3>4
  <2> QED
    BY <2>4, <2>5
<1>7. \A k \in 0..n : d[k] = IF k < stack.size THEN c[k + 1] ELSE NULL
  BY DEF d
<1> QED
  BY <1>3, <1>4, <1>6, <1>7

(* What displaySatckOfInts goes through is the list. *)
LEMMA NodesAreListed ==
    ASSUME NEW c, Lists(c)
    PROVE  nodes = c /\ Len(nodes) = stack.size /\ DOMAIN nodes = 1..stack.size
<1> DEFINE n == Cardinality(Addr)
           ends == {k \in 0..n : NodeAt[k] = NULL}
<1>1. n \in Nat /\ stack.size \in 0..n
  BY StackFits DEF Lists
<1>2. \A k \in 0..n : NodeAt[k] = IF k < stack.size THEN c[k + 1] ELSE NULL
  BY WalkAlong
<1>3. ASSUME NEW k \in 0..n, k < stack.size
      PROVE  NodeAt[k] # NULL
  <2>1. k + 1 \in 1..stack.size
    BY <1>1, <1>3
  <2>2. c[k + 1] \in Addr
    BY <2>1 DEF Lists
  <2> QED
    BY <1>2, <1>3, <2>2, NullAssumption
<1>4. stack.size \in ends /\ \A k \in ends : stack.size <= k
  BY <1>1, <1>2, <1>3
<1>5. Min(ends) = stack.size
  <2>1. Min(ends) \in ends /\ \A k \in ends : Min(ends) <= k
    <3> HIDE DEF ends
    <3> QED
      BY <1>4 DEF Min
  <2>2. Min(ends) \in 0..n
    BY <2>1
  <2> HIDE DEF ends
  <2> QED
    BY <1>1, <1>4, <2>1, <2>2
<1>6. DOMAIN NodeAt = 0..n
  BY WalkAlong
<1>7. nodes = [i \in 1..(IF ends = {} THEN n ELSE Min(ends)) |-> NodeAt[i - 1]]
  BY <1>6 DEF nodes
<1>8. nodes = [i \in 1..stack.size |-> NodeAt[i - 1]]
  BY <1>4, <1>5, <1>7
<1>9. \A i \in 1..stack.size : NodeAt[i - 1] = c[i]
  <2> TAKE i \in 1..stack.size
  <2>1. i - 1 \in 0..n /\ i - 1 < stack.size /\ (i - 1) + 1 = i
    BY <1>1
  <2> QED
    BY <1>2, <2>1
<1>10. c \in [1..stack.size -> Addr]
  BY DEF Lists
<1>11. nodes = c
  BY <1>8, <1>9, <1>10
<1>12. c \in Seq(Addr) /\ Len(c) = stack.size
  BY <1>1, <1>10, SeqDef, LenProperties
<1> QED
  BY <1>10, <1>11, <1>12

(* A stack that stands as a list is well formed. *)
LEMMA ListedIsWell ==
    ASSUME NEW c, Lists(c)
    PROVE  WellStacked
<1> DEFINE S == 1..stack.size
           ns == {nodes[i] : i \in DOMAIN nodes}
           ds == {data[a] : a \in ns}
           b == [i \in S |-> data[c[i]]]
<1>1. nodes = c /\ Len(nodes) = stack.size /\ DOMAIN nodes = S /\ stack.size \in Nat
  BY NodesAreListed DEF Lists
<1>2. ns = {c[i] : i \in S}
  BY <1>1
<1>3. ds = {b[i] : i \in S}
  <2> HIDE DEF ns
  <2> QED
    BY <1>2
<1>4. \A i, j \in S : (c[i] = c[j] => i = j) /\ (b[i] = b[j] => i = j) /\ c[i] # b[j]
  BY DEF Lists
<1>5. ns \cap ds = {} /\ ns \cup ds \subseteq used
  <2>1. \A i \in S : c[i] \in used /\ b[i] \in used
    BY DEF Lists
  <2> HIDE DEF S, b, ns, ds
  <2> QED
    BY <1>2, <1>3, <1>4, <2>1
<1>6. c \in Bijection(S, ns) /\ b \in Bijection(S, ds)
  <2>1. c \in [S -> Addr] /\ DOMAIN b = S /\ b = [i \in S |-> b[i]]
    BY DEF Lists
  <2> HIDE DEF S, b, ns, ds
  <2>2. c \in [S -> ns] /\ b \in [S -> ds]
    BY <1>2, <1>3, <2>1
  <2>3. c \in Surjection(S, ns) /\ b \in Surjection(S, ds)
    BY <1>2, <1>3, <2>2 DEF Surjection
  <2> QED
    BY <1>4, <2>2, <2>3, Fun_IsBij
<1>7. IsFiniteSet(S) /\ Cardinality(S) = stack.size
  BY <1>1, FS_Interval
<1>8. /\ IsFiniteSet(ns) /\ Cardinality(ns) = stack.size
      /\ IsFiniteSet(ds) /\ Cardinality(ds) = stack.size
  <2> HIDE DEF S, b, ns, ds
  <2>1. ExistsBijection(S, ns) /\ ExistsBijection(S, ds)
    BY <1>6 DEF ExistsBijection
  <2> QED
    BY <1>7, <2>1, FS_Bijection
<1>9. Cardinality(ns \cup ds) = 2 * stack.size
  <2> HIDE DEF ns, ds
  <2>1. Cardinality(ns \cup ds) = Cardinality(ns) + Cardinality(ds) - Cardinality(ns \cap ds)
    BY <1>8, FS_Union
  <2>2. Cardinality({}) = 0
    BY FS_EmptySet
  <2>3. Cardinality(ns \cap ds) = 0
    BY <1>5, <2>2
  <2> QED
    BY <1>1, <1>8, <2>1, <2>3
<1>10. stack.size > 0 => stack.bottom = nodes[stack.size]
  BY <1>1 DEF Lists
<1> QED
  BY <1>1, <1>5, <1>9, <1>10 DEF WellStacked

(* An empty stack has an empty list, whatever else the heap holds.         *)
LEMMA NothingListed ==
    ASSUME stack' = emptyStack
    PROVE  \E e : e = << >> /\ Lists(e)'
<1>1. stack'.size = 0 /\ stack'.top = NULL
  BY DEF emptyStack
<1>2. PICK e : e = << >>
  OBVIOUS
<1>3. 1..0 = {}
  OBVIOUS
<1>4. e \in [{} -> Addr]
  BY <1>2
<1>5. Lists(e)'
  BY <1>1, <1>3, <1>4 DEF Lists
<1> QED
  BY <1>2, <1>5

(* A node before the others of a list. *)
Pushed(c, n) == [i \in 1..(stack.size + 1) |-> IF i = 1 THEN n ELSE c[i - 1]]

(* What stackPush links is the list with the new node before it.           *)
LEMMA PushIsListed ==
    ASSUME NEW c, Lists(c), TypeOK, NEW d \in Addr \ used, NEW n \in Addr \ (used \cup {d}),
           used' = used \cup {d, n}, data' = [data EXCEPT ![n] = d], stackPush(n)
    PROVE  \E e : e = Pushed(c, n) /\ Lists(e)'
<1> DEFINE S == 1..stack.size
           T == 1..(stack.size + 1)
<1>1. /\ stack'.size = stack.size + 1 /\ stack'.top = n
      /\ stack'.bottom = IF stack.size = 0 THEN n ELSE stack.bottom
      /\ prev' = [prev EXCEPT ![n] = IF stack.size = 0 THEN NULL ELSE stack.top]
  BY DEF stackPush
<1>2. PICK e : e = [i \in T |-> IF i = 1 THEN n ELSE c[i - 1]]
  OBVIOUS
<1>3. stack.size \in Nat /\ c \in [S -> Addr]
  BY DEF Lists
<1>4. e[1] = n /\ \A i \in T : i # 1 => i - 1 \in S /\ e[i] = c[i - 1]
  BY <1>2, <1>3
<1>5. e \in [T -> Addr]
  BY <1>2, <1>3, <1>4
<1>6. \A i \in S : c[i] # n /\ c[i] # d /\ data[c[i]] # d /\ data[c[i]] # n /\ c[i] \in Addr
  BY <1>3 DEF Lists
<1>7. /\ prev'[n] = (IF stack.size = 0 THEN NULL ELSE stack.top) /\ data'[n] = d
      /\ \A i \in S : prev'[c[i]] = prev[c[i]] /\ data'[c[i]] = data[c[i]]
  BY <1>1, <1>6 DEF TypeOK
<1>8. stack'.size # 0 => stack'.bottom = e[stack'.size]
  BY <1>1, <1>3, <1>4 DEF Lists
<1>9. ASSUME NEW i \in T
      PROVE  prev'[e[i]] = IF i = stack'.size THEN NULL ELSE e[i + 1]
  <2>1. CASE i = 1
    BY <1>1, <1>3, <1>4, <1>7, <2>1 DEF Lists
  <2>2. CASE i # 1
    <3>1. i - 1 \in S /\ e[i] = c[i - 1]
      BY <1>4, <2>2
    <3>2. prev'[e[i]] = IF i - 1 = stack.size THEN NULL ELSE c[(i - 1) + 1]
      BY <1>7, <3>1 DEF Lists
    <3>3. i # stack.size + 1 => i + 1 \in T /\ e[i + 1] = c[i]
      <4>1. i # stack.size + 1 => i + 1 \in T /\ i + 1 # 1 /\ (i + 1) - 1 = i
        BY <1>3
      <4> QED
        BY <1>4, <4>1
    <3> QED
      BY <1>1, <1>3, <3>2, <3>3
  <2> QED
    BY <2>1, <2>2
<1>10. \A i \in T : e[i] \in used' /\ data'[e[i]] \in used'
  BY <1>4, <1>7 DEF Lists
<1>11. ASSUME NEW i \in T, NEW j \in T
       PROVE  e[i] # data'[e[j]] /\ (i # j => e[i] # e[j] /\ data'[e[i]] # data'[e[j]])
  <2>1. n # d
    OBVIOUS
  <2>2. CASE i = 1 \/ j = 1
    BY <1>3, <1>4, <1>6, <1>7, <2>1, <2>2
  <2>3. CASE i # 1 /\ j # 1
    <3>1. i - 1 \in S /\ j - 1 \in S /\ e[i] = c[i - 1] /\ e[j] = c[j - 1]
      BY <1>4, <2>3
    <3>2. i # j => i - 1 # j - 1
      OBVIOUS
    <3> QED
      BY <1>7, <3>1, <3>2 DEF Lists
  <2> QED
    BY <2>2, <2>3
<1>12. Lists(e)'
  BY <1>1, <1>3, <1>4, <1>5, <1>8, <1>9, <1>10, <1>11 DEF Lists
<1> QED
  BY <1>2, <1>12 DEF Pushed

(* What stackPop leaves is the list without its first node; it pops        *)
(* nothing from an empty one.                                              *)
LEMMA PopIsListed ==
    ASSUME NEW c, Lists(c), TypeOK, stackPop
    PROVE  \/ /\ stack.size = 0 /\ UNCHANGED <<stack, heap>>
           \/ /\ stack.size # 0 /\ UNCHANGED <<prev, data, int>> /\ used' = used \ {c[1]}
              /\ stack.top = c[1]
              /\ \E e : /\ e = [i \in 1..(stack.size - 1) |-> c[i + 1]]
                       /\ Lists(e)'
<1> DEFINE S == 1..stack.size
           T == 1..(stack.size - 1)
<1>1. stack.size \in Nat /\ c \in [S -> Addr]
  BY DEF Lists
<1>2. stack.top = NULL <=> stack.size = 0
  BY <1>1, NullAssumption DEF Lists
<1>3. CASE stack.size = 0
  BY <1>2, <1>3 DEF stackPop
<1>4. CASE stack.size # 0
  <2>1. /\ stack' = [stack EXCEPT !.top = prev[stack.top], !.size = stack.size - 1]
        /\ used' = used \ {stack.top} /\ UNCHANGED <<prev, data, int>>
    BY <1>2, <1>4 DEF stackPop, HeapFree
  <2>2. stack.top = c[1] /\ 1 \in S
    BY <1>1, <1>4 DEF Lists
  <2>3. prev[c[1]] = IF 1 = stack.size THEN NULL ELSE c[2]
    BY <2>2 DEF Lists
  <2>4. PICK e : e = [i \in T |-> c[i + 1]]
    OBVIOUS
  <2>5. /\ stack'.size = stack.size - 1 /\ stack'.top = prev[stack.top]
        /\ stack'.bottom = stack.bottom
    BY <2>1 DEF TypeOK
  <2>6. \A i \in T : i + 1 \in S /\ e[i] = c[i + 1] /\ i + 1 # 1
    BY <1>1, <2>4
  <2>7. e \in [T -> Addr]
    BY <1>1, <2>4, <2>6
  <2>8. stack'.top = IF stack'.size = 0 THEN NULL ELSE e[1]
    BY <1>1, <1>4, <2>2, <2>3, <2>5, <2>6
  <2>9. stack'.size # 0 => stack'.bottom = e[stack'.size]
    BY <1>1, <1>4, <2>5, <2>6 DEF Lists
  <2>10. ASSUME NEW i \in T
         PROVE  prev[e[i]] = IF i = stack'.size THEN NULL ELSE e[i + 1]
    <3>1. prev[e[i]] = IF i + 1 = stack.size THEN NULL ELSE c[(i + 1) + 1]
      BY <2>6 DEF Lists
    <3>2. i # stack.size - 1 => i + 1 \in T
      BY <1>1
    <3> QED
      BY <1>1, <2>5, <2>6, <3>1, <3>2
  <2>11. ASSUME NEW i \in T
         PROVE  e[i] \in used' /\ data[e[i]] \in used'
    <3>1. c[i + 1] # c[1] /\ c[1] # data[c[i + 1]] /\ c[i + 1] \in used /\ data[c[i + 1]] \in used
      BY <2>2, <2>6 DEF Lists
    <3> QED
      BY <2>1, <2>2, <2>6, <3>1
  <2>12. ASSUME NEW i \in T, NEW j \in T
         PROVE  e[i] # data[e[j]] /\ (i # j => e[i] # e[j] /\ data[e[i]] # data[e[j]])
    <3>1. i # j => i + 1 # j + 1
      OBVIOUS
    <3> QED
      BY <2>6, <3>1 DEF Lists
  <2>13. stack'.size \in Nat /\ 1..stack'.size = T
    BY <1>1, <1>4, <2>5
  <2>14. Lists(e)'
    BY <2>1, <2>7, <2>8, <2>9, <2>10, <2>11, <2>12, <2>13 DEF Lists
  <2> QED
    BY <1>4, <2>1, <2>2, <2>4, <2>14
<1> QED
  BY <1>3, <1>4

(* All that happens to the stack: it is emptied, or a request is served.   *)
LEMMA ServerMoves ==
    ASSUME TypeOK, [Next]_vars
    PROVE  \/ UNCHANGED <<stack, heap, shown>>
           \/ /\ stack' = emptyStack /\ used' \subseteq used
              /\ UNCHANGED <<prev, data, int, shown>>
           \/ \E op, v : Serve(op, v) /\ (op = STACKPUSH => v \in Vals \cup {0})
<1>1. ASSUME NEW how, Ends(how)
      PROVE  \/ UNCHANGED <<stack, heap, shown>>
             \/ /\ stack' = emptyStack /\ used' \subseteq used
                /\ UNCHANGED <<prev, data, int, shown>>
  BY <1>1 DEF Ends, stackClear, heap
<1>2. CASE CreatePipe \/ ConnectPipe \/ PipeConnected \/ ReadFails \/ WriteAnswer
  BY <1>1, <1>2 DEF CreatePipe, ConnectPipe, PipeConnected, ReadFails, WriteAnswer
<1>3. CASE ReadHello
  BY <1>1, <1>3 DEF ReadHello, heap
<1>4. CASE ReadRequest
  <2>1. toServer # << >> /\ Head(toServer) \in {HELLO} \cup Requests
    BY <1>4, HeadTailProperties DEF ReadRequest, TypeOK
  <2>2. Head(toServer)[1] = STACKPUSH => Head(toServer)[2] \in Vals \cup {0}
    BY <2>1 DEF HELLO, STACKPUSH, Requests
  <2>3. \/ Ends("stopped")
        \/ Serve(Head(toServer)[1], Head(toServer)[2])
    BY <1>4 DEF ReadRequest
  <2> QED
    BY <1>1, <2>2, <2>3
<1>5. CASE ClientJob \/ InputEnds \/ MainReturns \/ UNCHANGED vars
  BY <1>5 DEF ClientJob, OpenPipe, Greet, SendRequest, Writes, ReadCommand, ReadValue, ReadAnswer,
              InputEnds, MainReturns, ClientFrame, server, vars
<1> QED
  BY <1>2, <1>3, <1>4, <1>5 DEF Next, ServerJob

(* The types of the stack and of the heap. *)
HeapTyped ==
    /\ stack \in [bottom : Addr \cup {NULL}, top : Addr \cup {NULL}, size : Nat]
    /\ used \subseteq Addr
    /\ prev \in [Addr -> Addr \cup {NULL}] /\ data \in [Addr -> Addr \cup {NULL}]
    /\ int \in [Addr -> Vals \cup {0}]

(* An integer without its node is lost; with it, it is on the stack.       *)
LEMMA PushMoves ==
    ASSUME TypeOK, NEW v, stackPushInt(v)
    PROVE  \/ UNCHANGED <<stack, heap>> /\ shown' = <<"refused", << >>>>
           \/ \E d \in Addr \ used :
                /\ int' = [int EXCEPT ![d] = v] /\ used' = used \cup {d}
                /\ UNCHANGED <<stack, prev, data>> /\ shown' = <<"refused", << >>>>
           \/ \E d \in Addr \ used : \E n \in Addr \ (used \cup {d}) :
                /\ int' = [int EXCEPT ![d] = v] /\ used' = used \cup {d, n}
                /\ data' = [data EXCEPT ![n] = d] /\ stackPush(n)
                /\ shown' = <<"push", <<v>>>>
<1> SUFFICES ASSUME NEW d \in Addr \ used, NEW n \in Addr \ (used \cup {d}),
                    int' = [int EXCEPT ![d] = v], data' = [data EXCEPT ![n] = d], stackPush(n),
                    shown' = <<"push", <<stackPeekInt'>>>>
             PROVE  shown' = <<"push", <<v>>>>
  BY DEF stackPushInt
<1>1. stack'.top = n /\ n # NULL
  BY NullAssumption DEF stackPush
<1>2. data'[n] = d /\ int'[d] = v
  BY DEF TypeOK
<1> QED
  BY <1>1, <1>2 DEF stackPeekInt

(* The stack and the heap keep their shape in every step.                  *)
LEMMA HeapStep ==
    ASSUME TypeOK, Linked, [Next]_vars
    PROVE  HeapTyped' /\ Linked'
<1>1. HeapTyped
  BY DEF TypeOK, HeapTyped
<1>2. PICK c : Lists(c)
  BY DEF Linked
<1>3. CASE UNCHANGED <<stack, heap>>
  BY <1>1, <1>2, <1>3 DEF HeapTyped, Linked, Lists, heap
<1>4. CASE /\ stack' = emptyStack /\ used' \subseteq used
           /\ UNCHANGED <<prev, data, int>>
  BY <1>1, <1>4, NothingListed DEF HeapTyped, Linked, emptyStack
<1>5. ASSUME NEW v \in Vals \cup {0}, stackPushInt(v)
      PROVE  HeapTyped' /\ Linked'
  <2>1. CASE \E d \in Addr \ used :
               /\ int' = [int EXCEPT ![d] = v] /\ used' = used \cup {d}
               /\ UNCHANGED <<stack, prev, data>>
    BY <1>1, <1>2, <2>1 DEF HeapTyped, Linked, Lists
  <2>2. CASE \E d \in Addr \ used : \E n \in Addr \ (used \cup {d}) :
               /\ int' = [int EXCEPT ![d] = v] /\ used' = used \cup {d, n}
               /\ data' = [data EXCEPT ![n] = d] /\ stackPush(n)
    <3>0. PICK d \in Addr \ used : \E n \in Addr \ (used \cup {d}) :
               /\ int' = [int EXCEPT ![d] = v] /\ used' = used \cup {d, n}
               /\ data' = [data EXCEPT ![n] = d] /\ stackPush(n)
      BY <2>2
    <3>1. PICK n \in Addr \ (used \cup {d}) :
               /\ int' = [int EXCEPT ![d] = v] /\ used' = used \cup {d, n}
               /\ data' = [data EXCEPT ![n] = d] /\ stackPush(n)
      BY <3>0
    <3>2. Linked'
      BY <1>2, <3>1, PushIsListed DEF Linked
    <3>3. HeapTyped'
      BY <1>1, <3>1 DEF HeapTyped, stackPush
    <3> QED
      BY <3>2, <3>3
  <2> QED
    BY <1>3, <1>5, <2>1, <2>2, PushMoves
<1>6. CASE stackPop
  <2>1. CASE UNCHANGED <<stack, heap>>
    BY <1>3, <2>1
  <2>2. CASE /\ stack.size # 0 /\ UNCHANGED <<prev, data, int>> /\ used' = used \ {c[1]}
             /\ \E e : Lists(e)'
    <3>1. stack' = [stack EXCEPT !.top = prev[stack.top], !.size = @ - 1] /\ stack.top # NULL
      <4>1. stack.top # NULL
        BY <1>2, <2>2, NullAssumption DEF Lists
      <4> QED
        BY <1>6, <4>1 DEF stackPop
    <3>2. stack.top \in Addr /\ stack.size \in Nat /\ stack.size - 1 \in Nat
      BY <1>1, <2>2, <3>1 DEF HeapTyped
    <3>3. prev[stack.top] \in Addr \cup {NULL}
      BY <1>1, <3>2 DEF HeapTyped
    <3>4. stack' \in [bottom : Addr \cup {NULL}, top : Addr \cup {NULL}, size : Nat]
      BY <1>1, <3>1, <3>2, <3>3 DEF HeapTyped
    <3>5. HeapTyped'
      BY <1>1, <2>2, <3>4 DEF HeapTyped
    <3> QED
      BY <2>2, <3>5 DEF Linked
  <2> QED
    BY <1>2, <1>6, <2>1, <2>2, PopIsListed
<1>7. ASSUME NEW op, NEW v, Serve(op, v), op = STACKPUSH => v \in Vals \cup {0}
      PROVE  \/ UNCHANGED <<stack, heap>>
             \/ v \in Vals \cup {0} /\ stackPushInt(v)
             \/ stackPop
             \/ stack' = emptyStack /\ used' \subseteq used /\ UNCHANGED <<prev, data, int>>
  BY <1>7 DEF Serve, stackClear
<1> QED
  BY <1>3, <1>4, <1>5, <1>6, <1>7, ServerMoves

(* Every step of the threads keeps the other types. *)
LEMMA ThreadsTyped ==
    ASSUME TypeOK, [Next]_vars, HeapTyped'
    PROVE  TypeOK'
<1> DEFINE Places == {"start", "created", "listening", "hello"} \cup Serving \cup Gone
<1>1. spc' \in Places /\ process' \in {"alive", "exited"}
  <2>1. ASSUME NEW how \in Gone, Ends(how) PROVE spc' \in Places
    BY <2>1 DEF Ends
  <2>2. CASE CreatePipe \/ ConnectPipe \/ PipeConnected
    BY <2>1, <2>2 DEF CreatePipe, ConnectPipe, PipeConnected, TypeOK, ServerFrame, Gone
  <2>3. CASE ReadHello \/ ReadRequest
    BY <2>1, <2>3 DEF ReadHello, ReadRequest, TypeOK, ServerFrame, Gone, Serving
  <2>4. CASE ReadFails \/ WriteAnswer
    BY <2>1, <2>4 DEF ReadFails, WriteAnswer, TypeOK, ServerFrame, Gone, Serving
  <2>5. CASE ClientJob \/ InputEnds \/ MainReturns \/ UNCHANGED vars
    BY <2>5 DEF ClientJob, OpenPipe, Greet, SendRequest, Writes, ReadCommand, ReadValue, ReadAnswer,
              InputEnds, MainReturns, ClientFrame, server, vars, TypeOK
  <2> QED
    BY <2>2, <2>3, <2>4, <2>5 DEF Next, ServerJob
<1>2. cpc' \in {"sleep", "greet", "command", "value", "send", "await", "gone"}
  <2>1. CASE ServerJob \/ InputEnds \/ MainReturns \/ UNCHANGED vars
    BY <2>1 DEF ServerJob, CreatePipe, ConnectPipe, PipeConnected, ReadHello, ReadRequest, ReadFails,
                WriteAnswer, ServerFrame, InputEnds, MainReturns, vars, TypeOK
  <2>2. CASE ClientJob
    BY <2>2 DEF ClientJob, OpenPipe, Greet, SendRequest, Writes, ReadCommand, ReadValue, ReadAnswer,
                Obey, exitSends, afterSend, afterWord
  <2> QED
    BY <2>1, <2>2 DEF Next
<1>3. toServer' \in Seq({HELLO} \cup Requests)
  <2>1. CASE toServer' = toServer
    BY <2>1 DEF TypeOK
  <2>2. CASE toServer # << >> /\ toServer' = Tail(toServer)
    BY <2>2, HeadTailProperties DEF TypeOK
  <2>3. CASE \E r \in {HELLO} \cup Requests : toServer' = Append(toServer, r)
    BY <2>3, AppendProperties DEF TypeOK
  <2>4. CASE ServerJob
    BY <2>1, <2>2, <2>4 DEF ServerJob, CreatePipe, ConnectPipe, PipeConnected, ReadHello, ReadRequest,
                            ReadFails, WriteAnswer
  <2>5. CASE Greet \/ SendRequest
    BY <2>1, <2>3, <2>5 DEF Greet, SendRequest, Writes, TypeOK
  <2>6. CASE OpenPipe \/ ReadCommand \/ ReadValue \/ ReadAnswer \/ InputEnds \/ MainReturns \/ UNCHANGED vars
    BY <2>1, <2>6 DEF OpenPipe, ReadCommand, ReadValue, ReadAnswer, InputEnds, MainReturns, vars
  <2> QED
    BY <2>4, <2>5, <2>6 DEF Next, ClientJob
<1>4. toClient' \in Seq({1})
  <2>1. CASE toClient' = toClient
    BY <2>1 DEF TypeOK
  <2>2. CASE toClient # << >> /\ toClient' = Tail(toClient)
    BY <2>2, HeadTailProperties DEF TypeOK
  <2>3. CASE toClient' = Append(toClient, 1)
    BY <2>3, AppendProperties DEF TypeOK
  <2>4. CASE ServerJob
    BY <2>1, <2>3, <2>4 DEF ServerJob, CreatePipe, ConnectPipe, PipeConnected, ReadHello, ReadRequest,
                            ReadFails, WriteAnswer
  <2>5. CASE ReadAnswer
    BY <2>1, <2>2, <2>5 DEF ReadAnswer
  <2>6. CASE OpenPipe \/ ReadCommand \/ ReadValue \/ Greet \/ SendRequest \/ InputEnds \/ MainReturns \/ UNCHANGED vars
    BY <2>1, <2>6 DEF OpenPipe, ReadCommand, ReadValue, Greet, SendRequest, Writes, InputEnds, MainReturns, vars
  <2> QED
    BY <2>4, <2>5, <2>6 DEF Next, ClientJob
<1>5. ended' \in BOOLEAN
  <2>1. CASE UNCHANGED input
    BY <2>1, Zenon DEF TypeOK, input
  <2>2. CASE UNCHANGED ended
    BY <2>2, Zenon DEF TypeOK
  <2>3. CASE ServerJob
    BY <2>1, <2>3 DEF ServerJob, CreatePipe, ConnectPipe, PipeConnected, ReadHello, ReadRequest,
                            ReadFails, WriteAnswer, ServerFrame
  <2>4. CASE OpenPipe \/ Greet \/ SendRequest \/ ReadAnswer \/ MainReturns \/ UNCHANGED vars
    BY <2>1, <2>4 DEF OpenPipe, Greet, SendRequest, Writes, ReadAnswer, MainReturns, vars
  <2>5. CASE ReadCommand \/ ReadValue
    BY <2>2, <2>5 DEF ReadCommand, ReadValue
  <2>6. CASE InputEnds
    BY <2>6, Zenon DEF InputEnds
  <2> QED
    BY <2>3, <2>4, <2>5, <2>6 DEF Next, ClientJob
<1>6. /\ unread' \in Words \cup {NONE} /\ inputBuffer' \in Words
      /\ requestBuffer' \in Requests
  <2>1. CASE UNCHANGED <<unread, inputBuffer, requestBuffer>>
    BY <2>1 DEF TypeOK
  <2>2. ASSUME NEW w \in Words, Obey(w)
        PROVE  inputBuffer' \in Words /\ requestBuffer' \in Requests
    <3>1. requestBuffer[2] \in Vals \cup {0} /\ requestBuffer \in Requests
      BY DEF TypeOK, Requests
    <3>2. \A x \in DOMAIN Simple : Simple[x] \in SERVERHELP..STACKDISPLAY
      BY DEF Simple, STACKPEEK, STACKPOP, STACKNEW, STACKSIZE, STACKISEMPTY, STACKDISPLAY, SERVERHELP
    <3>3. STACKPUSH \in SERVERHELP..STACKDISPLAY /\ SERVEREXIT \in SERVERHELP..STACKDISPLAY
      BY DEF STACKPUSH, SERVEREXIT, SERVERHELP, STACKDISPLAY
    <3>4. requestBuffer' = requestBuffer
          \/ \E op \in SERVERHELP..STACKDISPLAY : requestBuffer' = <<op, requestBuffer[2]>>
      BY <2>2, <3>2, <3>3 DEF Obey
    <3> QED
      BY <2>2, <3>1, <3>4 DEF Obey, Requests
  <2>3. CASE ReadCommand
    <3>1. unread # NONE => unread \in Words
      BY DEF TypeOK
    <3>2. \E w \in Words : Obey(w)
      BY <2>3, <3>1 DEF ReadCommand, TypeOK
    <3>3. unread' \in Words \cup {NONE}
      BY <2>3 DEF ReadCommand, TypeOK
    <3> QED
      BY <2>2, <3>2, <3>3
  <2>4. CASE ReadValue
    <3>1. requestBuffer[2] \in Vals \cup {0}
      BY DEF TypeOK, Requests
    <3>2. STACKPUSH \in SERVERHELP..STACKDISPLAY
      BY DEF STACKPUSH, SERVERHELP, STACKDISPLAY
    <3> QED
      BY <2>4, <3>1, <3>2 DEF ReadValue, TypeOK, Requests, valueAtEnd
  <2>5. CASE ServerJob
    BY <2>1, <2>5 DEF ServerJob, CreatePipe, ConnectPipe, PipeConnected, ReadHello, ReadRequest,
                            ReadFails, WriteAnswer, ServerFrame, input
  <2>6. CASE OpenPipe \/ Greet \/ SendRequest \/ ReadAnswer \/ InputEnds \/ MainReturns \/ UNCHANGED vars
    BY <2>1, <2>6 DEF OpenPipe, Greet, SendRequest, Writes, ReadAnswer, InputEnds, MainReturns, vars, input
  <2> QED
    BY <2>3, <2>4, <2>5, <2>6 DEF Next, ClientJob
<1> QED
  BY <1>1, <1>2, <1>3, <1>4, <1>5, <1>6 DEF TypeOK, HeapTyped

(* The inductive invariant of the heap. *)
HeapInv == TypeOK /\ Linked

(* Always some list of nodes stands behind the stack of ServerJob, whatever *)
(* is pushed, popped, cleared or refused by the heap.                      *)
THEOREM StackInvariance == Spec => []HeapInv
<1>1. Init => HeapInv
  <2> SUFFICES ASSUME Init PROVE HeapInv
    OBVIOUS
  <2>1. TypeOK
    <3>1. ended \in BOOLEAN
      BY Zenon DEF Init
    <3>2. HeapTyped
      BY DEF Init, HeapTyped, emptyStack
    <3>3. /\ process \in {"alive", "exited"} /\ spc = "start" /\ cpc = "sleep"
          /\ toServer \in Seq({HELLO} \cup Requests) /\ toClient \in Seq({1})
      BY EmptySeq DEF Init
    <3>4. unread \in Words \cup {NONE} /\ inputBuffer \in Words /\ requestBuffer \in Requests
      BY DEF Init, Words, Requests, SERVERHELP, STACKDISPLAY
    <3> QED
      BY <3>1, <3>2, <3>3, <3>4 DEF TypeOK, HeapTyped
  <2>2. Lists(<< >>)
    <3>1. stack.size = 0 /\ stack.top = NULL
      BY DEF Init, emptyStack
    <3> QED
      BY <3>1 DEF Lists
  <2> QED
    BY <2>1, <2>2 DEF HeapInv, Linked
<1>2. HeapInv /\ [Next]_vars => HeapInv'
  BY HeapStep, ThreadsTyped DEF HeapInv
<1> QED
  BY <1>1, <1>2, PTL DEF Spec

(* Every variable of the two threads keeps its type. *)
THEOREM Typing == Spec => []TypeOK
<1>1. HeapInv => TypeOK
  BY DEF HeapInv
<1> QED
  BY <1>1, StackInvariance, PTL

(* The size of the stack is the number of its nodes, which are in use with  *)
(* their integers and end at the bottom (stackPush, stackPop, stackClear). *)
THEOREM Shape == Spec => []WellStacked
<1>1. HeapInv => WellStacked
  BY ListedIsWell DEF HeapInv, Linked
<1> QED
  BY <1>1, StackInvariance, PTL

-----------------------------------------------------------------------------
(* The contract                                                            *)

(* The contents, read off the list: the last of them is on top. *)
LEMMA ContentsOf ==
    \A c : HeapTyped /\ Lists(c) =>
        /\ contents \in Seq(Vals \cup {0}) /\ Len(contents) = stack.size
        /\ DOMAIN contents = 1..stack.size
        /\ \A i \in 1..stack.size : contents[i] = int[data[c[stack.size + 1 - i]]]
<1> SUFFICES ASSUME NEW c, HeapTyped, Lists(c)
             PROVE  /\ contents \in Seq(Vals \cup {0}) /\ Len(contents) = stack.size
                    /\ DOMAIN contents = 1..stack.size
                    /\ \A i \in 1..stack.size : contents[i] = int[data[c[stack.size + 1 - i]]]
  OBVIOUS
<1> DEFINE S == 1..stack.size
           V == Vals \cup {0}
<1>1. nodes = c /\ Len(nodes) = stack.size /\ DOMAIN nodes = S /\ stack.size \in Nat
  BY NodesAreListed DEF Lists
<1>2. contents = [i \in S |-> int[data[c[stack.size + 1 - i]]]]
  BY <1>1 DEF contents
<1>3. ASSUME NEW i \in S
      PROVE  int[data[c[stack.size + 1 - i]]] \in V
  <2>1. stack.size + 1 - i \in S
    BY <1>1
  <2>2. data[c[stack.size + 1 - i]] \in Addr
    BY <2>1 DEF Lists, HeapTyped
  <2> QED
    BY <2>2 DEF HeapTyped
<1>4. contents \in [S -> V]
  <2> HIDE DEF V
  <2> QED
    BY <1>2, <1>3
<1>5. contents \in Seq(V)
  <2> HIDE DEF V
  <2> QED
    BY <1>1, <1>4, SeqDef
<1>6. Len(contents) = stack.size
  <2> HIDE DEF V
  <2> QED
    BY <1>1, <1>4, <1>5, LenProperties
<1> QED
  BY <1>2, <1>4, <1>5, <1>6

(* The same after a step. *)
LEMMA ContentsAfter ==
    \A c : HeapTyped' /\ Lists(c)' =>
        /\ contents' \in Seq(Vals \cup {0}) /\ Len(contents') = stack'.size
        /\ DOMAIN contents' = 1..stack'.size
        /\ \A i \in 1..stack'.size : contents'[i] = int'[data'[c[stack'.size + 1 - i]]]
<1>1. (\A c : HeapTyped /\ Lists(c) =>
        /\ contents \in Seq(Vals \cup {0}) /\ Len(contents) = stack.size
        /\ DOMAIN contents = 1..stack.size
        /\ \A i \in 1..stack.size : contents[i] = int[data[c[stack.size + 1 - i]]])'
  BY ContentsOf, PTL
<1> QED
  BY <1>1

(* The integers that are listed are not changed by a block out of use.     *)
LEMMA SameContents ==
    ASSUME HeapInv, HeapInv', stack' = stack, UNCHANGED <<prev, data>>, used \subseteq used',
           \A a \in used : int'[a] = int[a]
    PROVE  contents' = contents
<1>1. HeapTyped /\ HeapTyped' /\ Linked
  BY DEF HeapInv, TypeOK, HeapTyped
<1>2. PICK c : Lists(c)
  BY <1>1 DEF Linked
<1>3. Lists(c)'
  BY <1>2 DEF Lists
<1> DEFINE V == Vals \cup {0}
<1>4. /\ contents \in Seq(V) /\ Len(contents) = stack.size
      /\ \A i \in 1..stack.size : contents[i] = int[data[c[stack.size + 1 - i]]]
  BY <1>1, <1>2, ContentsOf
<1>5. /\ contents' \in Seq(V) /\ Len(contents') = stack.size
      /\ \A i \in 1..stack.size : contents'[i] = int'[data[c[stack.size + 1 - i]]]
  <2>1. /\ contents' \in Seq(V) /\ Len(contents') = stack'.size
        /\ \A i \in 1..stack'.size : contents'[i] = int'[data'[c[stack'.size + 1 - i]]]
    BY <1>1, <1>3, ContentsAfter
  <2> QED
    BY <2>1
<1>6. \A i \in 1..stack.size : data[c[stack.size + 1 - i]] \in used
  <2> TAKE i \in 1..stack.size
  <2>1. stack.size + 1 - i \in 1..stack.size
    BY <1>2 DEF Lists
  <2> QED
    BY <1>2, <2>1 DEF Lists
<1>7. \A i \in 1..Len(contents) : contents'[i] = contents[i]
  BY <1>4, <1>5, <1>6
<1> HIDE DEF V
<1> QED
  BY <1>4, <1>5, <1>7, SeqEqual

(* An empty stack has no contents. *)
LEMMA Emptied ==
    ASSUME HeapInv', stack' = emptyStack
    PROVE  contents' = << >>
<1>1. HeapTyped'
  BY DEF HeapInv, TypeOK, HeapTyped
<1>2. PICK e : e = << >> /\ Lists(e)'
  BY NothingListed
<1>3. contents' \in Seq(Vals \cup {0}) /\ Len(contents') = stack'.size
  BY <1>1, <1>2, ContentsAfter
<1>4. stack'.size = 0
  BY DEF emptyStack
<1> QED
  BY <1>3, <1>4, EmptySeq, SeqEqual

(* The value on top is the last of the contents. *)
LEMMA TopIsLast ==
    ASSUME HeapInv
    PROVE  stackPeekInt = Contract!topValue
<1>1. HeapTyped /\ Linked
  BY DEF HeapInv, TypeOK, HeapTyped
<1>2. PICK c : Lists(c)
  BY <1>1 DEF Linked
<1>3. /\ contents \in Seq(Vals \cup {0}) /\ Len(contents) = stack.size
      /\ \A i \in 1..stack.size : contents[i] = int[data[c[stack.size + 1 - i]]]
  BY <1>1, <1>2, ContentsOf
<1>4. contents = << >> <=> stack.size = 0
  BY <1>3, EmptySeq
<1>5. stack.top = NULL <=> stack.size = 0
  BY <1>2, NullAssumption DEF Lists
<1>6. CASE stack.size = 0
  BY <1>4, <1>5, <1>6 DEF stackPeekInt, Contract!topValue, Contract!EMPTY
<1>7. CASE stack.size # 0
  <2>1. stack.size \in 1..stack.size /\ stack.size + 1 - stack.size = 1 /\ stack.top = c[1]
    BY <1>2, <1>7 DEF Lists
  <2>2. contents[Len(contents)] = int[data[stack.top]]
    BY <1>3, <2>1
  <2> QED
    BY <1>4, <1>5, <1>7, <2>2 DEF stackPeekInt, Contract!topValue, Contract!Last
<1> QED
  BY <1>6, <1>7

(* A pop takes the last of the contents. *)
LEMMA PopImplements ==
    ASSUME HeapInv, HeapInv', stackPop
    PROVE  IF contents = << >> THEN contents' = contents ELSE contents' = Contract!Front(contents)
<1>1. HeapTyped /\ HeapTyped' /\ Linked /\ TypeOK
  BY DEF HeapInv, TypeOK, HeapTyped
<1>2. PICK c : Lists(c)
  BY <1>1 DEF Linked
<1> DEFINE V == Vals \cup {0}
<1>3. /\ contents \in Seq(V) /\ Len(contents) = stack.size
      /\ \A i \in 1..stack.size : contents[i] = int[data[c[stack.size + 1 - i]]]
  BY <1>1, <1>2, ContentsOf
<1>4. contents = << >> <=> stack.size = 0
  BY <1>3, EmptySeq
<1>5. CASE stack.size = 0
  <2>1. UNCHANGED <<stack, heap>>
    BY <1>1, <1>2, <1>5, PopIsListed
  <2>2. contents' = contents
    BY <2>1, SameContents DEF heap
  <2> QED
    BY <1>4, <1>5, <2>2
<1>6. CASE stack.size # 0
  <2>1. /\ UNCHANGED <<prev, data, int>> /\ used' = used \ {c[1]} /\ stack.top = c[1]
        /\ \E e : e = [i \in 1..(stack.size - 1) |-> c[i + 1]] /\ Lists(e)'
    BY <1>1, <1>2, <1>6, PopIsListed
  <2>2. PICK e : e = [i \in 1..(stack.size - 1) |-> c[i + 1]] /\ Lists(e)'
    BY <2>1
  <2>3. /\ contents' \in Seq(V) /\ Len(contents') = stack'.size
        /\ \A i \in 1..stack'.size : contents'[i] = int'[data'[e[stack'.size + 1 - i]]]
    BY <1>1, <2>2, ContentsAfter
  <2>4. stack'.size = stack.size - 1 /\ stack.size \in Nat
    <3>1. stack.top # NULL
      BY <1>2, <1>6, <2>1, NullAssumption DEF Lists
    <3> QED
      BY <1>1, <3>1 DEF stackPop, HeapTyped
  <2>5. \A i \in 1..(stack.size - 1) : contents'[i] = contents[i]
    <3> TAKE i \in 1..(stack.size - 1)
    <3>1. /\ stack.size - i \in 1..(stack.size - 1) /\ i \in 1..stack.size
          /\ stack'.size + 1 - i = stack.size - i /\ (stack.size - i) + 1 = stack.size + 1 - i
      BY <2>4
    <3>2. e[stack.size - i] = c[stack.size + 1 - i]
      BY <2>2, <3>1
    <3>3. i \in 1..stack'.size /\ int' = int /\ data' = data
      BY <2>1, <2>4
    <3>4. contents'[i] = int[data[e[stack.size - i]]]
      <4> HIDE DEF V
      <4> QED
        BY <2>3, <3>1, <3>3
    <3>5. contents[i] = int[data[c[stack.size + 1 - i]]]
      <4> HIDE DEF V
      <4> QED
        BY <1>3, <3>1
    <3> QED
      BY <3>2, <3>4, <3>5
  <2> DEFINE f == SubSeq(contents, 1, stack.size - 1)
  <2>6. f \in Seq(V) /\ Len(f) = stack.size - 1 /\ \A i \in 1..(stack.size - 1) : f[i] = contents[i]
    <3> HIDE DEF V
    <3>0. \A i \in 1..Len(contents) : contents[i] \in V
      BY <1>3, ElementOfSeq
    <3>1. /\ \A i \in 1..(stack.size - 1) : contents[i] \in V
          /\ 1 \in Int /\ stack.size - 1 \in Int
      BY <1>3, <1>6, <2>4, <3>0
    <3>2. /\ f \in Seq(V)
          /\ Len(f) = IF 1 <= stack.size - 1 THEN (stack.size - 1) - 1 + 1 ELSE 0
          /\ \A i \in 1..((stack.size - 1) - 1 + 1) : f[i] = contents[1 + i - 1]
      BY <1>3, <3>1, SubSeqProperties
    <3> QED
      BY <1>6, <2>4, <3>2
  <2>7. contents' = f
    <3> HIDE DEF f, V
    <3>1. Len(contents') = Len(f) /\ \A i \in 1..Len(f) : contents'[i] = f[i]
      BY <2>3, <2>4, <2>5, <2>6
    <3> QED
      BY <2>3, <2>6, <3>1, SeqEqual
  <2>8. Contract!Front(contents) = f
    BY <1>3 DEF Contract!Front
  <2> QED
    BY <1>4, <1>6, <2>7, <2>8
<1> QED
  BY <1>5, <1>6

(* A push adds its value at the end of the contents, or is refused.        *)
LEMMA PushImplements ==
    ASSUME HeapInv, HeapInv', NEW v \in Vals \cup {0}, stackPushInt(v)
    PROVE  \/ contents' = Append(contents, v) /\ shown' = <<"push", <<v>>>>
           \/ contents' = contents /\ shown' = <<"refused", << >>>>
<1>1. HeapTyped /\ HeapTyped' /\ Linked /\ TypeOK
  BY DEF HeapInv, TypeOK, HeapTyped
<1>2. CASE UNCHANGED <<stack, heap>> /\ shown' = <<"refused", << >>>>
  BY <1>2, SameContents DEF heap
<1>3. CASE \E d \in Addr \ used :
             /\ int' = [int EXCEPT ![d] = v] /\ used' = used \cup {d}
             /\ UNCHANGED <<stack, prev, data>> /\ shown' = <<"refused", << >>>>
  <2>1. \A a \in used : int'[a] = int[a]
    BY <1>1, <1>3 DEF HeapTyped
  <2> QED
    BY <1>3, <2>1, SameContents
<1>4. CASE \E d \in Addr \ used : \E n \in Addr \ (used \cup {d}) :
             /\ int' = [int EXCEPT ![d] = v] /\ used' = used \cup {d, n}
             /\ data' = [data EXCEPT ![n] = d] /\ stackPush(n)
             /\ shown' = <<"push", <<v>>>>
  <2>1. PICK d \in Addr \ used : \E n \in Addr \ (used \cup {d}) :
             /\ int' = [int EXCEPT ![d] = v] /\ used' = used \cup {d, n}
             /\ data' = [data EXCEPT ![n] = d] /\ stackPush(n)
             /\ shown' = <<"push", <<v>>>>
    BY <1>4
  <2>2. PICK n \in Addr \ (used \cup {d}) :
             /\ int' = [int EXCEPT ![d] = v] /\ used' = used \cup {d, n}
             /\ data' = [data EXCEPT ![n] = d] /\ stackPush(n)
             /\ shown' = <<"push", <<v>>>>
    BY <2>1
  <2>3. PICK c : Lists(c)
    BY <1>1 DEF Linked
  <2>4. PICK e : e = Pushed(c, n) /\ Lists(e)'
    <3>1. used' = used \cup {d, n} /\ data' = [data EXCEPT ![n] = d] /\ stackPush(n)
      BY <2>2
    <3>2. TypeOK /\ Lists(c)
      BY <1>1, <2>3
    <3>3. \E e : e = Pushed(c, n) /\ Lists(e)'
      BY <3>1, <3>2, PushIsListed, Zenon
    <3> QED
      BY <3>3
  <2> DEFINE V == Vals \cup {0}
             f == Append(contents, v)
  <2>5. /\ contents \in Seq(V) /\ Len(contents) = stack.size
        /\ \A i \in 1..stack.size : contents[i] = int[data[c[stack.size + 1 - i]]]
    BY <1>1, <2>3, ContentsOf
  <2>6. /\ contents' \in Seq(V) /\ Len(contents') = stack'.size
        /\ \A i \in 1..stack'.size : contents'[i] = int'[data'[e[stack'.size + 1 - i]]]
    BY <1>1, <2>4, ContentsAfter
  <2>7. stack'.size = stack.size + 1 /\ stack.size \in Nat
    BY <1>1, <2>2 DEF stackPush, HeapTyped
  <2>8. f \in Seq(V) /\ Len(f) = stack.size + 1 /\ f[stack.size + 1] = v
        /\ \A i \in 1..stack.size : f[i] = contents[i]
    <3> HIDE DEF V
    <3>1. v \in V
      BY DEF V
    <3> QED
      BY <2>5, <3>1, AppendProperties
  <2>9. contents'[stack.size + 1] = v
    <3>1. stack.size + 1 \in 1..stack'.size /\ stack'.size + 1 - (stack.size + 1) = 1
      BY <2>7
    <3>2. e[1] = n /\ data'[n] = d /\ int'[d] = v
      BY <1>1, <2>2, <2>4, <2>7 DEF HeapTyped, Pushed
    <3> QED
      BY <2>6, <3>1, <3>2
  <2>10. ASSUME NEW i \in 1..stack.size
         PROVE  contents'[i] = contents[i]
    <3>1. /\ i \in 1..stack'.size /\ stack'.size + 1 - i = stack.size + 2 - i
          /\ stack.size + 2 - i \in 1..(stack.size + 1) /\ stack.size + 2 - i # 1
          /\ (stack.size + 2 - i) - 1 = stack.size + 1 - i
          /\ stack.size + 1 - i \in 1..stack.size
      BY <2>7
    <3>2. e[stack.size + 2 - i] = c[stack.size + 1 - i]
      BY <2>4, <3>1 DEF Pushed
    <3>3. c[stack.size + 1 - i] \in used /\ data[c[stack.size + 1 - i]] \in used
      BY <2>3, <3>1 DEF Lists
    <3>4. ASSUME NEW a \in used
          PROVE  data'[a] = data[a] /\ int'[a] = int[a]
      BY <1>1, <2>2 DEF HeapTyped
    <3>5. contents'[i] = int'[data'[c[stack.size + 1 - i]]]
      BY <2>6, <3>1, <3>2
    <3> QED
      BY <2>5, <3>3, <3>4, <3>5
  <2>11. contents' = f
    <3> HIDE DEF f, V
    <3>1. Len(contents') = Len(f) /\ \A i \in 1..Len(f) : contents'[i] = f[i]
      <4>1. Len(contents') = stack.size + 1 /\ Len(f) = stack.size + 1
        BY <2>6, <2>7, <2>8
      <4>2. ASSUME NEW i \in 1..Len(f)
            PROVE  contents'[i] = f[i]
        <5>1. i \in 1..stack.size \/ i = stack.size + 1
          BY <2>7, <4>1
        <5>2. CASE i \in 1..stack.size
          BY <2>8, <2>10, <5>2
        <5>3. CASE i = stack.size + 1
          BY <2>8, <2>9, <5>3
        <5> QED
          BY <5>1, <5>2, <5>3
      <4> QED
        BY <4>1, <4>2
    <3> QED
      BY <2>6, <2>8, <3>1, SeqEqual
  <2> QED
    BY <2>2, <2>11
<1> QED
  BY <1>1, <1>2, <1>3, <1>4, PushMoves

(* What displaySatckOfInts prints is the contents from the top down.       *)
LEMMA DisplayIsReverse ==
    ASSUME HeapInv
    PROVE  [i \in DOMAIN nodes |-> int[data[nodes[i]]]] = Contract!Reverse(contents)
<1>1. HeapTyped /\ Linked
  BY DEF HeapInv, TypeOK, HeapTyped
<1>2. PICK c : Lists(c)
  BY <1>1 DEF Linked
<1>3. /\ Len(contents) = stack.size
      /\ \A i \in 1..stack.size : contents[i] = int[data[c[stack.size + 1 - i]]]
  BY <1>1, <1>2, ContentsOf
<1>4. nodes = c /\ DOMAIN nodes = 1..stack.size /\ stack.size \in Nat
  BY <1>2, NodesAreListed DEF Lists
<1>5. \A i \in 1..stack.size : contents[(stack.size - i) + 1] = int[data[nodes[i]]]
  <2> TAKE i \in 1..stack.size
  <2>1. (stack.size - i) + 1 \in 1..stack.size /\ stack.size + 1 - ((stack.size - i) + 1) = i
    BY <1>4
  <2> QED
    BY <1>3, <1>4, <2>1
<1>6. Contract!Reverse(contents) = [i \in 1..stack.size |-> contents[(stack.size - i) + 1]]
  BY <1>3 DEF Contract!Reverse
<1> QED
  BY <1>4, <1>5, <1>6

(* Every request is served as the contract says, and every other step      *)
(* leaves the contents alone or ends the server.                           *)
LEMMA ContractStep ==
    ASSUME HeapInv, HeapInv', [Next]_vars
    PROVE  [Contract!Next]_(Contract!vars)
<1>1. HeapTyped /\ TypeOK /\ Linked
  BY DEF HeapInv, TypeOK, HeapTyped
<1>2. CASE UNCHANGED <<stack, heap, shown>>
  BY <1>2, SameContents DEF heap, Contract!vars
<1>3. CASE stack' = emptyStack /\ shown' = shown
  BY <1>3, Emptied DEF Contract!Next, Contract!End
<1>4. ASSUME NEW op, NEW v, Serve(op, v), op = STACKPUSH => v \in Vals \cup {0}
      PROVE  Contract!Next
  <2> USE DEF Contract!Next, Contract!Shows
  <2>1. PICK c : Lists(c)
    BY <1>1 DEF Linked
  <2>2. /\ contents \in Seq(Vals \cup {0}) /\ Len(contents) = stack.size /\ stack.size \in Nat
    BY <1>1, <2>1, ContentsOf DEF Lists
  <2>3. contents = << >> <=> ~(stack.size > 0)
    BY <2>2, EmptySeq
  <2>4. UNCHANGED <<stack, heap>> => contents' = contents
    BY SameContents DEF heap
  <2>5. CASE shown' = <<"peek", <<stackPeekInt>>>> /\ UNCHANGED <<stack, heap>>
    BY <2>4, <2>5, TopIsLast DEF Contract!Peek
  <2>6. CASE shown' = <<"pop", <<stackPeekInt>>>> /\ stackPop
    BY <2>6, TopIsLast, PopImplements DEF Contract!Pop
  <2>7. CASE op = STACKPUSH /\ stackPushInt(v)
    BY <1>4, <2>7, PushImplements DEF Contract!Push
  <2>8. CASE shown' = <<"new", << >>>> /\ stack' = emptyStack
    BY <2>8, Emptied DEF Contract!New
  <2>9. CASE shown' = <<"size", <<stack.size>>>> /\ UNCHANGED <<stack, heap>>
    BY <2>2, <2>4, <2>9 DEF Contract!Size
  <2>10. CASE /\ shown' = <<IF stack.size > 0 THEN "filled" ELSE "empty", << >>>>
              /\ UNCHANGED <<stack, heap>>
    BY <2>3, <2>4, <2>10 DEF Contract!IsEmpty
  <2>11. CASE /\ shown' = <<"display", [i \in DOMAIN nodes |-> int[data[nodes[i]]]]>>
              /\ UNCHANGED <<stack, heap>>
    BY <2>4, <2>11, DisplayIsReverse DEF Contract!Display
  <2>12. CASE shown' = <<"help", << >>>> /\ UNCHANGED <<stack, heap>>
    BY <2>4, <2>12 DEF Contract!Help
  <2> QED
    BY <1>4, <2>5, <2>6, <2>7, <2>8, <2>9, <2>10, <2>11, <2>12 DEF Serve
<1> QED
  BY <1>1, <1>2, <1>3, <1>4, ServerMoves

(* The server's stack of linked blocks does what the contract says of a     *)
(* sequence, and prints the truth about it: every step is a step of the     *)
(* contract or leaves the contents and the last answer alone.               *)
THEOREM Implementation == Spec => Implements
<1>1. Init => Contract!Init
  <2> SUFFICES ASSUME Init PROVE Contract!Init
    OBVIOUS
  <2>1. HeapTyped /\ stack.size = 0 /\ stack.top = NULL
    BY DEF Init, HeapTyped, emptyStack
  <2>2. Lists(<< >>)
    BY <2>1 DEF Lists
  <2>3. contents \in Seq(Vals \cup {0}) /\ Len(contents) = 0
    BY <2>1, <2>2, ContentsOf
  <2>4. contents = << >>
    BY <2>3, EmptySeq, SeqEqual
  <2> QED
    BY <2>4 DEF Init, Contract!Init
<1>2. HeapInv /\ HeapInv' /\ [Next]_vars => [Contract!Next]_(Contract!vars)
  BY ContractStep
<1> QED
  BY <1>1, <1>2, StackInvariance, PTL DEF Spec, Implements, Contract!Spec

-----------------------------------------------------------------------------
(* The end of the input                                                    *)

(* The request in the buffer is the one the last word asked for.           *)
RequestInv ==
    /\ TypeOK
    /\ inputBuffer \in DOMAIN Simple => requestBuffer[1] = Simple[inputBuffer]
    /\ inputBuffer = "push" => requestBuffer[1] = STACKPUSH
    /\ inputBuffer = "exit" => requestBuffer[1] = SERVEREXIT
    /\ cpc = "value" => inputBuffer = "push"

(* No step breaks it: reading a word sets both, and reading a value follows *)
(* the word push.                                                          *)
LEMMA RequestStep ==
    ASSUME RequestInv, [Next]_vars, TypeOK'
    PROVE  RequestInv'
<1>1. CASE UNCHANGED <<cpc, inputBuffer, requestBuffer>>
  BY <1>1 DEF RequestInv
<1>2. CASE ServerJob
  BY <1>1, <1>2 DEF ServerJob, CreatePipe, ConnectPipe, PipeConnected, ReadHello, ReadRequest, ReadFails,
                    WriteAnswer, ServerFrame, input
<1>3. CASE OpenPipe \/ Greet \/ SendRequest \/ ReadAnswer
  <2>1. UNCHANGED <<inputBuffer, requestBuffer>> /\ cpc' # "value"
    BY <1>3 DEF OpenPipe, Greet, SendRequest, ReadAnswer, Writes, afterSend, input
  <2> QED
    BY <2>1 DEF RequestInv
<1>4. CASE ReadCommand
  <2>1. PICK w : Obey(w)
    BY <1>4 DEF ReadCommand
  <2>2. w = inputBuffer' /\ requestBuffer' =
         IF w \in DOMAIN Simple THEN <<Simple[w], requestBuffer[2]>>
         ELSE IF w = "push" THEN <<STACKPUSH, requestBuffer[2]>>
         ELSE IF w = "exit" THEN <<SERVEREXIT, requestBuffer[2]>>
         ELSE requestBuffer
    BY <2>1 DEF Obey
  <2>3. cpc' = "value" => w = "push"
    BY <2>1 DEF Obey, exitSends
  <2>4. "push" \notin DOMAIN Simple /\ "exit" \notin DOMAIN Simple
    BY DEF Simple
  <2> QED
    BY <2>2, <2>3, <2>4 DEF RequestInv
<1>5. CASE ReadValue
  <2>1. UNCHANGED inputBuffer /\ cpc' # "value" /\ requestBuffer[1] = STACKPUSH /\ inputBuffer = "push"
    BY <1>5 DEF ReadValue, RequestInv, afterWord
  <2>2. requestBuffer'[1] = STACKPUSH
    BY <1>5, <2>1 DEF ReadValue, RequestInv
  <2>3. "push" \notin DOMAIN Simple
    BY DEF Simple
  <2> QED
    BY <2>1, <2>2, <2>3 DEF RequestInv
<1>6. CASE InputEnds \/ MainReturns \/ UNCHANGED vars
  BY <1>1, <1>6 DEF InputEnds, MainReturns, vars, input
<1> QED
  BY <1>2, <1>3, <1>4, <1>5, <1>6 DEF Next, ClientJob

(* After the end of the input scanf_s leaves the buffers as they are: the   *)
(* request is then the last command read with the last integer read, and   *)
(* ClientJob never sends another (ClientServerStack.c lines 297-311).      *)
THEOREM RepeatsAtTheEnd == Spec => AfterTheEndOnlyRepeats
<1>1. Init /\ TypeOK => RequestInv
  BY DEF Init, RequestInv, Simple
<1>2. RequestInv /\ [Next]_vars /\ TypeOK' => RequestInv'
  BY RequestStep
<1>3. RequestInv /\ [Next]_vars => [ended /\ unread = NONE => UNCHANGED requestBuffer]_vars
  <2> SUFFICES ASSUME RequestInv, Next, ended, unread = NONE
               PROVE  requestBuffer' = requestBuffer
    OBVIOUS
  <2>1. requestBuffer = <<requestBuffer[1], requestBuffer[2]>>
    BY DEF RequestInv, TypeOK, Requests
  <2>2. CASE ReadCommand
    <3>1. Obey(inputBuffer)
      BY <2>2, Zenon DEF ReadCommand
    <3>2. "push" \notin DOMAIN Simple /\ "exit" \notin DOMAIN Simple
      BY DEF Simple
    <3> QED
      BY <2>1, <3>1, <3>2 DEF Obey, RequestInv
  <2>3. CASE ReadValue
    <3>1. requestBuffer' = <<STACKPUSH, valueAtEnd>>
      BY <2>3, Zenon DEF ReadValue
    <3> QED
      BY <2>1, <2>3, <3>1 DEF ReadValue, RequestInv, valueAtEnd
  <2>4. CASE OpenPipe \/ Greet \/ SendRequest \/ ReadAnswer \/ InputEnds \/ MainReturns
    BY <2>4 DEF OpenPipe, Greet, SendRequest, ReadAnswer, Writes, InputEnds, MainReturns, input
  <2>5. CASE ServerJob
    BY <2>5 DEF ServerJob, CreatePipe, ConnectPipe, PipeConnected, ReadHello, ReadRequest, ReadFails,
                WriteAnswer, ServerFrame, input
  <2> QED
    BY <2>2, <2>3, <2>4, <2>5 DEF Next, ClientJob
<1> QED
  BY <1>1, <1>2, <1>3, Typing, PTL DEF Spec, AfterTheEndOnlyRepeats

-----------------------------------------------------------------------------
(* The word and what is done for it                                        *)

(* The request on its way is the one in the buffer, and was read from the  *)
(* last word.                                                              *)
OnItsWay ==
    /\ cpc \in {"send", "await"} => unread = NONE /\ inputBuffer \in DOMAIN Simple \cup {"push"}
    /\ cpc = "value" => unread = NONE
    /\ cpc = "await" /\ spc = "ready" /\ toServer # << >> => toServer = <<requestBuffer>>
    /\ cpc = "await" /\ spc \in Early => toServer = <<HELLO, requestBuffer>>

MeantInv == RequestInv /\ Turns /\ OnItsWay /\ AnswersTheWord

(* What the server prints for a request.                                   *)
LEMMA ServePrints ==
    ASSUME TypeOK, NEW op, NEW v, Serve(op, v)
    PROVE  /\ \A w \in DOMAIN Simple : op = Simple[w] => shown'[1] \in Prints[w]
           /\ op = STACKPUSH => shown'[1] \in Prints["push"]
           /\ shown'[1] = "push" => op = STACKPUSH /\ shown'[2] = <<v>>
<1> USE DEF STACKPEEK, STACKPOP, STACKPUSH, STACKNEW, STACKSIZE, STACKISEMPTY, STACKDISPLAY, SERVERHELP
<1>1. DOMAIN Simple = {"peek", "pop", "new", "size", "isempty", "display", "help"}
  BY DEF Simple
<1>2. /\ Prints["push"] = {"push", "refused"} /\ Prints["isempty"] = {"empty", "filled"}
      /\ \A w \in DOMAIN Simple : w # "isempty" => Prints[w] = {w}
  BY <1>1 DEF Prints
<1>3. /\ Simple["peek"] = 0 /\ Simple["pop"] = 1 /\ Simple["new"] = 3 /\ Simple["size"] = 4
      /\ Simple["isempty"] = 5 /\ Simple["display"] = 6 /\ Simple["help"] = -2
  BY DEF Simple
<1>4. CASE op = STACKPUSH
  <2>1. stackPushInt(v)
    BY <1>4 DEF Serve
  <2>2. shown' = <<"push", <<v>>>> \/ shown' = <<"refused", << >>>>
    BY <2>1, PushMoves
  <2>3. /\ shown'[1] \in {"push", "refused"}
        /\ shown'[1] = "push" => shown'[2] = <<v>>
    BY <2>2
  <2>4. \A w \in DOMAIN Simple : op # Simple[w]
    BY <1>1, <1>3, <1>4
  <2> QED
    BY <1>2, <1>4, <2>3, <2>4
<1>5. CASE op # STACKPUSH
  <2>1. \/ op = 0 /\ shown'[1] = "peek"
        \/ op = 1 /\ shown'[1] = "pop"
        \/ op = 3 /\ shown'[1] = "new"
        \/ op = 4 /\ shown'[1] = "size"
        \/ op = 5 /\ shown'[1] \in {"empty", "filled"}
        \/ op = 6 /\ shown'[1] = "display"
        \/ op = -2 /\ shown'[1] = "help"
    BY <1>5 DEF Serve
  <2>2. \A w \in DOMAIN Simple : op = Simple[w] => shown'[1] \in Prints[w]
    BY <1>1, <1>2, <1>3, <2>1
  <2> QED
    BY <1>5, <2>1, <2>2
<1> QED
  BY <1>4, <1>5

(* No step breaks it. *)
LEMMA MeantStep ==
    ASSUME MeantInv, [Next]_vars, RequestInv', Turns'
    PROVE  MeantInv'
<1>0. RequestInv /\ Turns /\ OnItsWay /\ AnswersTheWord /\ TypeOK
  BY DEF MeantInv, RequestInv
<1> SUFFICES OnItsWay' /\ AnswersTheWord'
  BY DEF MeantInv
<1>1. CASE CreatePipe \/ ConnectPipe \/ PipeConnected
  <2>1. /\ UNCHANGED <<cpc, input, toServer>> /\ spc \in Early
        /\ spc' \in {"created", "listening", "hello", "no pipe", "too late"}
    BY <1>1 DEF CreatePipe, ConnectPipe, PipeConnected, ServerFrame, Ends, Early
  <2> QED
    BY <1>0, <2>1 DEF OnItsWay, AnswersTheWord, Early, input
<1>2. CASE ReadHello
  <2>1. /\ UNCHANGED <<cpc, input>> /\ spc \in Early /\ toServer' = Tail(toServer)
        /\ spc' \in {"ready", "no memory", "no client"}
    BY <1>2 DEF ReadHello, ServerFrame, Ends, Early
  <2>2. Tail(<<HELLO, requestBuffer>>) = <<requestBuffer>>
    BY Pipe
  <2>3. cpc = "await" => toServer' = <<requestBuffer>>
    BY <1>0, <2>1, <2>2 DEF OnItsWay
  <2> QED
    BY <1>0, <2>1, <2>3 DEF OnItsWay, AnswersTheWord, Early, input
<1>3. CASE ReadRequest
  <2>1. /\ UNCHANGED <<cpc, input>> /\ spc = "ready" /\ toServer # << >>
        /\ spc' \in {"answer", "stopped"}
        /\ spc' = "answer" => Serve(Head(toServer)[1], Head(toServer)[2])
    BY <1>3 DEF ReadRequest, ServerFrame, Ends
  <2>2. cpc = "await"
    BY <1>0, <2>1 DEF Turns, InSession
  <2>3. Head(toServer) = requestBuffer
    BY <1>0, <2>1, <2>2, Pipe DEF OnItsWay
  <2>4. spc' = "answer" => /\ shown'[1] \in Prints[inputBuffer]
                           /\ shown'[1] = "push" => shown'[2] = <<requestBuffer[2]>>
    BY <1>0, <2>1, <2>2, <2>3, ServePrints DEF OnItsWay, RequestInv
  <2> QED
    BY <1>0, <2>1, <2>2, <2>4 DEF OnItsWay, AnswersTheWord, Early, input
<1>4. CASE ReadFails \/ WriteAnswer
  <2>1. /\ UNCHANGED <<cpc, input, toServer>>
        /\ spc' \in {"ready", "read failed", "write failed"}
        /\ spc' = "ready" => spc = "answer"
    BY <1>4 DEF ReadFails, WriteAnswer, ServerFrame, Ends
  <2>2. spc = "answer" => toServer = << >>
    BY <1>0 DEF Turns, Answering
  <2> QED
    BY <1>0, <2>1, <2>2 DEF OnItsWay, AnswersTheWord, Early, input
<1>5. CASE OpenPipe \/ Greet \/ ReadAnswer
  <2>1. UNCHANGED <<spc, input, shown>> /\ cpc' \notin {"value", "send", "await"}
    BY <1>5 DEF OpenPipe, Greet, ReadAnswer, Writes, ClientFrame, server
  <2> QED
    BY <1>0, <2>1 DEF OnItsWay, AnswersTheWord
<1>6. CASE SendRequest
  <2>1. /\ UNCHANGED <<spc, input, shown>> /\ cpc = "send" /\ cpc' \in {"await", "gone"}
        /\ cpc' = "await" => ServerHasPipe /\ toServer' = Append(toServer, requestBuffer)
    BY <1>6 DEF SendRequest, Writes, afterSend, ClientFrame, server
  <2>2. spc # "answer"
    BY <1>0, <2>1 DEF Turns, Answering
  <2>4. /\ Append(<< >>, requestBuffer) = <<requestBuffer>>
        /\ Append(<<HELLO>>, requestBuffer) = <<HELLO, requestBuffer>>
    BY Pipe
  <2>5. spc = "ready" => toServer = << >>
    BY <1>0, <2>1 DEF Turns, InSession
  <2>6. spc \in Early => toServer = <<HELLO>>
    BY <1>0, <2>1 DEF Turns, BeforeSession, Prompt
  <2>3. cpc' = "await" => /\ spc = "ready" => toServer' = <<requestBuffer>>
                          /\ spc \in Early => toServer' = <<HELLO, requestBuffer>>
    BY <2>1, <2>4, <2>5, <2>6
  <2> QED
    BY <1>0, <2>1, <2>2, <2>3 DEF OnItsWay, AnswersTheWord, input
<1>7. CASE ReadCommand
  <2>1. PICK w \in Words : Obey(w) /\ unread' = NONE /\ UNCHANGED <<spc, shown>>
    <3>1. UNCHANGED <<spc, shown>> /\ (unread' = NONE \/ (unread = NONE /\ unread' = unread))
      BY <1>7 DEF ReadCommand, ClientFrame, server
    <3>2. \E w \in Words : Obey(w)
      BY <1>0, <1>7 DEF ReadCommand, TypeOK
    <3> QED
      BY <3>1, <3>2
  <2>2. cpc' \in {"send", "value", "gone", "command"} /\ inputBuffer' = w
        /\ (cpc' = "send" => w \in DOMAIN Simple)
    BY <2>1 DEF Obey, exitSends
  <2> QED
    BY <2>1, <2>2 DEF OnItsWay, AnswersTheWord
<1>8. CASE ReadValue
  <2>1. /\ UNCHANGED <<spc, shown, inputBuffer>> /\ inputBuffer = "push" /\ unread = NONE
        /\ cpc' \in {"send", "command"} /\ (cpc' = "send" => unread' = unread)
    BY <1>0, <1>8 DEF ReadValue, ClientFrame, server, afterWord, OnItsWay, RequestInv
  <2> QED
    BY <2>1 DEF OnItsWay, AnswersTheWord
<1>9. CASE InputEnds \/ MainReturns \/ UNCHANGED vars
  <2>1. UNCHANGED <<spc, cpc, toServer, unread, inputBuffer, requestBuffer, shown>>
    BY <1>9 DEF InputEnds, MainReturns, ClientFrame, server, input, vars
  <2> QED
    BY <1>0, <2>1 DEF OnItsWay, AnswersTheWord
<1> QED
  BY <1>1, <1>2, <1>3, <1>4, <1>5, <1>6, <1>7, <1>8, <1>9 DEF Next, ServerJob, ClientJob

(* Whatever words come in place of integers and wherever the input ends,   *)
(* what the server does is what the last word read asks for                *)
(* (ClientServerStack.c lines 295-349 and 190-240).                        *)
THEOREM DoesWhatWasRead == Spec => []AnswersTheWord
<1>1. Init /\ TypeOK => MeantInv
  BY DEF Init, MeantInv, RequestInv, Simple, OnItsWay, AnswersTheWord, Turns, Early, BeforeSession, Serving, Gone, Prompt
<1>2. Init /\ TypeOK => RequestInv
  BY DEF Init, RequestInv, Simple
<1>3. RequestInv /\ [Next]_vars /\ TypeOK' => RequestInv'
  BY RequestStep
<1>4. MeantInv /\ [Next]_vars /\ RequestInv' /\ Turns' => MeantInv'
  BY MeantStep
<1>5. MeantInv => AnswersTheWord
  BY DEF MeantInv
<1> QED
  BY <1>1, <1>2, <1>3, <1>4, <1>5, TakesTurns, Typing, PTL DEF Spec

-----------------------------------------------------------------------------
(* What is lost                                                            *)

(* A block is lost when it is in use and in no node of the list. *)
LEMMA LostOf ==
    \A c : Lists(c) =>
        /\ Len(nodes) = stack.size /\ stack.size \in Nat
        /\ \A a : a \in lost <=> /\ a \in used
                                 /\ \A i \in 1..stack.size : a # c[i] /\ a # data[c[i]]
<1> SUFFICES ASSUME NEW c, Lists(c)
             PROVE  /\ Len(nodes) = stack.size /\ stack.size \in Nat
                    /\ \A a : a \in lost <=> /\ a \in used
                                             /\ \A i \in 1..stack.size : a # c[i] /\ a # data[c[i]]
  OBVIOUS
<1>1. nodes = c /\ Len(nodes) = stack.size /\ DOMAIN nodes = 1..stack.size /\ stack.size \in Nat
  BY NodesAreListed DEF Lists
<1> QED
  BY <1>1 DEF lost

(* The same after a step. *)
LEMMA LostAfter ==
    \A c : Lists(c)' =>
        /\ Len(nodes') = stack'.size
        /\ \A a : a \in lost' <=> /\ a \in used'
                                  /\ \A i \in 1..stack'.size : a # c[i] /\ a # data'[c[i]]
<1>1. (\A c : Lists(c) =>
        /\ Len(nodes) = stack.size /\ stack.size \in Nat
        /\ \A a : a \in lost <=> /\ a \in used
                                 /\ \A i \in 1..stack.size : a # c[i] /\ a # data[c[i]])'
  BY LostOf, PTL
<1> QED
  BY <1>1

(* The stack is empty outside a session. *)
EmptyBefore == spc \notin Serving => stack = emptyStack

(* Every end clears the stack, so that none is left over. *)
LEMMA EmptyStep ==
    ASSUME EmptyBefore, [Next]_vars
    PROVE  EmptyBefore'
<1>1. ASSUME NEW how, Ends(how)
      PROVE  stack' = emptyStack
  BY <1>1 DEF Ends, EmptyBefore
<1>2. CASE CreatePipe \/ ConnectPipe \/ PipeConnected
  BY <1>1, <1>2 DEF CreatePipe, ConnectPipe, PipeConnected, EmptyBefore, Serving
<1>3. CASE ReadHello \/ ReadRequest
  BY <1>1, <1>3 DEF ReadHello, ReadRequest, EmptyBefore, Serving
<1>4. CASE ReadFails \/ WriteAnswer
  BY <1>1, <1>4 DEF ReadFails, WriteAnswer, EmptyBefore, Serving
<1>5. CASE ClientJob \/ InputEnds \/ MainReturns \/ UNCHANGED vars
  <2>1. UNCHANGED <<spc, stack>>
    BY <1>5 DEF ClientJob, OpenPipe, Greet, SendRequest, Writes, ReadCommand, ReadValue, ReadAnswer,
                InputEnds, MainReturns, ClientFrame, server, vars
  <2> QED
    BY <2>1 DEF EmptyBefore
<1> QED
  BY <1>2, <1>3, <1>4, <1>5 DEF Next, ServerJob

(* The stack grows by a push, and shrinks by a pop or a clear. *)
LEMMA StackMoves ==
    ASSUME TypeOK, EmptyBefore, [Next]_vars
    PROVE  \/ UNCHANGED <<stack, heap>>
           \/ stackClear /\ stack' = emptyStack
           \/ stackPop
           \/ \E v \in Vals \cup {0} : stackPushInt(v)
<1>1. ASSUME NEW how, Ends(how)
      PROVE  UNCHANGED <<stack, heap>> \/ (stackClear /\ stack' = emptyStack)
  BY <1>1 DEF Ends
<1>2. CASE CreatePipe \/ ConnectPipe \/ PipeConnected \/ ReadFails \/ WriteAnswer
  BY <1>1, <1>2 DEF CreatePipe, ConnectPipe, PipeConnected, ReadFails, WriteAnswer
<1>3. CASE ReadHello
  <2>1. spc \notin Serving
    BY <1>3 DEF ReadHello, Serving
  <2> QED
    BY <1>1, <1>3, <2>1 DEF ReadHello, EmptyBefore
<1>4. CASE ReadRequest
  <2>1. toServer # << >> /\ Head(toServer) \in {HELLO} \cup Requests
    BY <1>4, HeadTailProperties DEF ReadRequest, TypeOK
  <2>2. Head(toServer)[1] = STACKPUSH => Head(toServer)[2] \in Vals \cup {0}
    BY <2>1 DEF HELLO, STACKPUSH, Requests
  <2>3. CASE Serve(Head(toServer)[1], Head(toServer)[2])
    BY <2>2, <2>3 DEF Serve
  <2> QED
    BY <1>1, <1>4, <2>3 DEF ReadRequest
<1>5. CASE ClientJob \/ InputEnds \/ MainReturns \/ UNCHANGED vars
  BY <1>5 DEF ClientJob, OpenPipe, Greet, SendRequest, Writes, ReadCommand, ReadValue, ReadAnswer,
              InputEnds, MainReturns, ClientFrame, server, vars
<1> QED
  BY <1>2, <1>3, <1>4, <1>5 DEF Next, ServerJob

(* There are no more lost blocks than blocks of the heap. *)
LEMMA LostIsFinite ==
    ASSUME HeapTyped
    PROVE  IsFiniteSet(lost) /\ Cardinality(lost) \in Nat
<1>1. lost \subseteq Addr
  BY DEF lost, HeapTyped
<1> QED
  BY <1>1, AddrAssumption, FS_Subset, FS_CardinalityType

(* Blocks that join the lost ones are counted once each. *)
LEMMA LostCount ==
    ASSUME HeapTyped, NEW D, D \subseteq Addr, lost \cap D = {}, lost' = lost \cup D
    PROVE  /\ Cardinality(D) \in Nat /\ Cardinality(lost) \in Nat
           /\ Cardinality(lost') = Cardinality(lost) + Cardinality(D)
<1>1. IsFiniteSet(lost) /\ IsFiniteSet(D) /\ Cardinality(lost) \in Nat
  BY LostIsFinite, AddrAssumption, FS_Subset
<1>2. Cardinality(lost \cap D) = 0
  BY FS_EmptySet
<1>3. /\ Cardinality(lost \cup D) = Cardinality(lost) + Cardinality(D) - Cardinality(lost \cap D)
      /\ Cardinality(D) \in Nat
  BY <1>1, FS_Union, FS_CardinalityType
<1> QED
  BY <1>1, <1>2, <1>3

(* A clear loses the integers of all the nodes. *)
LEMMA ClearLoses ==
    ASSUME HeapInv, HeapInv', stackClear, stack' = emptyStack
    PROVE  /\ lost \subseteq lost' /\ Len(nodes') = 0 /\ Len(nodes) \in Nat
           /\ Cardinality(lost') = Cardinality(lost) + Len(nodes)
<1>1. HeapTyped /\ Linked
  BY DEF HeapInv, TypeOK, HeapTyped
<1>2. PICK c : Lists(c)
  BY <1>1 DEF Linked
<1>3. PICK e : e = << >> /\ Lists(e)'
  BY NothingListed
<1> DEFINE S == 1..stack.size
           D == {data[c[i]] : i \in S}
<1>4. stack.size \in Nat /\ Len(nodes) = stack.size
      /\ \A a : a \in lost <=> a \in used /\ \A i \in S : a # c[i] /\ a # data[c[i]]
  BY <1>2, LostOf
<1>5. Len(nodes') = 0 /\ \A a : a \in lost' <=> a \in used'
  <2>1. stack'.size = 0 /\ 1..0 = {}
    BY DEF emptyStack
  <2>2. /\ Len(nodes') = stack'.size
        /\ \A a : a \in lost' <=> /\ a \in used'
                                  /\ \A i \in 1..stack'.size : a # e[i] /\ a # data'[e[i]]
    BY <1>3, LostAfter
  <2> QED
    BY <2>1, <2>2
<1>6. \A a : a \in used' <=> a \in used /\ \A i \in S : a # c[i]
  <2>1. \A i \in 0..(stack.size - 1) : NodeAt[i] = c[i + 1]
    BY <1>2, <1>4, WalkAlong, StackFits
  <2>2. \A i \in S : i - 1 \in 0..(stack.size - 1) /\ (i - 1) + 1 = i
    BY <1>4
  <2>3. \A i \in 0..(stack.size - 1) : i + 1 \in S
    BY <1>4
  <2>4. {NodeAt[i] : i \in 0..(stack.size - 1)} = {c[i] : i \in S}
    BY <2>1, <2>2, <2>3
  <2> QED
    BY <2>4 DEF stackClear
<1>7. D \subseteq Addr /\ D \cap lost = {} /\ lost' = lost \cup D
  <2>1. \A i \in S : data[c[i]] \in used
    BY <1>2 DEF Lists
  <2>2. \A i, j \in S : data[c[i]] # c[j]
    BY <1>2 DEF Lists
  <2>3. D \subseteq Addr
    BY <1>1, <2>1 DEF HeapTyped
  <2>4. D \cap lost = {}
    BY <1>4
  <2>5. \A a : a \in lost' <=> a \in lost \/ a \in D
    BY <1>4, <1>5, <1>6, <2>1, <2>2
  <2> HIDE DEF D
  <2> QED
    BY <2>3, <2>4, <2>5
<1>8. Cardinality(D) = stack.size
  <2> DEFINE f == [i \in S |-> data[c[i]]]
  <2>1. f \in [S -> D] /\ \A x \in D : \E i \in S : f[i] = x
    OBVIOUS
  <2>2. \A i, j \in S : f[i] = f[j] => i = j
    BY <1>2 DEF Lists
  <2>3. f \in Bijection(S, D)
    <3> HIDE DEF f, S, D
    <3> QED
      BY <2>1, <2>2, Fun_IsBij
  <2>4. ExistsBijection(S, D)
    BY <2>3 DEF ExistsBijection
  <2>5. IsFiniteSet(S) /\ Cardinality(S) = stack.size
    BY <1>4, FS_Interval
  <2> HIDE DEF S, D
  <2> QED
    BY <2>4, <2>5, FS_Bijection
<1>9. Cardinality(lost') = Cardinality(lost) + Cardinality(D)
  <2> HIDE DEF D
  <2> QED
    BY <1>1, <1>7, LostCount
<1> QED
  BY <1>4, <1>5, <1>7, <1>8, <1>9

(* A pop loses the integer of the node it takes, if there is one. *)
LEMMA PopLoses ==
    ASSUME HeapInv, HeapInv', stackPop
    PROVE  \/ UNCHANGED <<stack, heap>>
           \/ /\ lost \subseteq lost' /\ Len(nodes) \in Nat /\ Len(nodes') = Len(nodes) - 1
              /\ Cardinality(lost') = Cardinality(lost) + 1
<1>1. HeapTyped /\ Linked /\ TypeOK
  BY DEF HeapInv, TypeOK, HeapTyped
<1>2. PICK c : Lists(c)
  BY <1>1 DEF Linked
<1>3. CASE stack.size = 0
  BY <1>1, <1>2, <1>3, PopIsListed
<1>4. CASE stack.size # 0
  <2>1. /\ UNCHANGED <<prev, data, int>> /\ used' = used \ {c[1]} /\ stack.top = c[1]
        /\ \E e : e = [i \in 1..(stack.size - 1) |-> c[i + 1]] /\ Lists(e)'
    BY <1>1, <1>2, <1>4, PopIsListed
  <2>2. PICK e : e = [i \in 1..(stack.size - 1) |-> c[i + 1]] /\ Lists(e)'
    BY <2>1
  <2> DEFINE S == 1..stack.size
             T == 1..(stack.size - 1)
             D == {data[c[1]]}
  <2>3. stack.size \in Nat /\ 1 \in S /\ Len(nodes) = stack.size
        /\ \A a : a \in lost <=> a \in used /\ \A i \in S : a # c[i] /\ a # data[c[i]]
    <3>1. stack.size \in Nat /\ Len(nodes) = stack.size
          /\ \A a : a \in lost <=> a \in used /\ \A i \in S : a # c[i] /\ a # data[c[i]]
      BY <1>2, LostOf
    <3>2. 1 \in S
      BY <1>4, <3>1
    <3> QED
      BY <3>1, <3>2
  <2>4. stack'.size = stack.size - 1
    <3>1. stack.top # NULL
      BY <1>2, <1>4, <2>1, <2>3, NullAssumption DEF Lists
    <3> QED
      BY <1>1, <3>1 DEF stackPop, HeapTyped
  <2>5. /\ Len(nodes') = stack'.size
        /\ \A a : a \in lost' <=> /\ a \in used'
                                  /\ \A i \in T : a # e[i] /\ a # data'[e[i]]
    <3>0. Lists(e)'
      BY <2>2
    <3>1. /\ Len(nodes') = stack'.size
          /\ \A a : a \in lost' <=> /\ a \in used'
                                    /\ \A i \in 1..stack'.size : a # e[i] /\ a # data'[e[i]]
      BY <3>0, LostAfter
    <3> QED
      BY <2>4, <3>1
  <2>6. \A i \in T : i + 1 \in S /\ e[i] = c[i + 1]
    BY <2>2, <2>3
  <2>7. \A i \in S : i = 1 \/ (i - 1 \in T /\ e[i - 1] = c[i])
    <3> TAKE i \in S
    <3>1. i # 1 => i - 1 \in T /\ (i - 1) + 1 = i
      BY <2>3
    <3> QED
      BY <2>6, <3>1
  <2>8. D \subseteq Addr /\ lost \cap D = {}
    BY <1>1, <1>2, <2>3 DEF Lists, HeapTyped
  <2>9. \A a : a \in lost' <=> a \in lost \/ a \in D
    <3>1. \A i \in S : data[c[1]] # c[i] /\ (i # 1 => data[c[1]] # data[c[i]]) /\ data[c[1]] \in used
      BY <1>2, <2>3 DEF Lists
    <3>2. ASSUME NEW a \in lost' PROVE a \in lost \/ a \in D
      BY <2>1, <2>3, <2>5, <2>7, <3>2
    <3>3. ASSUME NEW a \in lost PROVE a \in lost'
      BY <2>1, <2>3, <2>5, <2>6, <3>3
    <3>4. data[c[1]] \in lost'
      <4>1. ASSUME NEW i \in T
            PROVE  data[c[1]] # e[i] /\ data[c[1]] # data[e[i]]
        <5>1. i + 1 \in S /\ i + 1 # 1 /\ e[i] = c[i + 1]
          BY <2>6
        <5> QED
          BY <3>1, <5>1
      <4>2. data[c[1]] \in used' /\ data' = data
        BY <2>1, <2>3, <3>1
      <4> QED
        BY <2>5, <4>1, <4>2
    <3> QED
      BY <3>2, <3>3, <3>4
  <2>10. Cardinality(D) = 1
    BY FS_Singleton
  <2> HIDE DEF D
  <2>11. lost' = lost \cup D
    BY <2>9
  <2> QED
    BY <1>1, <2>3, <2>4, <2>5, <2>8, <2>10, <2>11, LostCount
<1> QED
  BY <1>3, <1>4

(* A push loses nothing but the integer that gets no node. *)
LEMMA PushLoses ==
    ASSUME HeapInv, HeapInv', NEW v \in Vals \cup {0}, stackPushInt(v)
    PROVE  UNCHANGED <<stack, heap>> \/ (lost \subseteq lost' /\ ~(Len(nodes') < Len(nodes)))
<1>1. HeapTyped /\ Linked /\ TypeOK
  BY DEF HeapInv, TypeOK, HeapTyped
<1>2. PICK c : Lists(c)
  BY <1>1 DEF Linked
<1>3. stack.size \in Nat /\ Len(nodes) = stack.size
      /\ \A a : a \in lost <=> a \in used /\ \A i \in 1..stack.size : a # c[i] /\ a # data[c[i]]
  BY <1>2, LostOf
<1>4. CASE \E d \in Addr \ used :
             /\ int' = [int EXCEPT ![d] = v] /\ used' = used \cup {d}
             /\ UNCHANGED <<stack, prev, data>> /\ shown' = <<"refused", << >>>>
  <2>1. used \subseteq used' /\ UNCHANGED <<stack, prev, data>>
    BY <1>4
  <2>2. Lists(c)'
    BY <1>2, <2>1 DEF Lists
  <2>3. /\ Len(nodes') = stack'.size
        /\ \A a : a \in lost' <=> /\ a \in used'
                                  /\ \A i \in 1..stack'.size : a # c[i] /\ a # data'[c[i]]
    BY <2>2, LostAfter
  <2> QED
    BY <1>3, <2>1, <2>3
<1>5. CASE \E d \in Addr \ used : \E n \in Addr \ (used \cup {d}) :
             /\ int' = [int EXCEPT ![d] = v] /\ used' = used \cup {d, n}
             /\ data' = [data EXCEPT ![n] = d] /\ stackPush(n)
             /\ shown' = <<"push", <<v>>>>
  <2>1. PICK d \in Addr \ used : \E n \in Addr \ (used \cup {d}) :
             /\ used' = used \cup {d, n}
             /\ data' = [data EXCEPT ![n] = d] /\ stackPush(n)
    BY <1>5
  <2>2. PICK n \in Addr \ (used \cup {d}) :
             /\ used' = used \cup {d, n}
             /\ data' = [data EXCEPT ![n] = d] /\ stackPush(n)
    BY <2>1
  <2>3. PICK e : e = Pushed(c, n) /\ Lists(e)'
    <3>1. TypeOK /\ Lists(c)
      BY <1>1, <1>2
    <3>2. \E e : e = Pushed(c, n) /\ Lists(e)'
      BY <2>2, <3>1, PushIsListed, Zenon
    <3> QED
      BY <3>2
  <2>4. stack'.size = stack.size + 1
    BY <2>2 DEF stackPush
  <2>5. /\ Len(nodes') = stack'.size
        /\ \A a : a \in lost' <=> /\ a \in used'
                                  /\ \A i \in 1..stack'.size : a # e[i] /\ a # data'[e[i]]
    BY <2>3, LostAfter
  <2>6. ASSUME NEW a \in lost, NEW i \in 1..(stack.size + 1)
        PROVE  a # e[i] /\ a # data'[e[i]]
    <3>1. a \in used /\ a # n /\ a # d /\ data'[n] = d
      BY <1>1, <1>3, <2>2 DEF HeapTyped
    <3>2. CASE i = 1
      BY <1>3, <2>3, <3>1, <3>2 DEF Pushed
    <3>3. CASE i # 1
      <4>1. i - 1 \in 1..stack.size /\ e[i] = c[i - 1]
        BY <1>3, <2>3, <3>3 DEF Pushed
      <4>2. c[i - 1] \in used
        BY <1>2, <4>1 DEF Lists
      <4>3. data'[c[i - 1]] = data[c[i - 1]]
        BY <1>1, <2>2, <4>2 DEF HeapTyped
      <4> QED
        BY <1>3, <4>1, <4>3
    <3> QED
      BY <3>2, <3>3
  <2>7. \A a \in lost : a \in lost'
    BY <1>3, <2>2, <2>4, <2>5, <2>6
  <2> QED
    BY <1>3, <2>4, <2>5, <2>7
<1>6. CASE UNCHANGED <<stack, heap>> /\ shown' = <<"refused", << >>>>
  BY <1>6
<1> QED
  BY <1>1, <1>4, <1>5, <1>6, PushMoves

(* stackPop and stackClear free the nodes only: every value that leaves the *)
(* stack stays in use for ever, and no other step gives a lost block back. *)
THEOREM LeaksWhatItPops == Spec => PoppedIsLost
<1>1. Init => EmptyBefore
  BY DEF Init, EmptyBefore
<1>2. EmptyBefore /\ [Next]_vars => EmptyBefore'
  BY EmptyStep
<1>3. HeapInv /\ HeapInv' /\ EmptyBefore /\ [Next]_vars
        => [ /\ lost \subseteq lost'
             /\ Len(nodes') < Len(nodes)
                  => Cardinality(lost') = Cardinality(lost) + Len(nodes) - Len(nodes') ]_vars
  <2> SUFFICES ASSUME HeapInv, HeapInv', EmptyBefore, [Next]_vars
               PROVE  /\ lost \subseteq lost'
                      /\ Len(nodes') < Len(nodes)
                           => Cardinality(lost') = Cardinality(lost) + Len(nodes) - Len(nodes')
    OBVIOUS
  <2>0. TypeOK /\ HeapTyped
    BY DEF HeapInv, TypeOK, HeapTyped
  <2>1. CASE UNCHANGED <<stack, heap>>
    <3>1. PICK c : Lists(c)
      BY DEF HeapInv, Linked
    <3>2. Lists(c)'
      BY <2>1, <3>1 DEF Lists, heap
    <3>3. Len(nodes) = stack.size /\ stack.size \in Nat
          /\ \A a : a \in lost <=> a \in used /\ \A i \in 1..stack.size : a # c[i] /\ a # data[c[i]]
      BY <3>1, LostOf
    <3>4. /\ Len(nodes') = stack'.size
          /\ \A a : a \in lost' <=> /\ a \in used'
                                    /\ \A i \in 1..stack'.size : a # c[i] /\ a # data'[c[i]]
      BY <3>2, LostAfter
    <3> QED
      BY <2>1, <3>3, <3>4 DEF heap
  <2>2. CASE stackClear /\ stack' = emptyStack
    <3>1. /\ lost \subseteq lost' /\ Len(nodes') = 0 /\ Len(nodes) \in Nat
          /\ Cardinality(lost') = Cardinality(lost) + Len(nodes)
      BY <2>2, ClearLoses
    <3>2. Cardinality(lost) \in Nat
      BY <2>0, LostIsFinite
    <3> QED
      BY <3>1, <3>2
  <2>3. CASE stackPop
    <3>1. Cardinality(lost) \in Nat
      BY <2>0, LostIsFinite
    <3> QED
      BY <2>1, <2>3, <3>1, PopLoses
  <2>4. CASE \E v \in Vals \cup {0} : stackPushInt(v)
    BY <2>1, <2>4, PushLoses
  <2> QED
    BY <2>0, <2>1, <2>2, <2>3, <2>4, StackMoves
<1> QED
  BY <1>1, <1>2, <1>3, StackInvariance, PTL DEF Spec, PoppedIsLost
=============================================================================
