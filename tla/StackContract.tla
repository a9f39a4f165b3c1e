--------------------------- MODULE StackContract ---------------------------
(***************************************************************************)
(* What the stack server of Lab 1 (ClientServerStack.c) promises: a last-  *)
(* in, first-out stack of integers, and a line of output for every request *)
(* that tells the truth about it.  The contract says nothing of nodes, of  *)
(* threads or of the pipe; PipeStack is shown to implement it.             *)
(***************************************************************************)
EXTENDS Integers, Sequences, SequencesExt

CONSTANT Vals        \* the integers the user may push

VARIABLES stack,     \* the values, the last one on top
          shown      \* what the server has printed last

vars == <<stack, shown>>

EMPTY == -1          \* also printed for a value of -1

Init == stack = << >> /\ shown = <<"nothing", << >>>>

Shows(what, numbers) == shown' = <<what, numbers>>

topValue == IF stack = << >> THEN EMPTY ELSE Last(stack)

Peek == Shows("peek", <<topValue>>) /\ UNCHANGED stack

Pop ==
    /\ Shows("pop", <<topValue>>)
    /\ IF stack = << >> THEN UNCHANGED stack ELSE stack' = Front(stack)

(* 0 is what the client sends when the input ends before a first value.    *)
Push ==
    \/ \E v \in Vals \cup {0} : stack' = Append(stack, v) /\ Shows("push", <<v>>)
    \/ UNCHANGED stack /\ Shows("refused", << >>)

New == stack' = << >> /\ Shows("new", << >>)

Size == Shows("size", <<Len(stack)>>) /\ UNCHANGED stack

IsEmpty == Shows(IF stack = << >> THEN "empty" ELSE "filled", << >>) /\ UNCHANGED stack

Display == Shows("display", Reverse(stack)) /\ UNCHANGED stack

Help == Shows("help", << >>) /\ UNCHANGED stack

(* The server ends and gives the stack back. *)
End == stack' = << >> /\ UNCHANGED shown

Next == Peek \/ Pop \/ Push \/ New \/ Size \/ IsEmpty \/ Display \/ Help \/ End

Spec == Init /\ [][Next]_vars
=============================================================================
