------------------------------ MODULE Terminal ------------------------------
(* What the console promises: keys edit a line, which a newline, an end of  *)
(* file or a full buffer hands over to readers; bytes written go out in the *)
(* order they were put.  Console implements this.                           *)
EXTENDS Naturals, Sequences

CONSTANTS Keys, Bytes, InputSize, OutputSize,
          Typed         \* the lines complete and begun at first
VARIABLES edit, line,   \* the line being typed, and input not yet read
          got,          \* the last character a reader took
          outq, sent    \* bytes waiting to go out, and the last that went

Init == [line |-> line, edit |-> edit] \in Typed /\ outq = <<>> /\ got = "none" /\ sent = <<>>

Type(c) ==
  LET new == Append(edit, c) IN
  IF Len(edit) + Len(line) = InputSize THEN UNCHANGED <<edit, line>>
  ELSE IF c \in {"newline", "eof"} \/ Len(new) + Len(line) = InputSize
  THEN edit' = <<>> /\ line' = line \o new
  ELSE edit' = new /\ UNCHANGED line

Erase == edit # <<>> /\ edit' = SubSeq(edit, 1, Len(edit) - 1) /\ UNCHANGED line
KillLine == edit' = <<>> /\ UNCHANGED line
Key == /\ Erase \/ KillLine \/ \E c \in Keys \ {"backspace", "kill"} : Type(c)
       /\ UNCHANGED <<got, outq, sent>>

Take == /\ line # <<>>
        /\ line' = Tail(line) /\ got' = Head(line)
        /\ UNCHANGED <<edit, outq, sent>>

Put(b) == /\ Len(outq) < OutputSize
          /\ outq' = Append(outq, b)
          /\ UNCHANGED <<edit, line, got, sent>>
Send == /\ outq # <<>>
        /\ outq' = Tail(outq) /\ sent' = Head(outq)
        /\ UNCHANGED <<edit, line, got>>

Next == Key \/ Take \/ Send \/ \E b \in Bytes : Put(b)
Spec == Init /\ [][Next]_<<edit, line, got, outq, sent>>
=============================================================================
