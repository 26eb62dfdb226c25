----------------------------- MODULE LineChannel -----------------------------
(***************************************************************************)
(* What the serial reader of vcp/reader.py promises the calls that read    *)
(* from it, and nothing of how: a queue of lines, filled at one end by a   *)
(* board, emptied at the other by one reading call at a time.  There is no *)
(* thread here, no buffer, no event, no port.                              *)
(*                                                                         *)
(* A line may get lost in two ways only: the Capacity lines after it came  *)
(* in before it was asked for, or a call gave it up, when it began or when *)
(* it ended, together with every line older than it.                       *)
(***************************************************************************)
EXTENDS Integers, Sequences

CONSTANTS
    Capacity,   \* a natural number, at least 1
    Wrap        \* bound: lines are numbered modulo Wrap

VARIABLES
    held,       \* the lines that came in and were not handed out, oldest first
    out,        \* the line handed out last in this reading, Wrap before the first
    reading,    \* a call is reading
    next        \* number of the next line, modulo Wrap

vars == <<held, out, reading, next>>

Init == held = <<>> /\ out = Wrap /\ reading = FALSE /\ next = 0

\* The one line that has Capacity - 1 newer ones makes room for another.
Shed(h) == SubSeq(h, 1, Len(h) - Capacity) \o SubSeq(h, Len(h) - Capacity + 2, Len(h))

Put ==
    /\ \/ held' = Append(held, next)
       \/ Len(held) >= Capacity /\ held' = Append(Shed(held), next)
    /\ next' = (next + 1) % Wrap
    /\ UNCHANGED <<out, reading>>

Take ==
    /\ reading /\ held # <<>>
    /\ out' = Head(held) /\ held' = Tail(held)
    /\ UNCHANGED <<reading, next>>

\* The oldest lines are given up, none of them or all.
Forget == \E n \in 0..Len(held) : held' = SubSeq(held, n + 1, Len(held))

Begin  == ~reading /\ reading' /\ Forget /\ UNCHANGED <<out, next>>
Finish == reading /\ ~reading' /\ out' = Wrap /\ Forget /\ UNCHANGED next
Renew  == ~reading /\ held' = <<>> /\ UNCHANGED <<out, reading, next>>

Next == Put \/ Take \/ Begin \/ Finish \/ Renew

Spec == Init /\ [][Next]_vars

\* Weak fairness of Take, what enables it spelled out: a line that is there
\* while a call goes on reading is handed out.
Served == <>[](reading /\ held # <<>>) => []<><<Take>>_vars
=============================================================================
