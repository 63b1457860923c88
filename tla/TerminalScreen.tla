----------------------------- MODULE TerminalScreen -----------------------------
(***************************************************************************)
(* What a terminal on the web promises: a screen that is cleared or that   *)
(* grows at its end by consecutive chunks of one session's output, each    *)
(* later than every chunk of that session before it, and that forgets its  *)
(* oldest chunks when it is full.                                          *)
(***************************************************************************)
EXTENDS Integers, Sequences

CONSTANTS Sessions, Cap

VARIABLES
  written,  \* the chunks each session has written: 1 .. written[s]
  screen    \* what is on the screen

screenVars == <<written, screen>>

Chunk == [sess : Sessions, seq : Nat \ {0}]

(* Chunks first .. last of session s. *)
Page(s, first, last) == [i \in 1 .. (last - first + 1) |-> [sess |-> s, seq |-> first + i - 1]]

Suffix(out) == IF Len(out) <= Cap THEN out ELSE SubSeq(out, Len(out) - Cap + 1, Len(out))

After(s, out, n) == \A i \in DOMAIN out : out[i].sess = s => out[i].seq < n

Init == written = [s \in Sessions |-> 0] /\ screen = <<>>

Write(s) == written' = [written EXCEPT ![s] = @ + 1] /\ UNCHANGED screen

Clear == screen' = <<>> /\ UNCHANGED written

Grow(s) ==
  \E first \in 1 .. written[s] : \E last \in first .. written[s] :
    /\ After(s, screen, first)
    /\ screen' = Suffix(screen \o Page(s, first, last))
    /\ UNCHANGED written

Next == Clear \/ \E s \in Sessions : Write(s) \/ Grow(s)

Spec == Init /\ [][Next]_screenVars

(***************************************************************************)
(* The chunks of a session are on the screen in the order in which they    *)
(* were written, none twice, and none that was not written.                *)
(***************************************************************************)
InOrder ==
  /\ \A i \in DOMAIN screen : screen[i].seq <= written[screen[i].sess]
  /\ \A i, j \in DOMAIN screen :
       i < j /\ screen[i].sess = screen[j].sess => screen[i].seq < screen[j].seq
================================================================================
