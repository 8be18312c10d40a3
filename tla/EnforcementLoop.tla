--------------------------- MODULE EnforcementLoop ---------------------------
(***************************************************************************)
(* What the backend promises one launcher, without its gate, tools, clock  *)
(* or templates: "Only one prompt is sent per idle event" (README.md).     *)
(*                                                                         *)
(* An idle frame either is ignored or puts the backend in debt of exactly  *)
(* one answer.  While it is in debt it reads nothing; it settles with one  *)
(* prompt, or with none if the connection or the context is gone.  Nothing *)
(* else ever makes it write, and once it has ended it does nothing.        *)
(***************************************************************************)
EXTENDS Naturals, Sequences

VARIABLES
  up,                 \* frames on their way to the backend
  down,               \* frames on their way to the launcher
  phase               \* listening, owing, ended

loopVars == <<up, down, phase>>

Init ==
  /\ up = <<>>
  /\ down = <<>>
  /\ phase = "listening"

Launcher ==
  /\ \/ /\ Len(up') = Len(up) + 1
        /\ SubSeq(up', 1, Len(up)) = up
        /\ UNCHANGED down
     \/ /\ down # <<>>
        /\ down' = Tail(down)
        /\ UNCHANGED up
  /\ UNCHANGED phase

TakeIdle ==
  /\ phase = "listening"
  /\ up # <<>>
  /\ Head(up).type = "idle"
  /\ up' = Tail(up)
  /\ phase' \in {"listening", "owing"}
  /\ UNCHANGED down

TakeOther ==
  /\ phase = "listening"
  /\ up # <<>>
  /\ Head(up).type # "idle"
  /\ up' = Tail(up)
  /\ phase' \in {"listening", "ended"}
  /\ UNCHANGED down

Settle ==
  /\ phase = "owing"
  /\ phase' = "listening"
  /\ \/ /\ Len(down') = Len(down) + 1
        /\ SubSeq(down', 1, Len(down)) = down
        /\ down'[Len(down')].type = "type"
     \/ UNCHANGED down
  /\ UNCHANGED up

End ==
  /\ phase = "listening"
  /\ phase' = "ended"
  /\ UNCHANGED <<up, down>>

Next == Launcher \/ TakeIdle \/ TakeOther \/ Settle \/ End

Spec == Init /\ [][Next]_loopVars

=============================================================================
