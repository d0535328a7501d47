---------------------------- MODULE MessageChannel ----------------------------
(***************************************************************************)
(* What a connection promises the two applications at its ends: packets    *)
(* arrive as they were sent, in order, each once, and the end of the       *)
(* stream comes after all of them unless the sender gave up.  Once the     *)
(* channel is broken it promises nothing.                                  *)
(***************************************************************************)
EXTENDS Naturals, Sequences

VARIABLES sent,   \* the packets that the channel took
          got,    \* the packets that arrived
          ended,  \* the receiver was told the end
          cut,    \* the sender did not wait for the rest
          broken

vars == <<sent, got, ended, cut, broken>>

Init == sent = <<>> /\ got = <<>> /\ ~ended /\ ~cut /\ ~broken

Put ==
  /\ ~cut
  /\ Len(sent') = Len(sent) + 1 /\ SubSeq(sent', 1, Len(sent)) = sent
  /\ UNCHANGED <<got, ended, cut>>

Deliver ==
  /\ ~ended /\ Len(got) < Len(sent)
  /\ got' = Append(got, sent[Len(got) + 1])
  /\ UNCHANGED <<sent, ended, cut>>

End ==
  /\ ~ended /\ ended'
  /\ cut \/ got = sent
  /\ UNCHANGED <<sent, got, cut>>

GiveUp == cut' /\ UNCHANGED <<sent, got, ended>>

Next == broken' \/ (~broken /\ (Put \/ Deliver \/ End \/ GiveUp))

Spec == Init /\ [][Next]_vars

===============================================================================
