--------------------------- MODULE MessageChannel ---------------------------
(***************************************************************************)
(* What one direction of a connection promises to the modules above it     *)
(* (Session's toServer and toClient): whole messages, each handled once,   *)
(* in the order in which they were written, until the connection is cut.   *)
(***************************************************************************)
EXTENDS Naturals, Sequences

VARIABLES
  sent,     \* the messages written so far
  got,      \* the messages handled so far
  open      \* the connection is up

channelVars == <<sent, got, open>>

ChannelInit == sent = <<>> /\ got = <<>> /\ open = TRUE

WriteOne ==
  /\ Len(sent') = Len(sent) + 1
  /\ SubSeq(sent', 1, Len(sent)) = sent
  /\ UNCHANGED <<got, open>>

HandleOne ==
  /\ Len(got) < Len(sent)
  /\ got' = Append(got, sent[Len(got) + 1])
  /\ UNCHANGED <<sent, open>>

CutOff == open' = FALSE /\ UNCHANGED <<sent, got>>

ChannelNext == WriteOne \/ HandleOne \/ CutOff

ChannelSpec == ChannelInit /\ [][ChannelNext]_channelVars
=============================================================================
