------------------------------- MODULE Stream -------------------------------
(***************************************************************************)
(* What a pipe promises: bytes come out as they went in, each of them once *)
(* and in order, a bounded number is on the way, the end of the stream is  *)
(* reported when there is nobody left to write and nothing left to read,   *)
(* and a broken pipe when there is nobody left to read.                    *)
(***************************************************************************)
EXTENDS Naturals, Sequences

CONSTANTS
  Room,       \* bytes that may be on the way
  Processes

VARIABLES
  sent, received,     \* sequences of bytes
  readers, writers,   \* who may still read or write
  told                \* who was told last that the stream is "ended" or "broken"

Init ==
  /\ sent = <<>> /\ received = <<>>
  /\ readers \subseteq Processes /\ writers \subseteq Processes
  /\ told = [p \in Processes |-> "nothing"]

Join(p) == readers' \in {readers, readers \cup {p}} /\ writers' \in {writers, writers \cup {p}}

Leave(p) == readers' = readers \ {p} /\ writers' = writers \ {p}

Send(p) ==
  /\ p \in writers
  /\ Len(sent') <= Len(received) + Room
  /\ Len(sent') > Len(sent) /\ SubSeq(sent', 1, Len(sent)) = sent
  /\ told' = [told EXCEPT ![p] = "nothing"]

Receive(p) ==
  /\ p \in readers
  /\ Len(received') > Len(received) /\ Len(received') <= Len(sent)
  /\ received' = SubSeq(sent, 1, Len(received'))
  /\ told' = [told EXCEPT ![p] = "nothing"]

End(p) ==
  /\ p \in readers /\ writers = {} /\ received = sent
  /\ told' = [told EXCEPT ![p] = "ended"]

Break(p) ==
  /\ p \in writers /\ readers = {}
  /\ told' = [told EXCEPT ![p] = "broken"]

(* A call that failed otherwise.                                           *)
Fail(p) == told' = [told EXCEPT ![p] = "nothing"]

Next ==
  \E p \in Processes :
    \/ (Join(p) \/ Leave(p)) /\ UNCHANGED <<sent, received, told>>
    \/ Send(p) /\ UNCHANGED <<received, readers, writers>>
    \/ Receive(p) /\ UNCHANGED <<sent, readers, writers>>
    \/ (End(p) \/ Break(p) \/ Fail(p)) /\ UNCHANGED <<sent, received, readers, writers>>

Spec == Init /\ [][Next]_<<sent, received, readers, writers, told>>
=============================================================================
