---------------------------- MODULE InputChannel ----------------------------
(***************************************************************************)
(* What an interrupt-fed stream promises to the task that awaits it: a     *)
(* bounded first-in first-out channel that loses an item only on arrival,  *)
(* when it is full, and that delivers what it holds for as long as its     *)
(* reader is there.                                                        *)
(***************************************************************************)
EXTENDS Naturals, Sequences

CONSTANTS
  Streams,    \* the streams
  Items,      \* what they carry
  StreamCap   \* how many items a stream holds

VARIABLES
  chan,   \* the undelivered items of each stream, oldest first
  open    \* the streams that have a reader

chanVars == <<chan, open>>

Init ==
  /\ chan = [s \in Streams |-> <<>>]
  /\ open = {}

Open(s) ==
  /\ s \notin open
  /\ open' = open \cup {s}
  /\ UNCHANGED chan

(* Readers go away: one that completes, or all of them in a panic.         *)
Close ==
  /\ open' \in SUBSET open
  /\ UNCHANGED chan

(* An arrival may be the one that stops the machine.                       *)
Arrive(s, x) ==
  /\ Len(chan[s]) < StreamCap
  /\ chan' = [chan EXCEPT ![s] = Append(@, x)]
  /\ open' \in {open, {}}

Deliver(s) ==
  /\ s \in open
  /\ chan[s] # <<>>
  /\ chan' = [chan EXCEPT ![s] = Tail(@)]
  /\ UNCHANGED open

Next ==
  \/ Close
  \/ \E s \in Streams : Open(s) \/ Deliver(s)
  \/ \E s \in Streams, x \in Items : Arrive(s, x)

(* An item that waits in a stream with a reader is delivered.              *)
Spec ==
  /\ Init
  /\ [][Next]_chanVars
  /\ \A s \in Streams : WF_chanVars(Deliver(s))

=============================================================================
