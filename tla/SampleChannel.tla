--------------------------- MODULE SampleChannel ---------------------------
(***************************************************************************)
(* What the sample path of the firmware promises to the central: each      *)
(* stream is a first-in first-out channel that may lose samples but never  *)
(* reorders, repeats or invents one.                                       *)
(*                                                                         *)
(* Samples of a stream are numbered 1, 2, ... as they are produced.        *)
(* settled[st] is the number of samples that have left the device, sent or *)
(* lost; sent is the set of runs the last step sent, at most one for each  *)
(* stream.                                                                 *)
(***************************************************************************)
EXTENDS Naturals

CONSTANT Streams

VARIABLES produced, settled, sent

chanVars == << produced, settled, sent >>

Run(st, from, to) == [stream |-> st, from |-> from, to |-> to]

ChanInit ==
  /\ produced = [st \in Streams |-> 0]
  /\ settled  = [st \in Streams |-> 0]
  /\ sent = {}

\* Some streams produce their next sample.
Produce ==
  /\ \E S \in SUBSET Streams :
       produced' = [st \in Streams |-> produced[st] + (IF st \in S THEN 1 ELSE 0)]
  /\ UNCHANGED settled
  /\ sent' = {}

\* In each stream a prefix of what is outstanding leaves: it is sent as one
\* run or it is lost.
Settle ==
  /\ UNCHANGED produced
  /\ \A st \in Streams : settled'[st] \in settled[st] .. produced[st]
  /\ settled' = [st \in Streams |-> settled'[st]]
  /\ sent' \subseteq { Run(st, settled[st] + 1, settled'[st]) :
                         st \in { x \in Streams : settled'[x] > settled[x] } }

ChanNext == Produce \/ Settle

ChanSpec == ChanInit /\ [][ChanNext]_chanVars

=============================================================================
