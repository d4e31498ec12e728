----------------------------- MODULE NodeChoice -----------------------------
(***************************************************************************)
(* lookup_best_ip (nslookup.cpp): which of the addresses a name stands for *)
(* is used as torrent, and which as proxy.  A probe of an address is its   *)
(* timeout, Unreachable when nothing came back, and the number of blocks   *)
(* it says it has, 0 when it was not asked or gave no usable answer.       *)
(***************************************************************************)
EXTENDS Integers, Sequences, FiniteSetsExt

CONSTANTS
  Slow,          \* timeout from which an address is not asked for its blocks
  Unreachable,   \* timeout of an address that did not answer
  Slack          \* blocks a torrent may be behind

ASSUME ChoiceAssumption == Slow \in Nat /\ Unreachable \in Nat /\ Unreachable > Slow /\ Slack \in Nat \ {0}

\* Orders std::sort may leave the addresses in.
Sorted(probes) ==
  {s \in [1..Cardinality(DOMAIN probes) -> DOMAIN probes] :
     /\ \A i, j \in DOMAIN s : i < j => s[i] # s[j] /\ probes[s[i]].timeout <= probes[s[j]].timeout}

\* get-count-blocks is asked of fast addresses only.
blocks_count(probe) == IF probe.timeout >= Slow THEN 0 ELSE probe.blocks

\* Mutant: nobody may be behind.
ThresholdStrict(probes) == Max({blocks_count(probes[a]) : a \in DOMAIN probes} \cup {0}) - 1

\* max_blocks after the loop over the addresses.
Threshold(probes) ==
  LET max_blocks == Max({blocks_count(probes[a]) : a \in DOMAIN probes} \cup {0})
  IN  IF max_blocks > Slack - 1 THEN max_blocks - Slack ELSE max_blocks

\* The first address above the threshold; tor stays when there is none.
BestTor(sorted, probes, tor) ==
  LET enough == {i \in DOMAIN sorted : blocks_count(probes[sorted[i]]) > Threshold(probes)}
  IN  IF enough = {} THEN tor ELSE sorted[Min(enough)]

\* The first address, reachable or not; proxy stays when the name has none.
BestProxy(sorted, proxy) == IF sorted = <<>> THEN proxy ELSE sorted[1]

=============================================================================
