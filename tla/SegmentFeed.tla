---------------------------- MODULE SegmentFeed ----------------------------
(***************************************************************************)
(* What a receiver may rely on, whatever the daemon goes through: the bytes  *)
(* of a segment are handed over from its start without a hole, a seal is     *)
(* announced only for a segment the probe has left, and unless a put or a    *)
(* read has failed, only after all of it was handed over.                    *)
(***************************************************************************)
EXTENDS Integers

CONSTANTS MaxSeq, MaxSize   \* bounds: highest segment number, full segment

VARIABLES size, created, oldest,   \* the probe's directory
          put, seals,              \* records handed over, seals announced
          faulty                   \* a put or a read has failed

vars == <<size, created, oldest, put, seals, faulty>>

Seqs == 0 .. MaxSeq
OnDisk(s) == oldest <= s /\ s < created
Prefix(n) == 0 .. n - 1

Init ==
  /\ size = [s \in Seqs |-> 0] /\ created = 0 /\ oldest = 0
  /\ put = [s \in Seqs |-> {}] /\ seals = {} /\ faulty = FALSE

Environment ==
  /\ \/ /\ created <= MaxSeq /\ created' = created + 1
        /\ UNCHANGED <<size, oldest, faulty>>
     \/ /\ created > 0 /\ size[created - 1] < MaxSize
        /\ size' = [size EXCEPT ![created - 1] = @ + 1]
        /\ UNCHANGED <<created, oldest, faulty>>
     \/ /\ oldest < created - 1 /\ oldest' = oldest + 1
        /\ UNCHANGED <<size, created, faulty>>
     \/ faulty' = TRUE /\ UNCHANGED <<size, created, oldest>>
  /\ UNCHANGED <<put, seals>>

(* A put may fail while the batch counts as handed over.                    *)
Publish(s) ==
  /\ \E n \in 1 .. size[s] :
       put[s] \subseteq Prefix(n) /\ put' = [put EXCEPT ![s] = Prefix(n)]
  /\ faulty' \in {faulty, TRUE}
  /\ UNCHANGED <<size, created, oldest, seals>>

(* A segment unlinked while it is sealed may be announced with any size.    *)
Announce(s) ==
  /\ s < created - 1
  /\ \E n \in 0 .. MaxSize :
       /\ OnDisk(s) => n = size[s] /\ (faulty \/ put[s] = Prefix(n))
       /\ seals' = seals \cup {<<s, n>>}
  /\ UNCHANGED <<size, created, oldest, put, faulty>>

Next == Environment \/ \E s \in Seqs : Publish(s) \/ Announce(s)

Spec == Init /\ [][Next]_vars
=============================================================================
