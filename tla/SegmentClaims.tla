--------------------------- MODULE SegmentClaims ---------------------------
(***************************************************************************)
(* What the README and the comments say of segment synchronisation and the  *)
(* code does not do.  Each is refuted by a run of its own.                   *)
(***************************************************************************)
EXTENDS SegmentSync

(* bus.rs:127-128: the receiver learns of the boundary of a segment from    *)
(* its seal signal, so a segment that is sealed has to be announced.        *)
SealedIsAnnounced ==
  \A s \in Seqs :
    Sealed(s) ~> ((\E n \in Sizes : <<s, n>> \in seals) \/ ~OnDisk(s))

(* tracker.rs:378: a segment that has no row is skipped because its own     *)
(* Created event will handle it.                                            *)
SkippedIsHandled ==
  \A s \in Seqs :
    (pc = "sealing" /\ job.seq = s /\ s < evt.seq /\ ~Recorded(segments, s)
       /\ OnDisk(s) /\ size[s] > 0)
      ~> (Recorded(segments, s) \/ ~OnDisk(s))


(* tracker.rs:143: Modified events within the window are merged into one    *)
(* handling, so what an event tells of is handled.                          *)
ModifiedIsHandled ==
  \A s \in Seqs, n \in Sizes :
    (size[s] = n /\ \E i \in 1 .. Len(events) :
                      events[i] = [kind |-> "Modified", seq |-> s])
      ~> (Records(0, n) \subseteq put[s] \/ ~OnDisk(s))
=============================================================================
