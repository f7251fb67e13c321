----------------------------- MODULE MCSlipList -----------------------------
(***************************************************************************)
(* Small instances of SlipList: every list of at most MaxLen slips over a  *)
(* few offsets and lengths, and every address a little past the last slip. *)
(***************************************************************************)
EXTENDS SlipList

CONSTANTS MaxLen, MaxOff, MaxSlip, MaxAddr

Lists(lens, offs, lengths) ==
  UNION { [len : {n}, off : [0 .. n - 1 -> offs], n : [0 .. n - 1 -> lengths]] : n \in lens }

\* Lists in order that leave sector 0 usable.
OrderedFiles ==
  { f \in Lists(1 .. MaxLen, 0 .. MaxOff, 0 .. MaxSlip) :
      InOrder(f) /\ (f.off[0] > 0 \/ f.n[0] = 0) }

McAddrs == 0 .. MaxAddr
=============================================================================
