----------------------------- MODULE SlipOracle -----------------------------
(***************************************************************************)
(* What the slip list of a G4 layout promises, without arrays, cumulative  *)
(* counts or searches: calls about a set of slipped layout addresses are   *)
(* answered one at a time.                                                 *)
(***************************************************************************)
EXTENDS Integers, FiniteSets

CONSTANTS Files, Addrs

VARIABLES file, \* the Slips list
          call, \* <<operation, address>> being served, or <<>>
          ans   \* the last answer

oracleVars == <<file, call, ans>>

\* The layout addresses the list skips.
Slipped == UNION { file.off[k] .. file.off[k] + file.n[k] - 1 : k \in 0 .. file.len - 1 }

SlippedBelow(p) == Cardinality({ s \in Slipped : s < p })

\* LBN a is the a-th usable layout address, counting from 0.  No address needs
\* to move by more than the number of slipped ones.
Shift(a) ==
  CHOOSE c \in 0 .. Cardinality(Slipped) :
    a + c \notin Slipped /\ SlippedBelow(a + c) = c

Answer(o, a) ==
  IF o = "slipcount" THEN Shift(a)
  ELSE IF a \in Slipped THEN -1 ELSE SlippedBelow(a)

Init == file \in Files /\ call = <<>> /\ ans = 0

Call(o, a) == call = <<>> /\ call' = <<o, a>> /\ UNCHANGED <<file, ans>>

Return ==
  /\ call # <<>>
  /\ ans' = Answer(call[1], call[2])
  /\ call' = <<>>
  /\ UNCHANGED file

Next == Return \/ \E o \in {"slipcount", "slipcount_rev"}, a \in Addrs : Call(o, a)

Spec == Init /\ [][Next]_oracleVars /\ WF_oracleVars(Return)
=============================================================================
