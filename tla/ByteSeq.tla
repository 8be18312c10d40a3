------------------------------- MODULE ByteSeq -------------------------------
(***************************************************************************)
(* Byte sequences and the grammar of terminal escape sequences, for the    *)
(* two programs that take them apart: the stdin filter of the launcher and *)
(* StripANSI of the backend.  Bytes are numbers.                           *)
(***************************************************************************)
EXTENDS Naturals, Sequences, FiniteSets

ESC == 27

\* Byte classes of a CSI sequence.
Final(b) == b \in 64..126
ParamOrIntermediate(b) == b \in 32..63

\* A whole CSI sequence: ESC [, parameters, final byte.
IsCsi(s) ==
  /\ Len(s) >= 3
  /\ s[1] = ESC /\ s[2] = 91
  /\ \A i \in 3..(Len(s) - 1) : ParamOrIntermediate(s[i])
  /\ Final(s[Len(s)])

\* The positions of the escapes.
Escapes(s) == {i \in DOMAIN s : s[i] = ESC}

\* The position of P that k of its positions do not exceed.
Rank(P, p) == Cardinality({q \in P : q <= p})
Nth(P, k) == CHOOSE p \in P : Rank(P, p) = k

\* The bytes of s at the positions of P, in order.
Pick(s, P) == [k \in 1..Cardinality(P) |-> s[Nth(P, k)]]

=============================================================================
