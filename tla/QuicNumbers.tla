---------------------------- MODULE QuicNumbers -----------------------------
(***************************************************************************)
(* Packet numbers (http3/internal/quic/packet.go): a packet carries the    *)
(* low bytes of its number, as many as the sender thinks its peer needs,   *)
(* and the peer finds the number nearest to the one it expects.            *)
(***************************************************************************)
EXTENDS Integers

CONSTANTS PnBase,   \* the values of one byte, 256
          PnLimit   \* packet numbers there are, 2^62

ASSUME QuicNumbersAssumption == PnBase \in Nat /\ PnBase >= 2 /\ PnBase % 2 = 0 /\ PnLimit \in Nat

Window1 == PnBase
Window2 == PnBase * Window1
Window3 == PnBase * Window2
Window4 == PnBase * Window3

unacked(pn, largestAcked) == IF largestAcked < 0 THEN pn + 1 ELSE pn - largestAcked

\* The numbers that as many bytes as pnLen says can tell apart.
pnWindow(pn, largestAcked) ==
  IF unacked(pn, largestAcked) < Window1 \div 2 THEN Window1
  ELSE IF unacked(pn, largestAcked) < Window2 \div 2 THEN Window2
  ELSE IF unacked(pn, largestAcked) < Window3 \div 2 THEN Window3
  ELSE Window4

decodePN(largest, truncated, win) ==
  LET expected == largest + 1
      candidate == (expected \div win) * win + truncated
  IN IF candidate + win \div 2 <= expected /\ candidate < PnLimit - win THEN candidate + win
     ELSE IF candidate > expected + win \div 2 /\ candidate >= win THEN candidate - win
     ELSE candidate
=============================================================================
