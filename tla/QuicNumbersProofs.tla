------------------------- MODULE QuicNumbersProofs --------------------------
(***************************************************************************)
(* The receiver recovers every packet number it can be expected to.        *)
(***************************************************************************)
EXTENDS QuicNumbers, TLAPS

\* What \div and % are.
LEMMA Division ==
    ASSUME NEW a \in Nat, NEW b \in Nat, b > 0
    PROVE /\ a \div b \in Nat /\ a % b \in Nat /\ a % b < b
          /\ a = (a \div b) * b + (a % b)
OBVIOUS

\* An even number times another is positive and even: hwin has no remainder.
LEMMA Halves ==
    ASSUME NEW n \in Nat, n > 0
    PROVE PnBase * n \in Nat /\ PnBase * n > 0 /\ 2 * ((PnBase * n) \div 2) = PnBase * n
<1> DEFINE h == PnBase \div 2
<1>1. h \in Nat /\ PnBase = 2 * h /\ h > 0
  BY QuicNumbersAssumption
<1> HIDE DEF h
<1>2. h * n \in Nat /\ h * n > 0
  BY <1>1
<1>3. PnBase * n = 2 * (h * n)
  BY <1>1
<1>4. QED
  BY <1>2, <1>3

\* So is every window.
LEMMA Windows ==
    ASSUME NEW win \in {Window1, Window2, Window3, Window4}
    PROVE win \in Nat /\ win > 0 /\ 2 * (win \div 2) = win
<1>1. Window1 \in Nat /\ Window1 > 0 /\ 2 * (Window1 \div 2) = Window1
  BY QuicNumbersAssumption DEF Window1
<1>2. Window2 \in Nat /\ Window2 > 0 /\ 2 * (Window2 \div 2) = Window2
  BY <1>1, Halves DEF Window2
<1>3. Window3 \in Nat /\ Window3 > 0 /\ 2 * (Window3 \div 2) = Window3
  BY <1>2, Halves DEF Window3
<1>4. Window4 \in Nat /\ Window4 > 0 /\ 2 * (Window4 \div 2) = Window4
  BY <1>3, Halves DEF Window4
<1>5. QED
  BY <1>1, <1>2, <1>3, <1>4

\* A number within half a window of the expected one is found from its low part.
LEMMA Nearest ==
    ASSUME NEW win \in Nat, win > 0, NEW half \in Nat, win = 2 * half, win \div 2 = half,
           NEW pn \in Nat, pn < PnLimit,
           NEW largest \in Int, largest >= -1,
           pn - (largest + 1) < half, (largest + 1) - pn < half
    PROVE decodePN(largest, pn % win, win) = pn
<1> DEFINE expected == largest + 1
           q == expected \div win
           p == pn \div win
           t == pn % win
           candidate == q * win + t
<1>1. expected \in Nat
  OBVIOUS
<1>2. p \in Nat /\ t \in Nat /\ t < win /\ pn = p * win + t
  BY Division
<1>3. q \in Nat /\ q * win <= expected /\ expected < q * win + win
  <2>1. q \in Nat /\ expected % win \in Nat /\ expected % win < win /\ expected = q * win + (expected % win)
    BY <1>1, Division
  <2>2. QED
    BY <1>1, <2>1
<1>4. p * win \in Nat /\ q * win \in Nat
  BY <1>2, <1>3
<1>5. decodePN(largest, pn % win, win)
        = IF candidate + half <= expected /\ candidate < PnLimit - win THEN candidate + win
          ELSE IF candidate > expected + half /\ candidate >= win THEN candidate - win
          ELSE candidate
  BY DEF decodePN
<1> HIDE DEF q, p, t, expected
<1>6. p = q \/ p = q + 1 \/ p + 1 = q
  <2>1. CASE p >= q + 2
    <3>1. p - q - 2 \in Nat
      BY <1>2, <1>3, <2>1
    <3>2. p * win = q * win + 2 * win + (p - q - 2) * win /\ (p - q - 2) * win \in Nat
      BY <1>2, <1>3, <3>1
    <3>3. QED
      BY <1>1, <1>2, <1>3, <1>4, <3>2 DEF expected
  <2>2. CASE q >= p + 2
    <3>1. q - p - 2 \in Nat
      BY <1>2, <1>3, <2>2
    <3>2. q * win = p * win + 2 * win + (q - p - 2) * win /\ (q - p - 2) * win \in Nat
      BY <1>2, <1>3, <3>1
    <3>3. QED
      BY <1>1, <1>2, <1>3, <1>4, <3>2 DEF expected
  <2>3. QED
    BY <1>2, <1>3, <2>1, <2>2
<1>7. candidate = pn \/ candidate + win = pn \/ candidate = pn + win
  <2>1. p = q + 1 => p * win = q * win + win
    BY <1>2, <1>3
  <2>2. p + 1 = q => q * win = p * win + win
    BY <1>2, <1>3
  <2>3. QED
    BY <1>2, <1>3, <1>4, <1>6, <2>1, <2>2
<1>8. candidate \in Nat
  BY <1>2, <1>4
<1> HIDE DEF candidate
<1>9. QED
  BY <1>1, <1>5, <1>7, <1>8, QuicNumbersAssumption DEF expected

\* A packet's number survives the truncation by pnLen and decodePN: whatever the
\* receiver has seen beyond what the sender knows it has (largestAcked), provided
\* four bytes are enough for what is unacknowledged, and the packet was not
\* overtaken by half a window of later ones.
THEOREM NumberRecovered ==
    ASSUME NEW pn \in Nat, pn < PnLimit,
           NEW largestAcked \in Int, -1 <= largestAcked, largestAcked < pn,
           NEW largest \in Int, largestAcked <= largest,
           pn - largestAcked < Window4 \div 2,
           (largest + 1) - pn < pnWindow(pn, largestAcked) \div 2
    PROVE LET win == pnWindow(pn, largestAcked) IN decodePN(largest, pn % win, win) = pn
<1> DEFINE win == pnWindow(pn, largestAcked)
           half == win \div 2
<1>1. win \in {Window1, Window2, Window3, Window4}
  BY DEF pnWindow
<1>2. win \in Nat /\ win > 0 /\ half \in Nat /\ win = 2 * half
  BY <1>1, Windows
<1>3. unacked(pn, largestAcked) = pn - largestAcked
  BY DEF unacked
<1>4. pn - largestAcked < half
  BY <1>3 DEF pnWindow
<1>5. pn - (largest + 1) < half
  BY <1>2, <1>4
<1> HIDE DEF win
<1>6. decodePN(largest, pn % win, win) = pn
  BY <1>2, <1>5, Nearest DEF win
<1>7. QED
  BY <1>6 DEF win
=============================================================================
