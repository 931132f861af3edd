-------------------------------- MODULE Demux --------------------------------
(***************************************************************************)
(* The demultiplexers: from a secret index x below n to its unit vector of *)
(* length n, and to the zero vector where the condition is zero (the       *)
(* comparison is modelled without a condition).  The miner uses the one    *)
(* without bitpacking; the others are alternatives.                        *)
(* A vector of length k is a function on 0 .. k-1.                         *)
(***************************************************************************)
EXTENDS Integers, Optional

CONSTANTS
  Sizes,        \* the lengths asked for
  MaxBits,      \* max_bits_per_word, 64
  Prime         \* modulus of the polynomials

\* What the protocols need of their parameters.
ASSUME DemuxAssumption ==
  /\ Sizes \subseteq Nat \ {0, 1} /\ MaxBits \in {2^k : k \in 1 .. 6}
  /\ Prime \in Nat /\ \A a \in 1 .. Prime - 1 : \E b \in 1 .. Prime - 1 : (a * b) % Prime = 1
  /\ \A n \in Sizes : n + 1 < Prime

BitLength(n) == CHOOSE k \in 0 .. n : 2^k >= n /\ \A j \in 0 .. k-1 : 2^j < n
Bit(x, j) == (x \div 2^j) % 2

Zeros(k) == [i \in 0 .. k-1 |-> 0]
Scaled(f, c) == [i \in DOMAIN f |-> f[i] * c]
Minus(f, g) == [i \in DOMAIN f |-> f[i] - g[i]]
Prefix(f, n) == [i \in 0 .. n-1 |-> f[i]]

\* Two vectors of equal length one after the other.
Joined(f, g, k) == [i \in 0 .. 2*k - 1 |-> IF i < k THEN f[i] ELSE g[i-k]]

(***************************************************************************)
(* DemuxKellerWithoutBitpacking: a bit doubles the vector, into the half   *)
(* where it is zero and the half where it is one.                          *)
(***************************************************************************)

Doubled(p, bit, k) == Joined(Minus(p, Scaled(p, bit)), Scaled(p, bit), k)

\* The vector after each of the l bits.
Vectors(x, cond, l) ==
  LET p[j \in 0 .. l] ==
        IF j = 0 THEN [i \in {0} |-> cond] ELSE Doubled(p[j-1], Bit(x, j-1), 2^(j-1))
  IN  p

without_bitpacking(x, n, cond) == Prefix(Vectors(x, cond, BitLength(n))[BitLength(n)], n)

(***************************************************************************)
(* DemuxKeller: the same on words of up to MaxBits bits.                   *)
(***************************************************************************)

\* The first word is doubled until it is full, then the number of words.
WordDoubled(q, bit) ==
  IF q.total < MaxBits
  THEN [words |-> [i \in {0} |-> 2^q.total * (q.words[0] - bit * q.words[0]) + bit * q.words[0]],
        total |-> 2 * q.total, per |-> 2 * q.per]
  ELSE [words |-> Doubled(q.words, bit, q.total \div q.per), total |-> 2 * q.total, per |-> q.per]

\* The highest bit of a word comes first.
Unpacked(q, n) == [i \in 0 .. n-1 |-> Bit(q.words[i \div q.per], (q.per - 1) - (i % q.per))]

Packed(x, cond, l) ==
  LET q[j \in 1 .. l] ==
        IF j = 1
        THEN [words |-> [i \in {0} |-> (2 * (1 - Bit(x, 0)) + Bit(x, 0)) * cond], total |-> 2, per |-> 2]
        ELSE WordDoubled(q[j-1], Bit(x, j-1))
  IN  q

keller_batch(x, n, cond) == Unpacked(Packed(x, cond, BitLength(n))[BitLength(n)], n)

(***************************************************************************)
(* DemuxLaunchburry: products of the vectors of the two halves of the      *)
(* bits, the higher ones first.                                            *)
(***************************************************************************)

OuterProduct(f, g, k, m) == [i \in 0 .. k*m - 1 |-> f[i \div m] * g[i % m]]

\* The vectors of the bits number s[1] to s[2] of the reversed decomposition.
Spans(l) == {s \in (0 .. l-1) \X (0 .. l-1) : s[1] <= s[2]}
Products(x, cond, l) ==
  LET d[s \in Spans(l)] ==
        IF s[1] = s[2] THEN LET bit == Bit(x, l-1-s[1]) IN [i \in {0, 1} |-> (IF i = 0 THEN 1 - bit ELSE bit) * cond]
        ELSE LET size == s[2] - s[1] + 1
                 mid  == size \div 2
             IN  OuterProduct(d[<<s[1], s[1] + mid - 1>>], d[<<s[1] + mid, s[2]>>], 2^mid, 2^(size - mid))
  IN  d

launchburry(x, n, cond) == Prefix(Products(x, cond, BitLength(n))[<<0, BitLength(n) - 1>>], n)

(***************************************************************************)
(* DemuxByComparison: an entry is the difference of two comparisons.  With *)
(* a condition the index leaves the bit length of the comparisons, whose   *)
(* result is then not defined; only the use without one is modelled.       *)
(***************************************************************************)
by_comparison(x, n) ==
  LET AtLeast(i) == IF x >= i THEN 1 ELSE 0
  IN  [i \in 0 .. n-1 |-> IF i < n-1 THEN AtLeast(i) - AtLeast(i+1) ELSE AtLeast(i)]

(***************************************************************************)
(* DemuxByPolynomials.demux: entry i is the polynomial that is one at i+1  *)
(* and zero at the other points 1 to n+1, evaluated at x+1.                *)
(***************************************************************************)
Inverted(a) == CHOOSE b \in 1 .. Prime - 1 : (a * b) % Prime = 1

\* The product over the points 1 to k but the one of entry i.
Partial(i, y, k) ==
  LET f[j \in 0 .. k] ==
        IF j = 0 THEN 1
        ELSE IF j = i + 1 THEN f[j-1]
        ELSE (f[j-1] * (y - j) * Inverted((i + 1 - j) % Prime)) % Prime
  IN  f

\* Mutant: the point n+1 is left out.
LagrangeShort(n, i, y) == Partial(i, y, n)[n]

Lagrange(n, i, y) == Partial(i, y, n + 1)[n + 1]

by_polynomials(x, n, cond) ==
  LET point == IF cond = 1 THEN x ELSE n
  IN  [i \in 0 .. n-1 |-> Lagrange(n, i, point + 1)]

(***************************************************************************)
(* DemuxByShuffleReveal: a random unit vector (of position r, or zero) is  *)
(* turned by the opened difference of its position and x.                  *)
(***************************************************************************)
by_shuffle_reveal(x, n, cond, r, mask) ==
  LET size  == 2^BitLength(n)
      index == cond * r + (1 - cond) * mask
      shift == (x - index + size) % size
  IN  [i \in 0 .. n-1 |-> IF (i - shift + size) % size = r THEN cond ELSE 0]

VARIABLES
  call,     \* the arguments of a call
  result    \* by protocol, None before it returns

demuxVars == <<call, result>>

\* Coins are drawn for the shuffle and the mask of a call.
Calls == UNION {[n : {n}, x : 0 .. n-1, cond : {0, 1}, r : 0 .. 2^BitLength(n) - 1,
                 mask : 0 .. 2^BitLength(n) - 1] : n \in Sizes}

Protocols == {"without bitpacking", "Keller", "Launchburry", "comparison", "polynomials", "shuffle and reveal"}

DemuxInit == call \in Calls /\ result = None

Demultiplex ==
  /\ result = None
  /\ result' = [p \in Protocols |->
       CASE p = "without bitpacking" -> without_bitpacking(call.x, call.n, call.cond)
         [] p = "Keller"             -> keller_batch(call.x, call.n, call.cond)
         [] p = "Launchburry"        -> launchburry(call.x, call.n, call.cond)
         [] p = "comparison"         -> by_comparison(call.x, call.n)
         [] p = "polynomials"        -> by_polynomials(call.x, call.n, call.cond)
         [] p = "shuffle and reveal" -> by_shuffle_reveal(call.x, call.n, call.cond, call.r, call.mask)]
  /\ UNCHANGED call

DemuxSpec == DemuxInit /\ [][Demultiplex]_demuxVars

(***************************************************************************)
(* Properties.                                                             *)
(***************************************************************************)
UnitVector(x, n, cond) == [i \in 0 .. n-1 |-> IF i = x THEN cond ELSE 0]

\* The protocols return the unit vector at the position of the index: those that go
\* from bit to bit for lengths at and beside powers of two as well, whether the bits
\* are packed into one word, into several, or not at all; those of a constant number
\* of rounds whatever the random position and the mask are, and with the point of a
\* failed condition a root of every polynomial.  Of Keller's protocol the batch variant
\* is meant, of the polynomials the unbatched one, and the comparison is called without a
\* condition.  Keller's unbatched variant, the comparison with a condition and the batched
\* polynomials (demux.py:92-95, 263-269, 343-369) are not modelled: they are wrong.
DemuxIsUnitVector ==
  result # None =>
    /\ result["comparison"] = UnitVector(call.x, call.n, 1)
    /\ \A p \in Protocols \ {"comparison"} : result[p] = UnitVector(call.x, call.n, call.cond)
===============================================================================
