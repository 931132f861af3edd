----------------------------- MODULE SecretState -----------------------------
(***************************************************************************)
(* The persistent state of the parties over the computations of a handler: *)
(* the handler shares its secrets (shamir.py) and writes one file per      *)
(* party before a computation, the parties read and replace the state, and *)
(* afterwards the handler reads the shares and reconstructs the secrets,   *)
(* which the next computation starts from (neonhandler.py:834-898,         *)
(* MPSPDZClient.py:451-546).  Files hold Montgomery representations.       *)
(*                                                                         *)
(* The parties are external: they leave the state alone, replace it by a   *)
(* sharing of a new value, or fail with some of them done.  One secret     *)
(* stands for the list of them.                                            *)
(***************************************************************************)
EXTENDS Integers, FiniteSets, Optional

CONSTANTS
  Primes,        \* the moduli a computation may be configured with
  PartyCounts,   \* the numbers of parties
  Word,          \* size of a machine word, 2^64
  Values,        \* the secrets
  MaxRuns        \* bound: how many computations are run

\* The moduli are primes that do not divide a word, as powers of two do not have an odd
\* factor, and greater than the number of parties.
ASSUME StateAssumption ==
  /\ Primes \subseteq Nat \ {0,1}
  /\ \A p \in Primes : \A a \in 1 .. p - 1 : \E b \in 1 .. p - 1 : (a * b) % p = 1
  /\ Word \in Nat \ {0,1} /\ \A p \in Primes : Word % p # 0
  /\ PartyCounts \subseteq Nat \ {0} /\ \A p \in Primes : \A n \in PartyCounts : n < p
  /\ Values \subseteq Int /\ MaxRuns \in Nat
  /\ None \notin Int /\ \A n \in PartyCounts : \A t \in 1 .. n : None \notin [0 .. t - 1 -> Int]

VARIABLES
  prime, n_parties, supported, \* the configuration of the next computation
  secrets,       \* the handler's secret, None for the empty list
  file,          \* Transactions-P<id>.data of each party
  lagrange,      \* the cached coefficients of each threshold
  phase, runs,
  truth,         \* history: the value the files share, None if they share none
  cached_for     \* history: the prime each cached entry was computed with

stateVars == <<prime, n_parties, supported, secrets, file, lagrange, phase, runs, truth, cached_for>>

\* Half of the parties, rounded up, for the protocols that support secrets.
get_threshold(n) == (n + 1) \div 2

Parties == 0 .. n_parties - 1
PartyIds == UNION {0 .. n - 1 : n \in PartyCounts}
Thresholds == {get_threshold(n) : n \in PartyCounts}

\* What a loop over the first n values adds up, and multiplies.
Total(v, n)   == LET s[i \in 0 .. n] == IF i = 0 THEN 0 ELSE s[i-1] + v[i-1] IN s[n]
Product(v, n) == LET s[i \in 0 .. n] == IF i = 0 THEN 1 ELSE s[i-1] * v[i-1] IN s[n]
Power(x, n)   == Product([i \in Nat |-> x], n)

mod_inverse(a, m) == CHOOSE b \in 0 .. m - 1 : (a * b) % m = 1 % m

\* The least power of a word that is not less than the prime.
get_R_for_prime(p) == Power(Word, CHOOSE k \in 1 .. p : Power(Word, k) >= p /\ \A j \in 1 .. k - 1 : Power(Word, j) < p)

_convert_int_to_montgomery(x, p) == (x * get_R_for_prime(p)) % p
_convert_montgomery_to_int(x, p) == (x * mod_inverse(get_R_for_prime(p), p)) % p

\* Highest power first; the last coefficient is the secret.
polynom(x, c, p) ==
  LET d == Cardinality(DOMAIN c)
  IN  Total([i \in 0 .. d - 1 |-> Power(x, d - i - 1) * c[i]], d) % p

\* Some random coefficients, or in the insecure variant no sharing at all.
generate_shares(n, t, secret, p) ==
  {[i \in 0 .. n - 1 |-> polynom(i + 1, c, p)] : c \in {d \in [0 .. t - 1 -> 0 .. p - 1] : d[t-1] = secret % p}}
generate_shares_insecurely(n, secret) == {[i \in 0 .. n - 1 |-> secret]}

\* Mutant: the numerators are left out.
denominators_only(t, p) ==
  [j \in 0 .. t - 1 |-> Product([i \in 0 .. t - 1 |-> IF i = j THEN 1 ELSE mod_inverse(i - j, p)], t)]

lagrange_coefficients(t, p) ==
  [j \in 0 .. t - 1 |-> Product([i \in 0 .. t - 1 |-> IF i = j THEN 1 ELSE (i + 1) * mod_inverse(i - j, p)], t)]

combine(shares, c, t, p) == Total([j \in 0 .. t - 1 |-> shares[j] * c[j]], t) % p

(***************************************************************************)
(* The computations of a handler                                           *)
(***************************************************************************)

StateInit ==
  /\ prime \in Primes /\ n_parties \in PartyCounts /\ supported \in BOOLEAN
  /\ secrets \in Values \cup {None}
  /\ file = [i \in PartyIds |-> None]
  /\ lagrange = [t \in Thresholds |-> None] /\ cached_for = [t \in Thresholds |-> None]
  /\ phase = "idle" /\ runs = 0 /\ truth = None

\* set_number_of_parties, set_protocol and the prime of the configuration.
Configure ==
  /\ phase = "idle"
  /\ prime' \in Primes /\ n_parties' \in PartyCounts /\ supported' \in BOOLEAN
  /\ UNCHANGED <<secrets, file, lagrange, phase, runs, truth, cached_for>>

set_secrets ==
  /\ phase = "idle" /\ secrets' \in Values \cup {None}
  /\ UNCHANGED <<prime, n_parties, supported, file, lagrange, phase, runs, truth, cached_for>>

\* The files of the parties that take part; those of others stay.
clean_folders == [i \in PartyIds |-> IF i \in Parties THEN None ELSE file[i]]
write_shares(s) == [i \in PartyIds |-> IF i \in Parties THEN _convert_int_to_montgomery(s[i], prime) ELSE file[i]]

\* __prepare_smpc, and __distribute_shares if there are secrets.  That the protocol does
\* not support them is an exception that is made and not raised, unless the protocol has
\* no threshold.
prepare_smpc ==
  /\ phase = "idle" /\ runs < MaxRuns /\ runs' = runs + 1
  /\ phase' = "computing"
  /\ IF secrets = None
     THEN file' = clean_folders /\ truth' = None
     ELSE /\ \E s \in generate_shares(n_parties, get_threshold(n_parties), secrets, prime)
                     \cup generate_shares_insecurely(n_parties, secrets) : file' = write_shares(s)
          /\ truth' = secrets % prime
  /\ UNCHANGED <<prime, n_parties, supported, secrets, lagrange, cached_for>>

\* The parties replace the state, all of them or those that do not fail.
Compute ==
  /\ phase = "computing" /\ phase' = "finished"
  /\ \E v \in Values, done \in SUBSET Parties :
       \E s \in generate_shares(n_parties, get_threshold(n_parties), v, prime) :
         /\ file' = [i \in PartyIds |-> IF i \in done THEN _convert_int_to_montgomery(s[i], prime) ELSE file[i]]
         /\ truth' = IF done = Parties THEN v % prime ELSE IF done = {} THEN truth ELSE None
  /\ UNCHANGED <<prime, n_parties, supported, secrets, lagrange, runs, cached_for>>

read_shares == [i \in Parties |-> IF file[i] = None THEN None ELSE _convert_montgomery_to_int(file[i], prime)]

\* __recover_shares.  The first party's file tells how many secrets there are; another
\* missing one is an exception that ends the computation without a report.
recover_shares ==
  /\ phase = "finished" /\ phase' = "recovered"
  /\ LET t == get_threshold(n_parties)
         coefficients == IF lagrange[t] = None THEN lagrange_coefficients(t, prime) ELSE lagrange[t]
     IN  IF ~supported
         THEN secrets' = None /\ UNCHANGED <<lagrange, cached_for>>
         ELSE /\ lagrange' = [lagrange EXCEPT ![t] = coefficients]
              /\ cached_for' = [cached_for EXCEPT ![t] = IF @ = None THEN prime ELSE @]
              /\ secrets' = IF file[0] = None THEN None
                            ELSE IF \E j \in 0 .. t - 1 : file[j] = None THEN secrets
                            ELSE combine(read_shares, coefficients, t, prime)
  /\ UNCHANGED <<prime, n_parties, supported, file, runs, truth>>

NextComputation ==
  /\ phase = "recovered" /\ phase' = "idle"
  /\ UNCHANGED <<prime, n_parties, supported, secrets, file, lagrange, runs, truth, cached_for>>

StateNext == Configure \/ set_secrets \/ prepare_smpc \/ Compute \/ recover_shares \/ NextComputation

StateSpec == StateInit /\ [][StateNext]_stateVars

(***************************************************************************)
(* Properties                                                              *)
(***************************************************************************)

\* After a computation the handler has the very value its parties share, whatever
\* sharing was drawn, whether they replaced the state, and over changes of the number
\* of parties, as long as the cached coefficients are of the prime in use; and what it
\* shares again for the next computation is that value (shamir.py:108-159).
ReconstructsUnderOnePrime ==
  (phase = "recovered" /\ supported /\ cached_for[get_threshold(n_parties)] = prime
     /\ \A i \in Parties : file[i] # None) =>
    (truth # None => secrets = truth)
==============================================================================
