---------------------------- MODULE AdaptorBase ----------------------------
(***************************************************************************)
(* What the doit programs under benchees have in common.  Each of them     *)
(* supplies can_do, setup, doit, done and those of the copy functions      *)
(* whose default does not fit its FFT.  A row, one operator of the problem *)
(* in the modules that extend this one, says what these routines do for    *)
(* that problem; Libbench is the row of a program that overrides nothing.  *)
(*                                                                         *)
(*   can      can_do accepts the problem, as far as it decides by itself   *)
(*   probes   the pointers that can_do sets and frees when it asks the FFT *)
(*            library, whose answer may be no                              *)
(*   stops    setup or doit cannot do the problem, and the process ends    *)
(*   cplx     the layout in which complex data are copied in and out       *)
(*   call     the layout of complex data that doit tells the FFT           *)
(*   real     the same pair for real data, in rows of some length ...      *)
(*   ld       ... and the length of a row that doit tells the FFT          *)
(*   herm     the layout of hermitian data in copy_c2h and copy_h2c        *)
(*   src, dst       the array that is copied to, and from                  *)
(*   reads, writes  the array from which, and to which, doit transforms    *)
(*   alloc    the static pointers that setup gives a block of its own      *)
(*   frees    the pointers that done frees                                 *)
(*                                                                         *)
(* How a result is scaled, and what the FFT itself does, is left out.      *)
(***************************************************************************)
EXTENDS Integers, Sequences, FiniteSets

Product(n) == LET P[i \in 0 .. Len(n)] == IF i = 0 THEN 1 ELSE n[i] * P[i - 1]
              IN P[Len(n)]

\* A problem: [prec, kind, rank, n, sign, inPlace, split]; size is PROD n[i].
IsComplex(q) == q.kind = "complex"
IsReal(q)    == q.kind = "real"
Single(q)    == q.prec = "single"
Double(q)    == q.prec = "double"
Size(q)      == Product(q.n)
LastDim(q)   == q.n[q.rank]
IsEven(x)    == x % 2 = 0

\* n & (n - 1) = 0: every divisor but 1 is even.
power_of_two(x) == \A d \in 2 .. x : x % d = 0 => IsEven(d)
log_2(x) == CHOOSE k \in 0 .. 25 : 2^k = x

\* Every dimension is a power of two, and none is 1 because most routines
\* choke for N=1; the last parameter asks for problems in or out of place.
problem_power_of_two(q, inPlace) ==
    /\ \A i \in 1 .. q.rank : q.n[i] # 1 /\ power_of_two(q.n[i])
    /\ q.inPlace = inPlace

\* The primes up to 113, those of the table of prime.c.
Primes == {f \in 2 .. 113 : \A g \in 2 .. f - 1 : f % g # 0}

\* The number of prime factors of n, or 0 when one is above maxprime; and
\* therefore 0 for n = 1.  The prime powers among the divisors are counted.
check_prime_factors(n, maxprime) ==
    LET P == {f \in Primes : f <= maxprime}
        Divisors == {x \in 2 .. n : n % x = 0}
    IN  IF \A x \in Divisors : \E f \in P : x % f = 0
        THEN Cardinality({x \in Divisors :
                              Cardinality({f \in P : x % f = 0}) = 1})
        ELSE 0
Factors(n, maxprime) == check_prime_factors(n, maxprime) # 0

-----------------------------------------------------------------------------
\* Rows of real data; in one dimension there is one row and no padding.
Rows(q, length) == <<"rows", IF q.rank = 1 THEN LastDim(q) ELSE length>>
Packed(q) == Rows(q, LastDim(q))                       \* copy_*_packed
Padded(q) == Rows(q, 2 * (LastDim(q) \div 2 + 1))      \* copy_*_unpacked

Libbench(q) ==
    [can |-> TRUE, probes |-> {}, stops |-> FALSE,
     cplx |-> "interleaved", call |-> "interleaved",
     real |-> Packed(q), ld |-> Packed(q), herm |-> "none",
     src |-> "in", reads |-> "in", writes |-> "out", dst |-> "out",
     alloc |-> {}, frees |-> {}]

\* doit hands the FFT one array, p->in.
OneArray(q) == [Libbench(q) EXCEPT !.writes = "in"]

\* The real and the imaginary parts one after the other: copy_c2ri and
\* copy_ri2c, and two pointers in the call.
Split(r) == [r EXCEPT !.cplx = "split", !.call = "split"]

\* The blocks that setup has from bench_malloc are those that done returns by
\* bench_free; where the two differ, the row says so.
Owns(r, B) == [r EXCEPT !.alloc = B, !.frees = B]

-----------------------------------------------------------------------------
\* The default copy_h2c and copy_c2h fail; those of libbench assert their
\* rank, and the packed ones an even size.  A layout of the program's own,
\* whose name begins with "own", is its own affair.
HermCopies(q, herm) ==
    /\ herm # "none"
    /\ herm \in {"fftpack", "halfcomplex", "unpacked_ri", "packed"} => q.rank = 1
    /\ herm = "packed" => IsEven(q.n[1])
=============================================================================
