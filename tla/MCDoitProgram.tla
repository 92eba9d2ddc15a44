--------------------------- MODULE MCDoitProgram ---------------------------
(***************************************************************************)
(* Problems for TLC: of one to four dimensions, of sizes that are powers   *)
(* of two, products of small primes, odd, prime and one, so that every     *)
(* program accepts some of them and refuses others.                        *)
(***************************************************************************)
EXTENDS DoitProgram

MCSizes == {<<1>>, <<2>>, <<3>>, <<5>>, <<6>>, <<8>>, <<12>>, <<15>>, <<16>>,
            <<64>>, <<74>>, <<101>>,
            <<2, 2>>, <<4, 3>>, <<3, 4>>, <<6, 10>>, <<8, 8>>, <<1, 4>>,
            <<4, 4, 4>>, <<3, 4, 5>>, <<12, 6, 10>>, <<8, 8, 8>>,
            <<2, 2, 2, 2>>}

P(prec, kind, n, sign, inPlace, split) ==
    [prec |-> prec, kind |-> kind, rank |-> Len(n), n |-> n, sign |-> sign,
     inPlace |-> inPlace, split |-> split]

\* A '/' in the problem is a matter of complex data.
MCProblems ==
    {P(prec, kind, n, sign, inPlace, FALSE) :
         prec \in {"single", "double"}, kind \in {"complex", "real"},
         n \in MCSizes, sign \in {-1, 1}, inPlace \in BOOLEAN}
    \cup {P("single", "complex", n, -1, TRUE, TRUE) : n \in {<<8>>, <<3, 4, 5>>}}
=============================================================================
