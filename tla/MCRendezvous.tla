---------------------------- MODULE MCRendezvous ----------------------------
(* Small instances of RendezvousBehaviour for TLC: a point p1 behind the   *)
(* relay p2, one registration and two searches with it by its circuit      *)
(* address, and one by an address that names neither.                      *)
EXTENDS RendezvousBehaviour

CONSTANTS p1, p2, n1, n2, tcp, circuit

Direct == <<tcp, p1>>
Circuit == <<tcp, p2, circuit, p1>>
Bare == <<tcp>>

TwoAddresses == {Circuit, Bare}
TwoWishes == TwoAddresses \X {n1}
TwoSearches == {<<Circuit, n1>>, <<Circuit, n2>>}

OneAddress == {Direct}
OneWish == {<<Direct, n1>>}
=============================================================================
