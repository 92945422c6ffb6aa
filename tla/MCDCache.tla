------------------------------ MODULE MCDCache ------------------------------
(* Instances of DCache for TLC.                                              *)
EXTENDS DCache

CONSTANTS t1, t2

WrittenNone == {}
WrittenLast == {<<<<t1, 0>>, NumBeats - 1>>}
UncachedNone == {}
UncachedOne == {<<t1, 1>>}
WrittenUncached == {<<<<t1, 1>>, 0>>}
=============================================================================
