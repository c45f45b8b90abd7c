--------------------- MODULE MCCandidateLiteralEnumerator -------------------
(***************************************************************************)
(* A small schema for CandidateLiteralEnumerator.                       *)
(***************************************************************************)
EXTENDS CandidateLiteralEnumerator

(* Two binary relations over one type, one of them keyed by its first
   argument.                                                               *)
BinaryTypes == [edge |-> <<"t", "t">>, next |-> <<"t", "t">>]
BinaryKey == [edge |-> 0, next |-> 1]
BinaryPredicates == DOMAIN BinaryTypes

OneArgument == <<"t">>
=============================================================================
