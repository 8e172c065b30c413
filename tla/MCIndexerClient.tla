-------------------------- MODULE MCIndexerClient ---------------------------
(***************************************************************************)
(* TLC instance of IndexerClient: a validator with one consensus instance  *)
(* which signs, like every instance, under NAMESPACE and its own number    *)
(* (validator.rs, where the engines are configured).                       *)
(***************************************************************************)
EXTENDS IndexerClient

MCNamespace == [i \in Instances |-> <<"_ALTO", i>>]
MCClientNamespace == <<"_ALTO">>
=============================================================================
