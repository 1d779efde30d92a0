------------------------------ MODULE MCRouting ------------------------------
(* ObjectRouting with names of up to three tokens. *)
EXTENDS ObjectRouting

MCAdapterIds == {<<>>, <<"x">>, <<"x", ":", "y">>}
MCObjectIds == {<<>>, <<"y">>, <<"y", ":", "x">>, <<"y", "_enc">>}
MCOwnOid == <<"x">>
MCOtherOids == {<<"y", "_enc">>, <<"y", ":", "x">>, <<":", "x", "_enc", "y">>}
MCDataAccess == {<<"q", MCOwnOid>>}
=============================================================================
