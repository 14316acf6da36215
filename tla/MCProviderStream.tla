-------------------------- MODULE MCProviderStream --------------------------
EXTENDS ProviderStream

(* a call is named by its first piece; its arguments arrive whole or in two *)
NamePieces == {<< >>, <<"name">>}
ArgumentPieces == {<<"open">>, <<"close">>, <<"open", "close">>}
=============================================================================
