----------------------------- MODULE MCRowCodec -----------------------------
EXTENDS RowCodec

\* Empty, a byte that could be a length, one that could be a flag, two bytes.
MCBlobs == {<<>>, <<0>>, <<1>>, <<4, 255>>}

\* Those of the default scopes BIP0086 and BIP0049Plus.
MCSchemas == {[internal |-> 6, external |-> 6], [internal |-> 4, external |-> 3]}
=============================================================================
