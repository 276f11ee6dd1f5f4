------------------------------ MODULE MCCodec ------------------------------
\* Codec on files of one to three rows.
EXTENDS Codec

\* my_k = my_n / 2 + 1, for three to six storages.
MCCodes == {<<3, 2>>, <<4, 3>>, <<5, 3>>, <<6, 4>>}
MCMessages == {<<83>>, <<0, 255, 7>>, <<200, 1, 0, 29, 6>>}

\* Two transfers at once: files of an older and of a newer configuration.
MCSharedCodes == {<<3, 2>>, <<5, 3>>}
=============================================================================
