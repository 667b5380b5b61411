---------------------------- MODULE MCWalletFile ----------------------------
(* A pool of one key, two when topped up, and room to turn it over.        *)
EXTENDS WalletFile
=============================================================================
