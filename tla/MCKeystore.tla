---------------------------- MODULE MCKeystore -----------------------------
EXTENDS Keystore

CONSTANTS k1, ks, ki, v1, v2

MCKeyIds == {k1, ks, ki}
MCValues == {v1, v2}
=============================================================================
