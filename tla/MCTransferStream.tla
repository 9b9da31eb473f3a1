-------------------------- MODULE MCTransferStream --------------------------
(***************************************************************************)
(* Instances of TransferStream for TLC.  Five chunks make the Merkle tree  *)
(* odd at two levels, so proofs use self-paired siblings.                  *)
(***************************************************************************)
EXTENDS TransferStream

\* Ten bytes in chunks of two: five full chunks.
AlignedData == <<1, 0, 0, 1, 1, 1, 0, 0, 1, 0>>
=============================================================================
