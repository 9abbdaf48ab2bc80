-------------------------- MODULE MCGoGitSerialScan --------------------------
EXTENDS GoGitSerialScan, MCScan

(* One blob alone heavier than a batch, two that do not fit together.      *)
SerialEntries == {License, BigLegal, BigOther, Nothing, BinaryBlob, Tree}
=============================================================================
