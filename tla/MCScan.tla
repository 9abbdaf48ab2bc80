------------------------------- MODULE MCScan -------------------------------
(* The store of the model-checked scans: one entry for each way a blob can *)
(* go through a scan.                                                      *)
EXTENDS Naturals

Plain    == [nul |-> FALSE, garbled |-> FALSE, expressions |-> <<>>, spdx |-> FALSE]
Licensed == [Plain EXCEPT !.expressions = <<"MIT">>]
Declared == [Plain EXCEPT !.spdx = TRUE]
Binary   == [Plain EXCEPT !.nul = TRUE, !.garbled = TRUE]
Garbled  == [Plain EXCEPT !.garbled = TRUE]

Blob(size, legal, content) ==
  [type |-> "blob", size |-> size, servedType |-> "blob", servedSize |-> size,
   legal |-> legal, content |-> content]

(* With MaxBlobSize = 1 and LegalBlobSize = 2: a licence text, a legal one *)
(* that only its own limit lets in, and the same size without the path.    *)
License    == Blob(1, FALSE, Licensed)
BigLegal   == Blob(2, TRUE, Licensed)
BigOther   == Blob(2, FALSE, Licensed)
Nothing    == Blob(1, FALSE, Plain)
Declares   == Blob(1, FALSE, Declared)
BinaryBlob == Blob(0, FALSE, Binary)
Unreadable == Blob(1, FALSE, Garbled)
Tree       == [Nothing EXCEPT !.type = "other", !.servedType = "other"]
(* refs/replace: what is read is larger than listed, or no blob at all.    *)
Grown      == [License EXCEPT !.servedSize = 2]
Replaced   == [License EXCEPT !.servedType = "other"]

Kinds == <<License, BigLegal, BigOther, Nothing, BinaryBlob, Tree, Grown, Replaced,
           Declares, Unreadable>>

Rank(entry) == CHOOSE i \in DOMAIN Kinds : Kinds[i] = entry

(* With objects numbered, one of the stores that differ only in the names  *)
(* of the objects stands for all: the listing has no order of its own.     *)
InKindOrder(store) ==
  \A b, c \in DOMAIN store : b < c => Rank(store[b]) <= Rank(store[c])
=============================================================================
