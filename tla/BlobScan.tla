------------------------------ MODULE BlobScan ------------------------------
(***************************************************************************)
(* What a blob scan promises its caller, whatever the backend that feeds   *)
(* it and however many goroutines it runs.                                 *)
(*                                                                         *)
(* scanBlobsWithLegal (main.go) fills an index that the caller reads only  *)
(* through lookup, and returns either an error or success.  The promise:   *)
(* while the scan runs, the answers of lookup move from "nothing found" to *)
(* the reference answer of the blob and never anywhere else; success is    *)
(* reported only when every blob has its reference answer; and once the    *)
(* scan has returned nothing moves any more.                               *)
(***************************************************************************)

CONSTANTS
  Blobs,      (* The object names of the store.                            *)
  Results,    (* The values of the Go type blobResult.                     *)
  Empty       (* The zero blobResult: nothing found, nothing skipped.      *)

VARIABLES
  reference,  (* The answer each blob must get; fixed by the store.        *)
  answer,     (* The answer lookup gives now.                              *)
  outcome     (* "running", "ok" or "failed".                              *)

vars == <<reference, answer, outcome>>

Init ==
  /\ reference \in [Blobs -> Results]
  /\ answer = [b \in Blobs |-> Empty]
  /\ outcome = "running"

(* A blob gets its answer.                                                 *)
Record(b) ==
  /\ outcome = "running"
  /\ answer[b] = Empty
  /\ answer' = [answer EXCEPT ![b] = reference[b]]
  /\ UNCHANGED <<reference, outcome>>

(* The scan returns success.                                               *)
Succeed ==
  /\ outcome = "running"
  /\ answer = reference
  /\ outcome' = "ok"
  /\ UNCHANGED <<reference, answer>>

(* The scan returns an error; the caller then discards the index.          *)
Fail ==
  /\ outcome = "running"
  /\ outcome' = "failed"
  /\ UNCHANGED <<reference, answer>>

Next ==
  \/ \E b \in Blobs : Record(b)
  \/ Succeed
  \/ Fail

(* The scan returns.                                                       *)
Returns == <>(outcome # "running")

Safety == Init /\ [][Next]_vars

Spec == Safety /\ Returns
=============================================================================
