----------------------------- MODULE AssetsLimits ------------------------------
(* The limits of an asset inventory, and the callers that share it. *)
EXTENDS Naturals

CONSTANTS
  Callers,     (* threads that hold the inventory                          *)
  BlobSizes,   (* byte lengths of the blobs they make                      *)
  MaxItems,    (* MAX_ITEMS                                                *)
  MaxBytes,    (* MAX_BYTES                                                *)
  MaxDecoded,  (* MAX_DECODED, the limit on an attached literal            *)
  MaxId,       (* the largest id: u64::MAX in the code                     *)
  MaxBlobs     (* bound: blobs made over the whole run                     *)

ASSUME AssetsAssumption ==
  /\ BlobSizes \subseteq Nat
  /\ MaxItems \in Nat /\ MaxBytes \in Nat /\ MaxDecoded \in Nat
  /\ MaxId \in Nat /\ MaxBlobs \in Nat
===============================================================================
