-------------------------- MODULE MCUploadPipeline --------------------------
(* Instances of UploadPipeline for TLC. *)
EXTENDS UploadPipeline, TLC

CONSTANTS s12, s25   \* the resized objects 12x12 and 25x25

BothSizes == {s12, s25}
OneSize == {s12}
Reliable == {}
LaggingStores == {"row", "objects"}
LaggingRow == {"row"}

SizeSymmetry == Permutations(BothSizes)
=============================================================================
