------------------------------- MODULE Stores -------------------------------
(***************************************************************************)
(* The two stores one upload lives in: its row of the Postgres table       *)
(* "uploads" (internal/metadata) and the objects under its id in the MinIO *)
(* bucket (internal/storage).  Uploads share no row and no object, so one  *)
(* upload is the whole store as far as the pipeline is concerned.          *)
(*                                                                         *)
(* A call to a store either succeeds, or the caller does not learn that it *)
(* did: the call returned an error, its context expired or the calling     *)
(* process died.  In the second case the write may have been applied, or   *)
(* lost, or, for a store in Lagging, be applied at some later moment (a    *)
(* statement the server still executes after the client hung up).          *)
(***************************************************************************)
EXTENDS Naturals, FiniteSets

CONSTANTS
    Variants,     \* names of the resized objects, "12x12" and "25x25"
    MaxAttempts,  \* RetryPolicy.MaximumAttempts of the workflow's activities
    MaxPuts,      \* bound: PUTs of the original one client sends
    Lagging       \* stores that may apply a write after its caller gave up

ASSUME VariantsAssumption == IsFiniteSet(Variants)
ASSUME BoundsAssumption == MaxAttempts \in Nat \ {0} /\ MaxPuts \in Nat
ASSUME LaggingAssumption == Lagging \subseteq {"row", "objects"}

VARIABLES
    row,         \* status column of the upload's row, "none" without a row
    original,    \* the object id/original
    variant,     \* the objects id/12x12 and id/25x25
    lateRow,     \* writes of the row whose callers have given up on them
    lateDelete,  \* deletions of the original, likewise: their attempts
    latePut      \* writes of the variants, likewise

rowVars == <<row, lateRow>>
objectVars == <<original, variant, lateDelete, latePut>>
storeVars == <<row, original, variant, lateRow, lateDelete, latePut>>

Terminal == {"complete", "failed", "rejected", "abandoned"}
Statuses == {"pending", "validating", "processing"} \cup Terminal
Attempts == 1 .. MaxAttempts

\* What the properties tell apart in an image: which PUT wrote it, and whether
\* it sniffs as JPEG or PNG (all but "badtype"), is within maxImageBytes (all
\* but "toolarge") and decodes ("image", and a "toolarge" one may).
Kinds == {"image", "corrupt", "badtype", "toolarge"}
Bodies == [put : 1 .. MaxPuts, kind : Kinds]
NoObject == [put |-> 0, kind |-> "absent"]
Objects == Bodies \cup {NoObject}

RowWrites == [status : Statuses, attempt : Attempts]
VariantPuts == [variant : Variants, attempt : Attempts, body : Bodies]

StoresInit ==
    /\ row = "none"
    /\ original = NoObject
    /\ variant = [v \in Variants |-> NoObject]
    /\ lateRow = {}
    /\ lateDelete = {}
    /\ latePut = {}

(***************************************************************************)
(* Statements on the row.  The UPDATE names no expected status, and one    *)
(* that matches no row is not an error.                                    *)
(***************************************************************************)
Written(s) == IF s # "pending" /\ row = "none" THEN "none" ELSE s

\* Repository.Create and Repository.UpdateStatus when they return nil.
WriteRow(s) == row' = Written(s) /\ UNCHANGED lateRow

\* The same calls when their caller does not learn of a success.
WriteRowErrs(s, n) ==
    \/ WriteRow(s)
    \/ UNCHANGED rowVars
    \/ /\ "row" \in Lagging
       /\ lateRow' = lateRow \cup {[status |-> s, attempt |-> n]}
       /\ UNCHANGED row

\* A statement its caller had given up on is executed after all.
LateRowLands ==
    \E w \in lateRow :
        /\ row' = Written(w.status)
        /\ lateRow' = lateRow \ {w}
        /\ UNCHANGED objectVars

(***************************************************************************)
(* Requests on the objects.  Nothing ever deletes a variant.               *)
(***************************************************************************)
DeleteOriginal == original' = NoObject /\ UNCHANGED <<variant, lateDelete, latePut>>

DeleteOriginalErrs(n) ==
    \/ DeleteOriginal
    \/ UNCHANGED objectVars
    \/ /\ "objects" \in Lagging
       /\ lateDelete' = lateDelete \cup {n}
       /\ UNCHANGED <<original, variant, latePut>>

PutVariant(v, b) ==
    /\ variant' = [variant EXCEPT ![v] = b]
    /\ UNCHANGED <<original, lateDelete, latePut>>

PutVariantErrs(v, n, b) ==
    \/ PutVariant(v, b)
    \/ UNCHANGED objectVars
    \/ /\ "objects" \in Lagging
       /\ latePut' = latePut \cup {[variant |-> v, attempt |-> n, body |-> b]}
       /\ UNCHANGED <<original, variant, lateDelete>>

LateDeleteLands ==
    \E n \in lateDelete :
        /\ original' = NoObject
        /\ lateDelete' = lateDelete \ {n}
        /\ UNCHANGED <<variant, latePut, row, lateRow>>

LatePutLands ==
    \E w \in latePut :
        /\ variant' = [variant EXCEPT ![w.variant] = w.body]
        /\ latePut' = latePut \ {w}
        /\ UNCHANGED <<original, lateDelete, row, lateRow>>

StoresLand == LateRowLands \/ LateDeleteLands \/ LatePutLands

StoresTypeOK ==
    /\ row \in Statuses \cup {"none"}
    /\ original \in Objects
    /\ variant \in [Variants -> Objects]
    /\ lateRow \subseteq RowWrites
    /\ lateDelete \subseteq Attempts
    /\ latePut \subseteq VariantPuts
=============================================================================
