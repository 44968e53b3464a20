------------------------------ MODULE XferTable ------------------------------
(***************************************************************************)
(* The transfer table of src/impl/server_xfer_table.c: an array of         *)
(* pointers indexed directly by the low bits of an element's hash (its     *)
(* transaction ID).  There is no probing and no chaining, and an element's *)
(* hash is not stored, so two elements whose IDs agree modulo the capacity *)
(* compete for one slot.  A table is a value [elems, size]; the operators  *)
(* return the table an operation leaves behind.                            *)
(***************************************************************************)
EXTENDS Integers, FiniteSets

CONSTANTS MaxFiles,   \* the limit given to xfer_table_construct
          Capacity,   \* the number of slots it allocates
          NULL        \* the null pointer

(* Round up to a power of two: the loop stops at the first i that fits. *)
clp2(x) == LET fits == {i \in 0..x : 2^i >= x}
           IN  2^(CHOOSE i \in fits : \A j \in fits : i <= j)

ASSUME CapacityAssumption == Capacity \in Nat \ {0}

ASSUME ConstructAssumption == MaxFiles \in Nat \ {0} /\ Capacity = clp2(MaxFiles)

Slot == 0 .. Capacity - 1

(* hash & (capacity - 1), the capacity being a power of two. *)
indexof(hash) == hash % Capacity

xfer_table_new == [elems |-> [i \in Slot |-> NULL], size |-> 0]

xfer_table_find(t, hash) == t.elems[indexof(hash)]

(* The condition under which xfer_table_insert returns true. *)
SlotFree(t, hash) == t.elems[indexof(hash)] = NULL

(* What a successful insert leaves behind. *)
xfer_table_insert(t, hash, elem) ==
  [elems |-> [t.elems EXCEPT ![indexof(hash)] = elem], size |-> t.size + 1]

(* Mutant: the size is not kept up to date. *)
xfer_table_erase_uncounted(t, hash) ==
  [elems |-> [t.elems EXCEPT ![indexof(hash)] = NULL], size |-> t.size]

(* Unconditional: neither the slot's occupant nor the size is looked at. *)
xfer_table_erase(t, hash) ==
  [elems |-> [t.elems EXCEPT ![indexof(hash)] = NULL], size |-> t.size - 1]
=============================================================================
