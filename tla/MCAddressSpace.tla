--------------------------- MODULE MCAddressSpace ---------------------------
(* AddressSpace over one arena of three granules with two hole slots: enough   *)
(* for a release between two holes while the free list is full.               *)
EXTENDS AddressSpace

OneArena == {"page"}
MCSize == [k \in OneArena |-> 3]
MCSlots == [k \in OneArena |-> 2]
=============================================================================
