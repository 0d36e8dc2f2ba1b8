--------------------------- MODULE MCStorageSlots ---------------------------
(* Widths that keep their order, all values of each type, and strings of up *)
(* to two words.                                                            *)
EXTENDS StorageSlots
=============================================================================
