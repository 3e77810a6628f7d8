------------------------- MODULE MCCopyOnWriteStore -------------------------
(***************************************************************************)
(* One writer and two readers of a store with two keys.  Three maps are    *)
(* the empty one and two updates: a reader may look into a map that has    *)
(* been replaced twice, or that another one is being copied from.          *)
(***************************************************************************)
EXTENDS CopyOnWriteStore
=============================================================================
