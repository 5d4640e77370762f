----------------------------- MODULE MCHashMap -----------------------------
(***************************************************************************)
(* Keys that collide, wrap around the end of the buffer, or part when it   *)
(* grows.                                                                  *)
(***************************************************************************)
EXTENDS HashMap, TLC

CONSTANTS a, b, c

CollidingKeys == {a, b, c}

(* All on one slot; two on the last slot of each buffer; and keys that     *)
(* collide until the buffer grows.                                         *)
CollidingHashes ==
    {(a :> 0) @@ (b :> 0) @@ (c :> 0),
     (a :> 7) @@ (b :> 7) @@ (c :> 0),
     (a :> 1) @@ (b :> 3) @@ (c :> 5)}
=============================================================================
