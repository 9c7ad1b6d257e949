--------------------------- MODULE KeyValueStore ---------------------------
(***************************************************************************)
(* What a user of the bitcask shell (cli/bitcask.cpp) may expect of the    *)
(* store: keys have the value they were last given, and when the program   *)
(* is started again every key that is sure to be found has a value it had  *)
(* at, or after, the last moment at which the store was known to be on     *)
(* disk.  Which keys are sure depends on the files, and may change at any  *)
(* time.                                                                   *)
(***************************************************************************)
CONSTANTS Keys, Values, none,
          garbage  \* bytes that were never the value of a key

VARIABLES
  kv,   \* the value of every key, or none; irrelevant while the program is down
  may,  \* the values each key has had since the store was last on disk
  sure, \* the keys that the next start is sure to find
  up    \* the program is running

Init == /\ kv = [k \in Keys |-> none]
        /\ may = [k \in Keys |-> {none}]
        /\ up = TRUE

OnDisk(f) == [k \in Keys |-> {f[k]}]

(* A key is given a value or, with none, deleted; the store may come to be *)
(* on disk just before or just after.                                      *)
Assign(k, v) ==
  /\ up
  /\ kv' = [kv EXCEPT ![k] = v]
  /\ \/ \E m \in {may, OnDisk(kv)} : may' = [m EXCEPT ![k] = @ \cup {v}]
     \/ may' = OnDisk(kv')
  /\ UNCHANGED up

Sync == /\ up
        /\ may' = OnDisk(kv)
        /\ UNCHANGED <<kv, up>>

Stop == /\ up
        /\ may' \in {may, OnDisk(kv)}
        /\ up' = FALSE
        /\ kv' = [k \in Keys |-> none]

Start == /\ ~up
         /\ up' = TRUE
         /\ kv' \in [Keys -> Values \cup {none, garbage}]
         /\ \A k \in sure : kv'[k] \in may[k]
         /\ UNCHANGED may

Next == \/ \E k \in Keys, v \in Values \cup {none} : Assign(k, v)
        \/ Sync \/ Stop \/ Start

Spec == Init /\ [][Next]_<<kv, may, up>>
=============================================================================
