----------------------------- MODULE BlockStore -----------------------------
(***************************************************************************)
(* What a block store with a write-back cache promises its user.           *)
(*                                                                         *)
(* `store` is what reads return.  `durable` is what the device holds: it   *)
(* may catch up with the store at any time, block by block, but a block of *)
(* the device never takes a value that is not the block's own content.     *)
(***************************************************************************)
CONSTANTS Blocks, Values

VARIABLES store,     \* the content of every block, as the user sees it
          durable,   \* the content of every block on the device
          out        \* what the last read returned

vars == <<store, durable, out>>

TypeOK ==
    /\ store \in [Blocks -> Values]
    /\ durable \in [Blocks -> Values]
    /\ out \in Values

\* The store starts with what is on the device.
Init == TypeOK /\ store = durable

\* Blocks may be written back while something else happens.
WriteBack ==
    /\ durable' \in [Blocks -> Values]
    /\ \A b \in Blocks : durable'[b] \in {durable[b], store[b]}

Read(b) ==
    /\ out' = store[b]
    /\ WriteBack
    /\ UNCHANGED store

Write(b, v) ==
    /\ store' = [store EXCEPT ![b] = v]
    /\ WriteBack
    /\ UNCHANGED out

Sync(b) ==
    /\ durable' = [durable EXCEPT ![b] = store[b]]
    /\ UNCHANGED <<store, out>>

SyncAll ==
    /\ durable' = store
    /\ UNCHANGED <<store, out>>

Next ==
    \/ \E b \in Blocks : Read(b)
    \/ \E b \in Blocks, v \in Values : Write(b, v)
    \/ \E b \in Blocks : Sync(b)
    \/ SyncAll

Spec == Init /\ [][Next]_vars
=============================================================================
