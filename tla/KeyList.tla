------------------------------- MODULE KeyList -------------------------------
(***************************************************************************)
(* What a paged index promises: one list of distinct keys, to which a key  *)
(* is appended, and from which a key is removed by letting the last one    *)
(* take its place.  DeckRegistry uses this list in place of the pages.     *)
(***************************************************************************)
EXTENDS Integers, Sequences

CONSTANT Keys

VARIABLE keys   \* the listed keys, in page order

Listed == {keys[i] : i \in 1..Len(keys)}

Add(k) ==
    /\ k \notin Listed
    /\ keys' = Append(keys, k)

Remove(at) ==
    keys' = [i \in 1..(Len(keys) - 1) |->
                IF i = at THEN keys[Len(keys)] ELSE keys[i]]

ListInit == keys = << >>

ListNext ==
    \/ \E k \in Keys : Add(k)
    \/ \E at \in 1..Len(keys) : Remove(at)

ListSpec == ListInit /\ [][ListNext]_keys
=============================================================================
