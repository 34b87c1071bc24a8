---------------------------- MODULE MCCardOrder ----------------------------
(* Small instances of CardOrder. *)
EXTENDS CardOrder

CONSTANTS c1, c2, c3, c4, c5, l1, l2, r1, r2

In(l, k) == [list |-> l, key |-> k]

\* l1: 'a', 'an' -- no room above; l2: 'n', and two rows to come.
MCSeedCards ==
  [c \in {c1, c2, c3, c4, c5} |->
     CASE c = c1 -> In(l1, <<0>>) [] c = c2 -> In(l1, <<0, 13>>) [] c = c3 -> In(l2, <<13>>)
       [] OTHER  -> None]

\* The index 'a0'.
MCForeignKeys == {<<0, -1>>}

\* Request slots are alike.
Alike == Permutations({r1, r2})
=============================================================================
