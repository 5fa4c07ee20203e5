----------------------------- MODULE MCBlocked -----------------------------
(***************************************************************************)
(* Instances of Blocked.tla for TLC.                                       *)
(***************************************************************************)
EXTENDS Blocked

k1 == CHOOSE k \in Key : TRUE
k2 == CHOOSE k \in Key : k # k1

Push(type, p, xx) == [op |-> "push", slot |-> p, type |-> type, where |-> "tail", xx |-> xx]
LPush(p) == Push("list", p, FALSE)
ZAdd(p) == Push("zset", p, FALSE)
Del(p) == [op |-> "del", slot |-> p]
Set(p) == [op |-> "set", slot |-> p]
Rename(p, q) == [op |-> "rename", slot |-> p, to |-> q]
Move(p, q) == [op |-> "move", slot |-> p, to |-> q]
Sort(p, q) == [op |-> "sort", slot |-> p, to |-> q]
SwapDb == [op |-> "swapdb", a |-> 0, b |-> 1]

Pop(type, keys, ttl) ==
    [btype |-> type, db |-> 0, keys |-> keys, target |-> NoKey,
     from |-> "head", to |-> "head", ttl |-> ttl]
BLMove(p, q, ttl) ==
    [btype |-> "list", db |-> 0, keys |-> <<p>>, target |-> q,
     from |-> "tail", to |-> "head", ttl |-> ttl]

TwoDbs == {0, 1}
OneDb == {0}

\* Lists and sorted sets under the same keys, moved within a database and between two.
WakeUnits ==
    {<<LPush(<<0, k2>>), LPush(<<0, k1>>)>>, <<LPush(<<1, k1>>)>>, <<Set(<<0, k2>>)>>,
     <<Rename(<<0, k1>>, <<0, k2>>)>>, <<Move(<<1, k1>>, <<0, k1>>)>>, <<SwapDb>>,
     <<LPush(<<0, k1>>), Del(<<0, k1>>), ZAdd(<<0, k1>>)>>}
WakeRequests == {Pop("list", <<k1, k2>>, 1), Pop("zset", <<k1>>, 0), BLMove(k1, k2, 1)}

\* A list sorted into a key that holds a string.
SortUnits == {<<LPush(<<0, k1>>)>>, <<LPush(<<0, k2>>)>>, <<Set(<<0, k2>>)>>,
              <<Sort(<<0, k1>>, <<0, k2>>)>>, <<Del(<<0, k2>>)>>}
SortRequests == {Pop("list", <<k2>>, 0)}
=============================================================================
