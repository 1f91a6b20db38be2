------------------------------- MODULE DreamShop -------------------------------
(***************************************************************************)
(* kpi.rs, run_dream_shop_daily: the purchases at the merchants of the dream *)
(* shop.  A shop gives each merchant's goods in their places; an entry of the *)
(* purchase list is a pair <<merchant, item>>, or <<>> for a text that does   *)
(* not parse.                                                                *)
(***************************************************************************)
EXTENDS Integers, Sequences, FiniteSets

Entry == {<<>>} \cup (Nat \X Nat)

-----------------------------------------------------------------------------
\* The purchases the list stands for, as pairs <<e, p>>: the e-th entry names the
\* good in place p of its merchant.
matching(shop, list) ==
    UNION {{e} \X {p \in 1..Len(shop[list[e][1]]) : shop[list[e][1]][p] = list[e][2]} :
             e \in {e \in 1..Len(list) : list[e] # <<>> /\ list[e][1] \in DOMAIN shop}}

Operation(list, k) ==
    [merchant |-> list[k[1]][1], item |-> list[k[1]][2], pos |-> k[2]]

\* Faulty: from the first place to the last
earlier_ascending(a, b) ==
    a.merchant < b.merchant \/ (a.merchant = b.merchant /\ a.pos < b.pos)

\* By merchant, and from the last place to the first.
earlier(a, b) ==
    a.merchant < b.merchant \/ (a.merchant = b.merchant /\ a.pos > b.pos)

\* The stable sort: the turn of a purchase is the number of purchases up to it.
SentBefore(list, j, k) ==
    LET a == Operation(list, j)
        b == Operation(list, k)
    IN  earlier(a, b) \/ (~earlier(b, a) /\ j[1] < k[1])
Turn(list, K, k) == Cardinality({j \in K : ~SentBefore(list, k, j)})
AtTurn(list, K, r) == CHOOSE k \in K : Turn(list, K, k) = r

operations(shop, list) ==
    LET K == matching(shop, list)
    IN  [r \in 1..Cardinality(K) |-> Operation(list, AtTurn(list, K, r))]

\* The server: a good that is bought leaves the shop, and the ones behind it
\* move up.
TakenOut(goods, pos) ==
    [p \in 1..(Len(goods) - 1) |-> IF p < pos THEN goods[p] ELSE goods[p + 1]]
dungeon_buymerchant(shop, op) == [shop EXCEPT ![op.merchant] = TakenOut(@, op.pos)]

\* The shop after the first i purchases; ok[i] says whether the i-th one succeeds.
purchasing(shop, ops, ok) ==
    LET after[i \in 0..Len(ops)] ==
            IF i = 0 THEN shop
            ELSE IF ok[i] THEN dungeon_buymerchant(after[i - 1], ops[i])
            ELSE after[i - 1]
    IN  after

-----------------------------------------------------------------------------
\* No two entries name the same good.  Nothing in the code removes a repetition.
NamesNoneTwice(list) ==
    \A d, e \in 1..Len(list) : d # e /\ list[d] = list[e] => list[d] = <<>>

\* Although every purchase moves the goods behind it, each one finds the item
\* it was meant for in its place, whichever of the others fail.
FindsItsItem(shop, ops, ok) ==
    LET after == purchasing(shop, ops, ok)
    IN  \A i \in 1..Len(ops) :
            /\ ops[i].pos \in 1..Len(after[i - 1][ops[i].merchant])
            /\ after[i - 1][ops[i].merchant][ops[i].pos] = ops[i].item

\* The goods of a merchant that are on the list, by their places.
Listed(shop, list, m) ==
    {p \in 1..Len(shop[m]) : \E e \in 1..Len(list) : list[e] = <<m, shop[m][p]>>}

\* left is what goods are without the ones in the places B: each of the others has
\* moved up by the number of those in front of it.
IsWithout(left, goods, B) ==
    /\ Len(left) = Len(goods) - Cardinality(B)
    /\ \A p \in (1..Len(goods)) \ B :
          LET up == Cardinality({b \in B : b < p})
          IN  p - up \in 1..Len(left) /\ left[p - up] = goods[p]

\* If none fails, exactly the goods that are not on the list are left.
LeavesTheRest(shop, list, ops) ==
    LET after == purchasing(shop, ops, [i \in 1..Len(ops) |-> TRUE])
    IN  \A m \in DOMAIN shop : IsWithout(after[Len(ops)][m], shop[m], Listed(shop, list, m))

\* What run_dream_shop_daily promises of its purchases.
ListBought(shop, list) ==
    LET ops == operations(shop, list)
    IN  /\ \A ok \in [1..Len(ops) -> BOOLEAN] : FindsItsItem(shop, ops, ok)
        /\ LeavesTheRest(shop, list, ops)
=============================================================================
