-------------------------- MODULE SkipListOrderBook --------------------------
(***************************************************************************)
(* SkipListOrderBook: the matching engine of OrderBook with its two maps   *)
(* replaced by skip lists.  The state machine of a replica that runs it,   *)
(* beside LOBStateMachine on MapOrderBook, fed from the same log.          *)
(***************************************************************************)
EXTENDS LOBStateMachine, SkipList

VARIABLES sbook,      \* book_ of the replica on skip lists
          sresult     \* what its last apply() returned

svars == <<vars, sbook, sresult>>

List(b, side) == IF side = "Buy" THEN b.bids ELSE b.asks

WithList(b, side, sl) ==
    IF side = "Buy" THEN [b EXCEPT !.bids = sl] ELSE [b EXCEPT !.asks = sl]

\* Replace a level in place; the node goes when the level runs empty.
PutNode(sl, price, level) ==
    IF level = <<>> THEN RemoveKey(sl, price)
    ELSE [sl EXCEPT !.value[price] = level]

\* coin is the height a new node gets.
AddRestingSL(b, o, coin) ==
    LET old == List(b, o.side)
        sl  == IF Find(old, o.price) = Null THEN Insert(old, o.price, <<>>, coin)
               ELSE old
    IN  [WithList(b, o.side, [sl EXCEPT !.value[o.price] = Append(@, o)])
            EXCEPT !.index = Put(@, o.id, [side |-> o.side, price |-> o.price])]

CancelOrderSL(b, id) ==
    IF id \notin DOMAIN b.index THEN b
    ELSE LET at == b.index[id]
             sl == List(b, at.side)
             b2 == IF Find(sl, at.price) = Null THEN b
                   ELSE WithList(b, at.side, PutNode(sl, at.price,
                            SelectSeq(sl.value[at.price], LAMBDA o : o.id # id)))
         IN  [b2 EXCEPT !.index = Drop(@, id)]

ModifyOrderSLInPlace(b, id, price, quantity, sequence, coin) ==      \* mutant
    IF id \notin DOMAIN b.index THEN b
    ELSE LET at == b.index[id]
             sl == List(b, at.side)
             rest == CancelOrderSL(b, id)
             new == [id |-> id, side |-> at.side, price |-> price,
                     quantity |-> quantity, sequence |-> sequence]
         IN  IF quantity <= 0 THEN rest
             ELSE IF price = at.price
             THEN WithList(b, at.side, [sl EXCEPT !.value[price] =
                      [i \in 1..Len(@) |-> IF @[i].id = id THEN new ELSE @[i]]])
             ELSE AddRestingSL(rest, new, coin)

ModifyOrderSL(b, id, price, quantity, sequence, coin) ==
    IF id \notin DOMAIN b.index THEN b
    ELSE LET side == b.index[id].side
             rest == CancelOrderSL(b, id)
         IN  IF quantity <= 0 THEN rest
             ELSE AddRestingSL(rest, [id |-> id, side |-> side, price |-> price,
                                      quantity |-> quantity,
                                      sequence |-> sequence], coin)

FillBestSL(taker, m) ==
    LET side  == Opposite(taker.side)
        sl    == List(m.book, side)
        price == BestNode(sl)
        level == sl.value[price]
        maker == Head(level)
        fill  == Min({m.remaining, maker.quantity})
        gone  == fill = maker.quantity
        level2 == IF gone THEN Tail(level)
                  ELSE <<[maker EXCEPT !.quantity = @ - fill]>> \o Tail(level)
        book2 == WithList(m.book, side, PutNode(sl, price, level2))
    IN  [book |-> IF gone THEN [book2 EXCEPT !.index = Drop(@, maker.id)] ELSE book2,
         remaining |-> m.remaining - fill,
         fills |-> Append(m.fills, [maker |-> maker.id, taker |-> taker.id,
                                    price |-> maker.price, quantity |-> fill])]

CanFillSL(taker, m) ==
    LET best == BestNode(List(m.book, Opposite(taker.side)))
    IN  m.remaining > 0 /\ best # Null /\ Crosses(taker, best)

SideOrdersSL(b, side) ==
    LET sl == List(b, side)
        ks == Keys(sl)
    IN  FlattenSeq([i \in 1..Len(ks) |-> sl.value[ks[i]]])

AllOrdersSL(b) == SideOrdersSL(b, "Buy") \o SideOrdersSL(b, "Sell")

NewOrderSL(b, taker, coin) ==
    LET m == FoldLeft(LAMBDA acc, o : IF CanFillSL(taker, acc)
                                      THEN FillBestSL(taker, acc) ELSE acc,
                      [book |-> b, remaining |-> taker.quantity, fills |-> <<>>],
                      SideOrdersSL(b, Opposite(taker.side)))
    IN  IF taker.quantity <= 0 \/ taker.id \in DOMAIN b.index
        THEN [book |-> b, remaining |-> 0, fills |-> <<>>]
        ELSE IF m.remaining > 0
        THEN [m EXCEPT !.book = AddRestingSL(@, [taker EXCEPT !.quantity = m.remaining],
                                             coin)]
        ELSE m

-----------------------------------------------------------------------------
InitBoth ==
    /\ Init
    /\ sbook = [bids |-> EmptyList("Buy"), asks |-> EmptyList("Sell"),
                index |-> <<>>]
    /\ sresult = Simple("NONE", FALSE)

BothNew(taker, coin) ==
    /\ ApplyNew(taker)
    /\ IF taker.quantity <= 0 \/ taker.id \in DOMAIN sbook.index
       THEN sbook' = sbook /\ sresult' = Simple("NEW", FALSE)
       ELSE LET m == NewOrderSL(sbook, taker, coin)
            IN  sbook' = m.book /\ sresult' = NewResult(m)

BothCancel(id) ==
    /\ ApplyCancel(id)
    /\ sbook' = CancelOrderSL(sbook, id)
    /\ sresult' = Simple("CXL", id \in DOMAIN sbook.index)

BothModify(id, price, quantity, coin) ==
    /\ ApplyModify(id, price, quantity)
    /\ sbook' = ModifyOrderSL(sbook, id, price, quantity, nextSeq, coin)
    /\ sresult' = Simple("MOD", id \in DOMAIN sbook.index)

BothMalformed == ApplyMalformed /\ sresult' = result' /\ UNCHANGED sbook

BothEmpty == ApplyEmpty /\ sresult' = result' /\ UNCHANGED sbook

\* The heights randomLevel can give, where addResting may insert a node.
Heights(b, side, price, quantity) ==
    IF quantity <= 0 \/ price \in DOMAIN List(b, side).value THEN {0}
    ELSE 0..MaxLevel

NewHeights(id, side, price, quantity) ==
    IF id \in DOMAIN sbook.index THEN {0} ELSE Heights(sbook, side, price, quantity)

ModifyHeights(id, price, quantity) ==
    IF id \notin DOMAIN sbook.index \/ quantity <= 0 THEN {0} ELSE 0..MaxLevel

NextBoth ==
    \/ \E id \in Id, side \in Side, price \in Price, quantity \in Quantity :
          \E coin \in NewHeights(id, side, price, quantity) :
              BothNew([id |-> id, side |-> side, price |-> price,
                       quantity |-> quantity, sequence |-> nextSeq], coin)
    \/ \E id \in Id : BothCancel(id)
    \/ \E id \in Id, price \in Price, quantity \in Quantity :
          \E coin \in ModifyHeights(id, price, quantity) :
              BothModify(id, price, quantity, coin)
    \/ BothMalformed
    \/ BothEmpty

SpecBoth == InitBoth /\ [][NextBoth]_svars

-----------------------------------------------------------------------------
(* Properties *)

\* Both engines give every client the same answer and hold the same orders in
\* the same order, whatever heights the towers get ("Drop-in replacement for
\* MapOrderBook").
EnginesAgree ==
    /\ sresult = result
    /\ AllOrdersSL(sbook) = AllOrders(book)
    /\ sbook.index = book.index

Chain(sl, i) ==
    {x \in DOMAIN sl.value : \E y \in DOMAIN sl.forward :
        i < Len(sl.forward[y]) /\ Forward(sl, y, i) = x}

\* Every level of a skip list links exactly the nodes that are tall enough,
\* in the order of the comparator, and currentLevel is the tallest in use.
TowersSound ==
    \A sl \in {sbook.bids, sbook.asks} :
        /\ DOMAIN sl.forward = DOMAIN sl.value \cup {First}
        /\ \A i \in 0..MaxLevel :
              Chain(sl, i) = {x \in DOMAIN sl.value : Len(sl.forward[x]) > i}
        /\ \A x \in DOMAIN sl.value : \A i \in 0..(Len(sl.forward[x]) - 1) :
              Forward(sl, x, i) # Null => Better(sl.side, x, Forward(sl, x, i))
        /\ sl.level = Max({0} \cup {Len(sl.forward[x]) - 1 : x \in DOMAIN sl.value})
=============================================================================
