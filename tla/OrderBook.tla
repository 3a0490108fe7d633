------------------------------ MODULE OrderBook ------------------------------
(***************************************************************************)
(* MapOrderBook, the price-time-priority matching engine, as operators on  *)
(* a book: bids_ and asks_ map a price to the orders resting there, oldest *)
(* first, and orderIndex_ locates an order by its id.  An iterator into a  *)
(* level is the order it points to; ids are unique in a book.              *)
(***************************************************************************)
EXTENDS Integers, Sequences, FiniteSetsExt, SequencesExt

Side == {"Buy", "Sell"}

Opposite(side) == IF side = "Buy" THEN "Sell" ELSE "Buy"

\* The order of the two maps: bids by std::greater, asks by std::less.
Better(side, p, q) == IF side = "Buy" THEN p > q ELSE p < q

EmptyBook == [bids |-> <<>>, asks |-> <<>>, index |-> <<>>]

Levels(b, side) == IF side = "Buy" THEN b.bids ELSE b.asks

WithLevels(b, side, levels) ==
    IF side = "Buy" THEN [b EXCEPT !.bids = levels] ELSE [b EXCEPT !.asks = levels]

Put(f, k, v) == [x \in DOMAIN f \cup {k} |-> IF x = k THEN v ELSE f[x]]

Drop(f, k) == [x \in DOMAIN f \ {k} |-> f[x]]

\* A level that runs empty is erased from its map.
PutLevel(levels, price, level) ==
    IF level = <<>> THEN Drop(levels, price) ELSE Put(levels, price, level)

\* All orders of one side, best price first and oldest first within a price.
SideOrders(b, side) ==
    LET prices == SetToSortSeq(DOMAIN Levels(b, side),
                               LAMBDA p, q : Better(side, p, q))
    IN  FlattenSeq([i \in 1..Len(prices) |-> Levels(b, side)[prices[i]]])

AllOrders(b) == SideOrders(b, "Buy") \o SideOrders(b, "Sell")

-----------------------------------------------------------------------------
AddRestingInFront(b, o) ==      \* mutant: push_front
    LET levels == Levels(b, o.side)
        level  == IF o.price \in DOMAIN levels THEN levels[o.price] ELSE <<>>
    IN  [WithLevels(b, o.side, Put(levels, o.price, <<o>> \o level))
            EXCEPT !.index = Put(@, o.id, [side |-> o.side, price |-> o.price])]

AddResting(b, o) ==
    LET levels == Levels(b, o.side)
        level  == IF o.price \in DOMAIN levels THEN levels[o.price] ELSE <<>>
    IN  [WithLevels(b, o.side, Put(levels, o.price, Append(level, o)))
            EXCEPT !.index = Put(@, o.id, [side |-> o.side, price |-> o.price])]

CancelOrderKeepsLevel(b, id) ==      \* mutant: an emptied level stays
    IF id \notin DOMAIN b.index THEN b
    ELSE LET at     == b.index[id]
             levels == Levels(b, at.side)
             level  == SelectSeq(levels[at.price], LAMBDA o : o.id # id)
         IN  [WithLevels(b, at.side, Put(levels, at.price, level))
                 EXCEPT !.index = Drop(@, id)]

CancelOrder(b, id) ==
    IF id \notin DOMAIN b.index THEN b
    ELSE LET at     == b.index[id]
             levels == Levels(b, at.side)
             level  == SelectSeq(levels[at.price], LAMBDA o : o.id # id)
         IN  [WithLevels(b, at.side, PutLevel(levels, at.price, level))
                 EXCEPT !.index = Drop(@, id)]

ModifyOrderAnyQuantity(b, id, price, quantity, sequence) ==      \* mutant
    IF id \notin DOMAIN b.index THEN b
    ELSE AddResting(CancelOrder(b, id),
                    [id |-> id, side |-> b.index[id].side, price |-> price,
                     quantity |-> quantity, sequence |-> sequence])

\* Cancel and re-add: the order loses its place, and is not matched.
ModifyOrder(b, id, price, quantity, sequence) ==
    IF id \notin DOMAIN b.index THEN b
    ELSE LET side == b.index[id].side
             rest == CancelOrder(b, id)
         IN  IF quantity <= 0 THEN rest
             ELSE AddResting(rest, [id |-> id, side |-> side, price |-> price,
                                    quantity |-> quantity, sequence |-> sequence])

-----------------------------------------------------------------------------
(* match *)

Crosses(taker, price) == ~Better(taker.side, price, taker.price)

BestPriceWorst(b, side) ==      \* mutant: the comparators swapped
    CHOOSE p \in DOMAIN Levels(b, side) :
        \A q \in DOMAIN Levels(b, side) : ~Better(Opposite(side), q, p)

\* begin() of the map.
BestPrice(b, side) ==
    CHOOSE p \in DOMAIN Levels(b, side) :
        \A q \in DOMAIN Levels(b, side) : ~Better(side, q, p)

FillBestDropsMaker(taker, m) ==      \* mutant: a partly filled maker leaves too
    LET side  == Opposite(taker.side)
        price == BestPrice(m.book, side)
        level == Levels(m.book, side)[price]
        fill  == Min({m.remaining, Head(level).quantity})
    IN  [book |-> [WithLevels(m.book, side,
                       PutLevel(Levels(m.book, side), price, Tail(level)))
                      EXCEPT !.index = Drop(@, Head(level).id)],
         remaining |-> m.remaining - fill,
         fills |-> Append(m.fills, [maker |-> Head(level).id, taker |-> taker.id,
                                    price |-> price, quantity |-> fill])]

\* One maker: the first order of the best opposite level, filled as far as
\* the taker goes, and removed when nothing of it is left.
FillBest(taker, m) ==
    LET side  == Opposite(taker.side)
        price == BestPrice(m.book, side)
        level == Levels(m.book, side)[price]
        maker == Head(level)
        fill  == Min({m.remaining, maker.quantity})
        gone  == fill = maker.quantity
        level2 == IF gone THEN Tail(level)
                  ELSE <<[maker EXCEPT !.quantity = @ - fill]>> \o Tail(level)
        book2 == WithLevels(m.book, side,
                            PutLevel(Levels(m.book, side), price, level2))
    IN  [book |-> IF gone THEN [book2 EXCEPT !.index = Drop(@, maker.id)] ELSE book2,
         remaining |-> m.remaining - fill,
         fills |-> Append(m.fills, [maker |-> maker.id, taker |-> taker.id,
                                    price |-> maker.price, quantity |-> fill])]

CanFillAny(taker, m) ==      \* mutant: the limit price is not looked at
    m.remaining > 0 /\ DOMAIN Levels(m.book, Opposite(taker.side)) # {}

CanFill(taker, m) ==
    /\ m.remaining > 0
    /\ DOMAIN Levels(m.book, Opposite(taker.side)) # {}
    /\ Crosses(taker, BestPrice(m.book, Opposite(taker.side)))

\* Every maker is visited at most once, so the loop ends within as many
\* rounds as there are orders on the other side.
Match(b, taker) ==
    FoldLeft(LAMBDA m, o : IF CanFill(taker, m) THEN FillBest(taker, m) ELSE m,
             [book |-> b, remaining |-> taker.quantity, fills |-> <<>>],
             SideOrders(b, Opposite(taker.side)))

\* A bad quantity or an id in use changes nothing; what is not matched rests.
NewOrder(b, taker) ==
    IF taker.quantity <= 0 \/ taker.id \in DOMAIN b.index
    THEN [book |-> b, remaining |-> 0, fills |-> <<>>]
    ELSE LET m == Match(b, taker)
         IN  IF m.remaining > 0
             THEN [m EXCEPT !.book =
                      AddResting(@, [taker EXCEPT !.quantity = m.remaining])]
             ELSE m

RebuildReversed(orders) == FoldRight(LAMBDA o, b : AddResting(b, o), orders, EmptyBook)      \* mutant

\* reset, then addRestingOrder for every order in turn.
Rebuild(orders) == FoldLeft(AddResting, EmptyBook, orders)
=============================================================================
