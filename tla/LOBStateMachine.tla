--------------------------- MODULE LOBStateMachine ---------------------------
(***************************************************************************)
(* LOBStateMachine: the replicated order book.  The committed log feeds it *)
(* commands one at a time; apply() decodes each, numbers it with nextSeq_, *)
(* runs it on the book and returns the result for the waiting client.      *)
(***************************************************************************)
EXTENDS OrderBook

CONSTANTS Id,            \* order ids the clients use
          Price, Quantity,   \* prices, and quantities with 0 among them
          MaxCommands    \* bound: commands in a behaviour

ASSUME CommandAssumption ==
    Price \subseteq Int /\ Quantity \subseteq Int /\ MaxCommands \in Nat

VARIABLES book,       \* book_
          nextSeq,    \* nextSeq_
          result      \* what the last apply() returned, with its command

vars == <<book, nextSeq, result>>

\* encodeSimpleResult and encodeNewResult.
Simple(op, ok) == [op |-> op, ok |-> ok, fills |-> <<>>, remaining |-> 0]

NewResult(m) == [op |-> "NEW", ok |-> TRUE, fills |-> m.fills,
                 remaining |-> m.remaining]

Init == book = EmptyBook /\ nextSeq = 1 /\ result = Simple("NONE", FALSE)

-----------------------------------------------------------------------------
\* A command that begins with an opcode takes a number, good or bad.
Numbered == nextSeq <= MaxCommands /\ nextSeq' = nextSeq + 1

ApplyNew(taker) ==
    /\ Numbered
    /\ taker.sequence = nextSeq
    /\ IF taker.quantity <= 0 \/ taker.id \in DOMAIN book.index
       THEN book' = book /\ result' = Simple("NEW", FALSE)
       ELSE LET m == NewOrder(book, taker)
            IN  book' = m.book /\ result' = NewResult(m)

ApplyCancel(id) ==
    /\ Numbered
    /\ book' = CancelOrder(book, id)
    /\ result' = Simple("CXL", id \in DOMAIN book.index)

ApplyModify(id, price, quantity) ==
    /\ Numbered
    /\ book' = ModifyOrder(book, id, price, quantity, nextSeq)
    /\ result' = Simple("MOD", id \in DOMAIN book.index)

\* An unknown opcode, or a command cut short.
ApplyMalformed ==
    /\ Numbered
    /\ result' = Simple("BAD", FALSE)
    /\ UNCHANGED book

\* The no-op of a new leader has no data.
ApplyEmpty ==
    /\ result' = Simple("EMPTY", FALSE)
    /\ UNCHANGED <<book, nextSeq>>

Next ==
    \/ \E id \in Id, side \in Side, price \in Price, quantity \in Quantity :
          ApplyNew([id |-> id, side |-> side, price |-> price,
                    quantity |-> quantity, sequence |-> nextSeq])
    \/ \E id \in Id : ApplyCancel(id)
    \/ \E id \in Id, price \in Price, quantity \in Quantity :
          ApplyModify(id, price, quantity)
    \/ ApplyMalformed
    \/ ApplyEmpty

Spec == Init /\ [][Next]_vars

-----------------------------------------------------------------------------
(* Properties *)

Resting(b) == ToSet(AllOrders(b))

\* Sequence numbers are below the next one, quantities and levels not empty.
TypeOK ==
    /\ nextSeq \in Nat \ {0}
    /\ \A o \in Resting(book) :
          /\ o.id \in Id /\ o.side \in Side /\ o.price \in Price
          /\ o.quantity \in Nat \ {0} /\ o.sequence \in 1..(nextSeq - 1)

\* orderIndex_ and the two maps describe the same orders, each once, and no
\* level is empty: cancelOrder, match and addResting update both.
IndexAgrees ==
    /\ \A side \in Side : \A p \in DOMAIN Levels(book, side) :
          /\ Levels(book, side)[p] # <<>>
          /\ \A o \in ToSet(Levels(book, side)[p]) : o.side = side /\ o.price = p
    /\ \A o \in Resting(book) : o.id \in DOMAIN book.index
                                 /\ book.index[o.id] = [side |-> o.side, price |-> o.price]
    /\ Len(AllOrders(book)) = Cardinality(DOMAIN book.index)

\* Orders at one price are in the order in which they were numbered, also
\* after modifications, so that front() is the oldest.
TimeOrdered ==
    \A side \in Side : \A p \in DOMAIN Levels(book, side) :
        LET level == Levels(book, side)[p]
        IN  \A i, j \in 1..Len(level) : i < j => level[i].sequence < level[j].sequence

\* A restore of a snapshot gives back the book: the orders, their places and
\* the index, although addRestingOrder appends one order at a time.
SnapshotRestores == Rebuild(AllOrders(book)) = book

Filled(r, id) ==
    SumFunction([i \in 1..Len(r.fills) |->
                    IF r.fills[i].maker = id THEN r.fills[i].quantity ELSE 0])

Ahead(o, m) == \/ Better(o.side, o.price, m.price)
               \/ o.price = m.price /\ o.sequence < m.sequence

\* Price-time priority: if a maker was filled, everything on its side that
\* was ahead of it has been filled completely.
PriceTimePriority ==
    [][result'.fills # <<>> =>
         \A m, o \in Resting(book) :
            o.side = m.side /\ Ahead(o, m) /\ Filled(result', m.id) > 0
                => Filled(result', o.id) = o.quantity]_vars

\* An order that was resting has lost exactly what the fills of a new order
\* took from it, and is gone only when nothing is left; a cancel or a modify
\* that succeeds takes one order from the book, and none that fails.
MakersConserved ==
    [][LET before == Resting(book)
           after  == Resting(book')
       IN  IF result'.op \in {"CXL", "MOD"}
           THEN Cardinality(before \ after) = IF result'.ok THEN 1 ELSE 0
           ELSE \A o \in before :
                   LET left == o.quantity - Filled(result', o.id)
                   IN  IF left = 0 THEN o.id \notin DOMAIN book'.index
                       ELSE [o EXCEPT !.quantity = left] \in after]_vars

Served(taker, m) ==
    LET after == Resting(m.book)
    IN  /\ SumFunction([i \in 1..Len(m.fills) |-> m.fills[i].quantity])
             + m.remaining = taker.quantity
        /\ \A i \in 1..Len(m.fills) :
              ~Better(taker.side, m.fills[i].price, taker.price)
        /\ IF m.remaining = 0 THEN taker.id \notin DOMAIN m.book.index
           ELSE /\ [taker EXCEPT !.quantity = m.remaining] \in after
                /\ \A x \in after :
                      x.side # taker.side => Better(taker.side, x.price, taker.price)

\* Whatever order comes next, newOrder never trades beyond its limit, also
\* when it fills the order completely; what it does not fill is left on the
\* book, all of it, and crosses nothing that it could have matched.
TakerServed ==
    nextSeq <= MaxCommands =>
        \A id \in Id \ DOMAIN book.index, side \in Side, price \in Price,
           quantity \in Quantity \ {0} :
              LET taker == [id |-> id, side |-> side, price |-> price,
                            quantity |-> quantity, sequence |-> nextSeq]
              IN  Served(taker, NewOrder(book, taker))
=============================================================================
