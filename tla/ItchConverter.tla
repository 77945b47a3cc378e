---------------------------- MODULE ItchConverter ----------------------------
(***************************************************************************)
(* The converter from Nasdaq ITCH messages to a feed of updates            *)
(* (src/ob/Itch.hpp), for one symbol: symbols share nothing but the table  *)
(* of locate codes.  It shadows the orders of the whole day and writes the *)
(* updates of the window From..To; at the first message of the window that *)
(* touches an order it announces ("seeds") the orders that already rest.   *)
(*                                                                         *)
(* The feed goes to the validator.  The converter never reads the feed     *)
(* back and the validator reads it in order, so the model checks each      *)
(* update as it is pushed and keeps of the vector of updates only what the *)
(* validator makes of it, and the time of its last element.                *)
(*                                                                         *)
(* A step pushes at most one update: a message is one step, or several if  *)
(* it seeds or replaces.  Counters and reasons are left out; a message too *)
(* short for its type changes nothing, like one of an ignored type.        *)
(*                                                                         *)
(* The exchange is external and keeps a book of its own, from which it     *)
(* makes the messages: it uses an id for one order only, never rests an    *)
(* order across its book and, unless unordered, stamps its messages in     *)
(* order.  The converter itself assumes none of this.                      *)
(***************************************************************************)
EXTENDS Integers, FiniteSetsExt

CONSTANTS
    Exchanges,  \* the exchanges to convert from, see IsExchange
    MaxShares,  \* bound on the shares in a message
    MaxPrice,   \* the largest price of an update: INT32_MAX in the code
    From, To,   \* the window
    MaxTime     \* bound on timestamps

\* The ids it gives to orders, and whether its timestamps may go back.
IsExchange(x) == x.ids \subseteq Nat /\ x.unordered \in BOOLEAN

ASSUME ExchangesAssumption == \A x \in Exchanges : IsExchange(x)
ASSUME BoundsAssumption == MaxShares \in Nat /\ MaxPrice \in Nat
ASSUME WindowAssumption == From \in Nat /\ To \in Nat /\ MaxTime \in Nat

VARIABLES
    exchange,   \* which of the exchanges this is
    orders,     \* the shadow orders: id -> side, price, shares, emitted
    seeded,     \* window_seeded
    located,    \* whether the directory gave the symbol's locate code
    pc, msg,    \* where OnMessage is between two pushes, and its message
    clock,      \* the timestamp of the latest message
    used,       \* the ids the exchange has given to orders
    market,     \* the exchange's book, see After: id -> side, price, volume
    touched,    \* whether a message in the window was about an order in it
    book,       \* the validator's book after the updates pushed so far
    verdict,    \* what the validator says of them
    latest      \* the timestamp of the last update pushed

vars == <<exchange, orders, seeded, located, pc, msg, clock, used,
          market, touched, book, verdict, latest>>

feed == <<book, verdict, latest>>

atExchange == <<used, market, touched>>

Validator == INSTANCE Validate

Ids == exchange.ids

Sides == {"Bid", "Ask"}

Opposite(side) == IF side = "Bid" THEN "Ask" ELSE "Bid"

Live == DOMAIN orders

Update(type, id, o, volume) ==
    [type |-> type, id |-> id, side |-> o.side, price |-> o.price, volume |-> volume]

\* newId is the id that a message brings into use, or its id.
Message(type, id, newId, side, shares, price) ==
    [type |-> type, id |-> id, newId |-> newId, side |-> side,
     shares |-> shares, price |-> price]

NoMessage == Message("none", 0, 0, "Bid", 0, 0)

ShadowOrder(m, emitted) ==
    [side |-> m.side, price |-> m.price, shares |-> m.shares, emitted |-> emitted]

InWindow(t) == From <= t /\ t <= To

\* add drops an order that an update cannot carry.
Dropped(m) == m.shares = 0 \/ m.price = 0 \/ m.price > MaxPrice

\* Whether the message gets past the early returns of add, reduce, remove, replace.
Touches(m) == IF m.type = "Add" THEN ~ Dropped(m) ELSE m.id \in Live

Init ==
    /\ exchange \in Exchanges
    /\ orders = [id \in {} |-> 0]
    /\ seeded = FALSE
    /\ located = FALSE
    /\ pc = "idle" /\ msg = NoMessage
    /\ clock = 0
    /\ used = {} /\ market = [id \in {} |-> 0] /\ touched = FALSE
    /\ Validator!Init
    /\ latest = 0

-----------------------------------------------------------------------------
(* The exchange (external).                                                *)

\* Whether an order would meet one of the book b.
Crosses(side, price, b) ==
    \E id \in DOMAIN b :
        /\ b[id].side = Opposite(side)
        /\ IF side = "Bid" THEN price >= b[id].price ELSE price <= b[id].price

Shrunk(b, id) == [k \in DOMAIN b \ {id} |-> b[k]]

Grown(b, m, side) ==
    IF Dropped(m) THEN b
    ELSE [k \in DOMAIN b \cup {m.newId} |->
            IF k = m.newId THEN [side |-> side, price |-> m.price, volume |-> m.shares]
            ELSE b[k]]

\* What m means for the book b.  Orders that an update cannot carry are left
\* out of market, so that what replaces them is left out as well.
After(b, m) ==
    IF m.type = "Add" THEN Grown(b, m, m.side)
    ELSE IF m.id \notin DOMAIN b THEN b
    ELSE CASE m.type = "Reduce" ->
                IF m.shares < b[m.id].volume
                THEN [b EXCEPT ![m.id].volume = @ - m.shares] ELSE Shrunk(b, m.id)
           [] m.type = "Remove" -> Shrunk(b, m.id)
           [] m.type = "Replace" -> Grown(Shrunk(b, m.id), m, b[m.id].side)

\* Whether m adds an order to the book, or is about one in it.
Concerns(m) == IF m.type = "Add" THEN ~ Dropped(m) ELSE m.id \in DOMAIN market

Shares == 0..MaxShares

MessagePrices == 0..MaxPrice + 1

AddMessages ==
    {m \in {Message("Add", id, id, side, shares, price) :
              id \in Ids \ used, side \in Sides, shares \in Shares, price \in MessagePrices} :
       ~ Crosses(m.side, m.price, market)}

ReduceMessages ==
    {Message("Reduce", id, id, "Bid", shares, 0) : id \in Ids, shares \in Shares}

RemoveMessages == {Message("Remove", id, id, "Bid", 0, 0) : id \in Ids}

ReplaceMessages ==
    {m \in {Message("Replace", id, new, "Bid", shares, price) :
              id \in Ids, new \in Ids \ used, shares \in Shares, price \in MessagePrices} :
       /\ m.id # m.newId
       /\ m.id \in DOMAIN market =>
            ~ Crosses(market[m.id].side, m.price, Shrunk(market, m.id))}

Messages == AddMessages \cup ReduceMessages \cup RemoveMessages \cup ReplaceMessages

Times == {t \in 0..MaxTime : exchange.unordered \/ t >= clock}

Send(m, t) ==
    /\ used' = used \cup {m.newId}
    /\ market' = After(market, m)
    /\ touched' = (touched \/ (InWindow(t) /\ Concerns(m)))

-----------------------------------------------------------------------------
(* What goes to the feed.                                                  *)

Push(u, t) == Validator!Check(u) /\ latest' = t

\* A mutant: updates are written outside the window too.
EmitAlways(type, id, volume, t) == Push(Update(type, id, orders[id], volume), t)

\* emit: nothing is written outside the window.
Emit(type, id, volume, t) ==
    IF InWindow(t) THEN Push(Update(type, id, orders[id], volume), t)
    ELSE UNCHANGED feed

Announce(id, t) ==
    /\ orders' = [orders EXCEPT ![id].emitted = TRUE]
    /\ Push(Update("Add", id, orders[id], orders[id].shares), t)

Silent == {id \in Live : ~ orders[id].emitted}

\* seed_window is reached from every path that touches an order in the window.
Seeding(m, t) == InWindow(t) /\ ~ seeded /\ Touches(m)

\* ensure_emitted, for an order that seeding did not announce.
Unannounced(m, t) ==
    InWindow(t) /\ m.type # "Add" /\ m.id \in Live /\ ~ orders[m.id].emitted

-----------------------------------------------------------------------------
(* The handlers, for message m with timestamp t.                           *)

Return == pc' = "idle" /\ msg' = NoMessage

Ignore(m) ==
    /\ ~ Touches(m)
    /\ Return
    /\ UNCHANGED <<orders, feed>>

EnsureEmitted(m, t) ==
    /\ Unannounced(m, t)
    /\ Announce(m.id, t)
    /\ pc' = "resume" /\ msg' = m

Applies(type, m, t) == m.type = type /\ Touches(m) /\ ~ Unannounced(m, t)

\* A mutant: an order from before the window is marked as written.
AddMarked(m, t) ==
    /\ Applies("Add", m, t)
    /\ orders' = [id \in Live \cup {m.id} |->
                    IF id = m.id THEN ShadowOrder(m, TRUE) ELSE orders[id]]
    /\ IF InWindow(t) THEN Push(Update("Add", m.id, m, m.shares), t) ELSE UNCHANGED feed
    /\ Return

Add(m, t) ==
    /\ Applies("Add", m, t)
    /\ orders' = [id \in Live \cup {m.id} |->
                    IF id = m.id THEN ShadowOrder(m, InWindow(t)) ELSE orders[id]]
    /\ IF InWindow(t) THEN Push(Update("Add", m.id, m, m.shares), t) ELSE UNCHANGED feed
    /\ Return

Left(m) == orders[m.id].shares - m.shares

Without(id) == [k \in Live \ {id} |-> orders[k]]

\* A mutant: what is executed outside the window does not count.
ReduceSomeInWindow(m, t) ==
    /\ Applies("Reduce", m, t) /\ Left(m) > 0
    /\ orders' = IF InWindow(t) THEN [orders EXCEPT ![m.id].shares = Left(m)] ELSE orders
    /\ Emit("Modify", m.id, Left(m), t)
    /\ Return

ReduceSome(m, t) ==
    /\ Applies("Reduce", m, t) /\ Left(m) > 0
    /\ orders' = [orders EXCEPT ![m.id].shares = Left(m)]
    /\ Emit("Modify", m.id, Left(m), t)
    /\ Return

\* The Delete carries what the order had before this message.
Withdraw(m, t) ==
    /\ orders' = Without(m.id)
    /\ Emit("Delete", m.id, orders[m.id].shares, t)

\* A mutant: the Delete carries the shares of the message.
ReduceAllShares(m, t) ==
    /\ Applies("Reduce", m, t) /\ Left(m) <= 0
    /\ orders' = Without(m.id)
    /\ Emit("Delete", m.id, m.shares, t)
    /\ Return

ReduceAll(m, t) ==
    Applies("Reduce", m, t) /\ Left(m) <= 0 /\ Withdraw(m, t) /\ Return

Remove(m, t) ==
    Applies("Remove", m, t) /\ Withdraw(m, t) /\ Return

\* remove, then add on the side of the order that was removed.
Replace(m, t) ==
    /\ Applies("Replace", m, t) /\ Withdraw(m, t)
    /\ pc' = "resume"
    /\ msg' = Message("Add", m.newId, m.newId, orders[m.id].side, m.shares, m.price)

Handle(m, t) ==
    /\ \/ Ignore(m) \/ EnsureEmitted(m, t) \/ Add(m, t)
       \/ ReduceSome(m, t) \/ ReduceAll(m, t) \/ Remove(m, t) \/ Replace(m, t)
    /\ clock' = t
    /\ UNCHANGED <<seeded, located>>

-----------------------------------------------------------------------------
(* OnMessage.                                                              *)

\* The directory message R.
Directory ==
    /\ pc = "idle" /\ ~ located
    /\ located' = TRUE
    /\ UNCHANGED <<orders, seeded, pc, msg, clock, atExchange, feed>>

\* Messages with a locate code that no directory message gave: their orders
\* are not the symbol's.
Skip(m, t) ==
    /\ pc = "idle" /\ ~ located
    /\ clock' = t /\ used' = used \cup {m.newId}
    /\ UNCHANGED <<orders, seeded, located, pc, msg, market, touched, feed>>

Receive(m, t) ==
    /\ pc = "idle" /\ located /\ ~ Seeding(m, t)
    /\ Handle(m, t)
    /\ Send(m, t)

ReceiveAndSeed(m, t) ==
    /\ pc = "idle" /\ located /\ Seeding(m, t)
    /\ pc' = "seed" /\ msg' = m
    /\ seeded' = TRUE
    /\ clock' = t /\ Send(m, t)
    /\ UNCHANGED <<orders, located, feed>>

\* The loop of seed_window, by increasing id.
SeedNext ==
    /\ pc = "seed" /\ Silent # {}
    /\ Announce(Min(Silent), From)
    /\ UNCHANGED <<seeded, located, pc, msg, clock, atExchange>>

Resume ==
    /\ pc = "resume" \/ (pc = "seed" /\ Silent = {})
    /\ Handle(msg, clock)
    /\ UNCHANGED atExchange

Arrive ==
    \/ Directory
    \/ \E m \in Messages, t \in Times : Skip(m, t) \/ Receive(m, t) \/ ReceiveAndSeed(m, t)

Step == SeedNext \/ Resume

Next == (Arrive \/ Step) /\ UNCHANGED exchange

Spec == Init /\ [][Next]_vars

-----------------------------------------------------------------------------
(* The validator accepts every feed that the converter makes of messages   *)
(* in order: wherever the window begins, and however partial executions,   *)
(* replaces, dropped orders and unknown ids mix.                           *)
Accepted == exchange.unordered \/ verdict = "ok"

(* Inside the window the feed, replayed from its first update, gives the   *)
(* book of the exchange: each order that an update can carry, from before  *)
(* the window too, with what is left of it.  Until the window's first      *)
(* message that concerns such an order the feed is empty, whatever rests.  *)
ReplayGivesBook ==
    ~ exchange.unordered /\ pc = "idle" /\ InWindow(clock) =>
        book = IF touched THEN market ELSE [id \in {} |-> 0]

(* A resting order is marked emitted exactly if the feed, replayed, still  *)
(* holds it, at the same side and price, even when timestamps are out of   *)
(* order: no update names an order that the feed has not added, and none   *)
(* is added twice.  Once the validator has complained of a volume or a     *)
(* cross, which disorder may cause, its book says no more.                 *)
EmittedIsKnown ==
    /\ verdict \in {"ok", "wrong delete volume", "crossed"}
    /\ verdict = "ok" => \A id \in Live :
         /\ orders[id].emitted <=> id \in DOMAIN book
         /\ orders[id].emitted =>
              book[id].side = orders[id].side /\ book[id].price = orders[id].price

(* The feed's timestamps never go back and never leave the window, though  *)
(* seeding writes the window's first instant after the fact.               *)
TimeInOrder ==
    [][feed' # feed => InWindow(latest') /\ (exchange.unordered \/ latest <= latest')]_vars
=============================================================================
