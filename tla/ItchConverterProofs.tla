------------------------- MODULE ItchConverterProofs -------------------------
(***************************************************************************)
(* Proofs about the converter, for any ids, shares, prices, window and     *)
(* sequence of messages.  Three facts carry them: what is marked emitted   *)
(* is what the feed holds; an id is new to both when an Add names it; and  *)
(* between messages the shadow orders are the book of the exchange.        *)
(***************************************************************************)
EXTENDS ItchConverter, WellFoundedInduction, TLAPS

ShadowOrders == [side : Sides, price : 1..MaxPrice, shares : Nat \ {0}, emitted : BOOLEAN]

(* The shadow orders are orders of the exchange, which never cross.        *)
OrdersInv ==
    /\ orders = [id \in Live |-> orders[id]]
    /\ \A id \in Live : orders[id] \in ShadowOrders
    /\ Live \subseteq used
    /\ \A bid, ask \in Live :
         orders[bid].side = "Bid" /\ orders[ask].side = "Ask" =>
           orders[bid].price < orders[ask].price

(* What rests and is in the feed's book is marked emitted, and conversely. *)
FeedInv ==
    /\ EmittedIsKnown
    /\ DOMAIN book \subseteq used

Emitted == {id \in Live : orders[id].emitted}

\* What the feed shows of the orders once it has announced them.
Shown ==
    [id \in Emitted |-> [side |-> orders[id].side, price |-> orders[id].price,
                         volume |-> orders[id].shares]]

Alike == verdict = "ok" /\ book = Shown

IsMessage(m) ==
    /\ m \in [type : {"Add", "Reduce", "Remove", "Replace"}, id : Ids, newId : Ids,
              side : Sides, shares : Shares, price : MessagePrices]
    /\ IF m.type = "Replace" THEN m.newId # m.id ELSE m.newId = m.id

\* The id that m brings into use is new, and its order does not cross.
Usable(m) ==
    /\ m.type \in {"Add", "Replace"} => m.newId \notin Live \cup DOMAIN book
    /\ m.type = "Add" => ~ Crosses(m.side, m.price, orders)
    /\ m.type = "Replace" /\ m.id \in Live =>
         ~ Crosses(orders[m.id].side, m.price, Without(m.id))

(* Where OnMessage is.                                                     *)
ControlInv ==
    /\ pc \in {"idle", "seed", "resume"}
    /\ pc # "idle" => IsMessage(msg) /\ Usable(msg) /\ msg.newId \in used
    /\ ~ seeded => Emitted = {}
    /\ pc = "seed" => seeded /\ InWindow(clock)
    /\ pc = "resume" /\ InWindow(clock) => seeded

(* With timestamps in order, the feed is the book until the window ends.   *)
OrderInv ==
    /\ latest <= clock
    /\ ~ seeded => latest = 0
    /\ pc = "seed" => latest <= From
    /\ seeded => From <= clock
    /\ seeded /\ pc # "seed" /\ clock <= To => Silent = {}
    /\ verdict = "ok"
    /\ clock <= To => Alike

Inv ==
    /\ exchange \in Exchanges /\ used \subseteq Ids
    /\ seeded \in BOOLEAN /\ clock \in Nat /\ latest \in Nat
    /\ OrdersInv /\ FeedInv /\ ControlInv
    /\ ~ exchange.unordered => OrderInv

\* The shadow orders as a book.
Shadow ==
    [id \in Live |-> [side |-> orders[id].side, price |-> orders[id].price,
                      volume |-> orders[id].shares]]

(* The shadow orders are the exchange's book between messages, and become  *)
(* it when what is left of the latest message has been handled.            *)
MarketInv ==
    /\ pc = "idle" => market = Shadow
    /\ pc # "idle" => market = After(Shadow, msg)
    /\ touched = seeded
    /\ ~ located => pc = "idle" /\ Live = {}

IInv == Inv /\ MarketInv

-----------------------------------------------------------------------------
(* Lemmas about the orders and the feed.                                   *)

LEMMA MinIsLeast ==
    ASSUME NEW S \in SUBSET Nat, S # {}
    PROVE  Min(S) \in S
  <1>1. PICK x \in S : \A y \in S : ~ (<<y, x>> \in OpToRel(<, Nat))
    BY NatLessThanWellFounded, WFMin
  <1>2. OpToRel(<, Nat) = {ss \in Nat \X Nat : ss[1] < ss[2]}
    BY Zenon DEF OpToRel
  <1>3. \A y \in S : x <= y
    <2>1. TAKE y \in S
    <2>2. <<y, x>> \notin {ss \in Nat \X Nat : ss[1] < ss[2]}
      BY <1>1, <1>2, Zenon
    <2>3. ~ (y < x)
      BY <2>2
    <2> QED
      BY <2>3
  <1> QED
    BY <1>3 DEF Min

(* Orders that keep their sides and prices, or go, do not come to cross.   *)
LEMMA OrdersStay ==
    ASSUME OrdersInv, used \subseteq used',
           orders' = [id \in Live' |-> orders'[id]], Live' \subseteq Live,
           \A id \in Live' : /\ orders'[id] \in ShadowOrders
                             /\ orders'[id].side = orders[id].side
                             /\ orders'[id].price = orders[id].price
    PROVE  OrdersInv'
  BY DEF OrdersInv, Live

(* Nor does an order that the exchange does not let cross.                 *)
LEMMA OrdersGrow ==
    ASSUME OrdersInv, used \subseteq used', NEW id \in used', id \notin Live,
           NEW o \in ShadowOrders, ~ Crosses(o.side, o.price, orders),
           orders' = [k \in Live \cup {id} |-> IF k = id THEN o ELSE orders[k]]
    PROVE  OrdersInv' /\ Live' = Live \cup {id}
  <1>1. Live' = Live \cup {id} /\ orders'[id] = o /\ \A k \in Live : orders'[k] = orders[k]
    BY DEF Live
  <1>2. ASSUME NEW bid \in Live', NEW ask \in Live',
               orders'[bid].side = "Bid", orders'[ask].side = "Ask"
        PROVE  orders'[bid].price < orders'[ask].price
    <2>1. o.price \in Int /\ \A k \in Live : orders[k].price \in Int
      BY DEF OrdersInv, ShadowOrders
    <2>2. CASE bid = id /\ ask # id
      BY <1>1, <1>2, <2>1, <2>2 DEF Crosses, Opposite, Live
    <2>3. CASE bid # id /\ ask = id
      BY <1>1, <1>2, <2>1, <2>3 DEF Crosses, Opposite, Live
    <2>4. CASE bid # id /\ ask # id
      BY <1>1, <1>2, <2>4 DEF OrdersInv
    <2> QED
      BY <1>1, <1>2, <2>2, <2>3, <2>4
  <1> QED
    BY <1>1, <1>2 DEF OrdersInv

(* An update without complaint is applied, unless the loop broke off.      *)
LEMMA Checked ==
    ASSUME NEW u, Validator!Check(u), verdict = "ok" => Validator!Complaint(u) = "ok"
    PROVE  /\ verdict # "ok" => UNCHANGED <<book, verdict>>
           /\ verdict = "ok" =>
                /\ book' = Validator!Applied(u)
                /\ verdict' = IF Validator!Crossed(book') THEN "crossed" ELSE "ok"
  BY DEF Validator!Check, Validator!validator

(* A book that shows orders which do not cross does not cross.             *)
LEMMA ShownUncrossed ==
    ASSUME OrdersInv', book' = Shown'
    PROVE  ~ Validator!Crossed(book')
  <1>1. DOMAIN book' \subseteq Live' /\ \A id \in DOMAIN book' :
            book'[id].side = orders'[id].side /\ book'[id].price = orders'[id].price
    BY DEF Shown, Emitted
  <1>2. \A id \in Live' : orders'[id].price \in Int
    BY DEF OrdersInv, ShadowOrders
  <1> QED
    BY <1>1, <1>2 DEF OrdersInv, Validator!Crossed

(* Announce, and add in the window: o is new to the feed.                  *)
LEMMA FeedAdd ==
    ASSUME OrdersInv, OrdersInv', FeedInv, used \subseteq used',
           NEW id \in used', verdict = "ok" => id \notin DOMAIN book,
           NEW o \in ShadowOrders, o.emitted,
           orders' = [k \in Live \cup {id} |-> IF k = id THEN o ELSE orders[k]],
           NEW p, p.side = o.side, p.price = o.price,
           Validator!Check(Update("Add", id, p, o.shares))
    PROVE  /\ FeedInv' /\ (id \notin Emitted /\ Alike => Alike')
           /\ DOMAIN book' \subseteq DOMAIN book \cup {id}
  <1> DEFINE u == Update("Add", id, p, o.shares)
  <1>1. /\ u.type = "Add" /\ u.id = id /\ u.side = o.side /\ u.price = o.price
        /\ u.volume = o.shares
    BY DEF Update
  <1>2. o.shares \in Nat \ {0} /\ o.price \in 1..MaxPrice
    BY DEF ShadowOrders
  <1>3. verdict = "ok" => Validator!Complaint(u) = "ok"
    BY <1>1, <1>2, BoundsAssumption DEF Validator!Complaint
  <1>4. /\ verdict # "ok" => UNCHANGED <<book, verdict>>
        /\ verdict = "ok" =>
             /\ book' = Validator!Applied(u)
             /\ verdict' = IF Validator!Crossed(book') THEN "crossed" ELSE "ok"
    BY <1>3, Checked
  <1>5. Live' = Live \cup {id} /\ orders'[id] = o /\ \A k \in Live : k # id => orders'[k] = orders[k]
    BY DEF Live
  <1> DEFINE new == [side |-> o.side, price |-> o.price, volume |-> o.shares]
  <1>6. verdict = "ok" => book' = [k \in DOMAIN book \cup {id} |-> IF k = id THEN new ELSE book[k]]
    BY <1>1, <1>4 DEF Validator!Applied, Validator!Order
  <1>7. FeedInv'
    <2>1. CASE verdict # "ok"
      BY <1>4, <2>1 DEF FeedInv, EmittedIsKnown
    <2>2. CASE verdict = "ok"
      <3>1. DOMAIN book' = DOMAIN book \cup {id} /\ book'[id] = new
            /\ \A k \in DOMAIN book : book'[k] = book[k]
        BY <1>6, <2>2
      <3>2. verdict' \in {"ok", "crossed"}
        BY <1>4, <2>2
      <3>3. ASSUME NEW k \in Live', orders'[k].emitted
            PROVE  /\ k \in DOMAIN book'
                   /\ book'[k].side = orders'[k].side /\ book'[k].price = orders'[k].price
        BY <1>5, <2>2, <3>1, <3>3 DEF FeedInv, EmittedIsKnown
      <3>4. \A k \in Live' \cap DOMAIN book' : orders'[k].emitted
        BY <1>5, <2>2, <3>1 DEF FeedInv, EmittedIsKnown
      <3>5. DOMAIN book' \subseteq used'
        BY <3>1 DEF FeedInv
      <3> QED
        BY <3>2, <3>3, <3>4, <3>5 DEF FeedInv, EmittedIsKnown
    <2> QED
      BY <2>1, <2>2
  <1>8. ASSUME id \notin Emitted, Alike PROVE Alike'
    <2>1. Emitted' = Emitted \cup {id}
      BY <1>5 DEF Emitted
    <2>2. DOMAIN book = Emitted
      BY <1>8 DEF Alike, Shown
    <2>3. book' = Shown'
      <3>1. \A k \in Emitted : k \in Live /\ orders'[k] = orders[k]
        BY <1>5, <1>8 DEF Emitted
      <3>2. \A k \in Emitted : book[k] = [side |-> orders[k].side, price |-> orders[k].price,
                                            volume |-> orders[k].shares]
        BY <1>8 DEF Alike, Shown
      <3> QED
        BY <1>5, <1>6, <1>8, <2>1, <2>2, <3>1, <3>2 DEF Alike, Shown
    <2>4. ~ Validator!Crossed(book')
      BY <2>3, ShownUncrossed
    <2> QED
      BY <1>4, <1>8, <2>3, <2>4 DEF Alike
  <1>9. DOMAIN book' \subseteq DOMAIN book \cup {id}
    BY <1>4, <1>6
  <1> QED
    BY <1>7, <1>8, <1>9

(* Reduce in the window.                                                   *)
LEMMA FeedModify ==
    ASSUME OrdersInv, OrdersInv', FeedInv, used \subseteq used',
           NEW id \in Live, orders[id].emitted, NEW s \in Nat \ {0},
           orders' = [orders EXCEPT ![id].shares = s],
           Validator!Check(Update("Modify", id, orders[id], s))
    PROVE  FeedInv' /\ (Alike => Alike') /\ DOMAIN book' \subseteq DOMAIN book
  <1> DEFINE u == Update("Modify", id, orders[id], s)
  <1>1. /\ u.type = "Modify" /\ u.id = id /\ u.side = orders[id].side
        /\ u.price = orders[id].price /\ u.volume = s
    BY DEF Update
  <1>2. verdict = "ok" => /\ id \in DOMAIN book
                          /\ book[id].side = u.side /\ book[id].price = u.price
    BY <1>1 DEF FeedInv, EmittedIsKnown
  <1>3. verdict = "ok" => Validator!Complaint(u) = "ok"
    BY <1>1, <1>2 DEF Validator!Complaint
  <1>4. /\ verdict # "ok" => UNCHANGED <<book, verdict>>
        /\ verdict = "ok" =>
             /\ book' = Validator!Applied(u)
             /\ verdict' = IF Validator!Crossed(book') THEN "crossed" ELSE "ok"
    BY <1>3, Checked
  <1> DEFINE new == [side |-> u.side, price |-> u.price, volume |-> s]
  <1> HIDE DEF u
  <1>5. verdict = "ok" => book' = [k \in DOMAIN book |-> IF k = id THEN new ELSE book[k]]
    BY <1>1, <1>2, <1>4 DEF Validator!Applied, Validator!Order
  <1>6. /\ Live' = Live
        /\ \A k \in Live : /\ orders'[k].side = orders[k].side
                           /\ orders'[k].price = orders[k].price
                           /\ orders'[k].emitted = orders[k].emitted
                           /\ orders'[k].shares = IF k = id THEN s ELSE orders[k].shares
    BY DEF OrdersInv, ShadowOrders, Live
  <1>7. FeedInv'
    <2>1. CASE verdict # "ok"
      BY <1>4, <1>6, <2>1 DEF FeedInv, EmittedIsKnown
    <2>2. CASE verdict = "ok"
      <3>1. DOMAIN book' = DOMAIN book /\ book'[id] = new
            /\ \A k \in DOMAIN book : k # id => book'[k] = book[k]
        BY <1>2, <1>5, <2>2
      <3>2. verdict' \in {"ok", "crossed"}
        BY <1>4, <2>2
      <3>3. ASSUME NEW k \in Live', orders'[k].emitted
            PROVE  /\ k \in DOMAIN book'
                   /\ book'[k].side = orders'[k].side /\ book'[k].price = orders'[k].price
        BY <1>1, <1>2, <1>6, <2>2, <3>1, <3>3 DEF FeedInv, EmittedIsKnown
      <3>4. \A k \in Live' \cap DOMAIN book' : orders'[k].emitted
        BY <1>6, <2>2, <3>1 DEF FeedInv, EmittedIsKnown
      <3>5. DOMAIN book' \subseteq used'
        BY <3>1 DEF FeedInv
      <3> QED
        BY <3>2, <3>3, <3>4, <3>5 DEF FeedInv, EmittedIsKnown
    <2> QED
      BY <2>1, <2>2
  <1>8. ASSUME Alike PROVE Alike'
    <2>1. Emitted' = Emitted
      BY <1>6 DEF Emitted
    <2>2. book = Shown /\ DOMAIN book = Emitted /\ verdict = "ok"
      BY <1>8 DEF Alike, Shown
    <2> DEFINE entry(k) == [side |-> orders'[k].side, price |-> orders'[k].price,
                            volume |-> orders'[k].shares]
    <2>3. book' = Shown'
      <3>1. ASSUME NEW k \in Emitted
            PROVE  (IF k = id THEN new ELSE book[k]) = entry(k)
        <4>1. book[k] = [side |-> orders[k].side, price |-> orders[k].price,
                         volume |-> orders[k].shares]
          BY <2>2 DEF Shown
        <4> QED
          BY <1>1, <1>6, <4>1 DEF Emitted
      <3>2. book' = [k \in Emitted |-> entry(k)]
        BY <1>5, <2>2, <3>1
      <3> QED
        BY <2>1, <3>2 DEF Shown
    <2>4. ~ Validator!Crossed(book')
      BY <2>3, ShownUncrossed
    <2> QED
      BY <1>4, <2>2, <2>3, <2>4 DEF Alike
  <1>9. DOMAIN book' \subseteq DOMAIN book
    BY <1>4, <1>5
  <1> QED
    BY <1>7, <1>8, <1>9

(* Withdraw in the window: the volume is the order's unless the feed left  *)
(* the window in between.                                                  *)
LEMMA FeedDelete ==
    ASSUME OrdersInv, OrdersInv', FeedInv, used \subseteq used',
           NEW id \in Live, orders[id].emitted,
           orders' = Without(id),
           Validator!Check(Update("Delete", id, orders[id], orders[id].shares))
    PROVE  FeedInv' /\ (Alike => Alike') /\ DOMAIN book' \subseteq DOMAIN book
  <1> DEFINE u == Update("Delete", id, orders[id], orders[id].shares)
  <1>1. /\ u.type = "Delete" /\ u.id = id /\ u.side = orders[id].side
        /\ u.price = orders[id].price /\ u.volume = orders[id].shares
    BY DEF Update
  <1>2. verdict = "ok" => /\ id \in DOMAIN book
                          /\ book[id].side = u.side /\ book[id].price = u.price
    BY <1>1 DEF FeedInv, EmittedIsKnown
  <1> HIDE DEF u
  <1>3. verdict = "ok" => Validator!Complaint(u) \in {"ok", "wrong delete volume"}
    BY <1>1, <1>2 DEF Validator!Complaint
  <1>4. Validator!Check(u)
    BY DEF u
  <1>5. \/ UNCHANGED book /\ verdict' = verdict /\ verdict # "ok"
        \/ UNCHANGED book /\ verdict' = "wrong delete volume"
        \/ /\ book' = [k \in DOMAIN book \ {id} |-> book[k]]
           /\ verdict' = IF Validator!Crossed(book') THEN "crossed" ELSE "ok"
           /\ verdict = "ok"
    BY <1>1, <1>3, <1>4 DEF Validator!Check, Validator!validator, Validator!Applied
  <1>6. Live' = Live \ {id} /\ \A k \in Live' : orders'[k] = orders[k]
    BY DEF Live, Without
  <1>7. FeedInv'
    BY <1>5, <1>6 DEF FeedInv, EmittedIsKnown
  <1>8. ASSUME Alike PROVE Alike'
    <2>1. Emitted' = Emitted \ {id}
      BY <1>6 DEF Emitted
    <2>2. book = Shown /\ DOMAIN book = Emitted /\ verdict = "ok"
      BY <1>8 DEF Alike, Shown
    <2>3. book[id].volume = orders[id].shares
      BY <2>2 DEF Shown, Emitted
    <2>4. Validator!Complaint(u) = "ok"
      BY <1>1, <1>2, <2>2, <2>3 DEF Validator!Complaint
    <2>5. /\ book' = [k \in DOMAIN book \ {id} |-> book[k]]
          /\ verdict' = IF Validator!Crossed(book') THEN "crossed" ELSE "ok"
      BY <1>1, <1>4, <2>2, <2>4, Checked DEF Validator!Applied
    <2>6. book' = Shown'
      BY <1>6, <2>1, <2>2, <2>5 DEF Shown, Emitted
    <2>7. ~ Validator!Crossed(book')
      BY <2>6, ShownUncrossed
    <2> QED
      BY <2>5, <2>6, <2>7 DEF Alike
  <1>9. DOMAIN book' \subseteq DOMAIN book
    BY <1>5
  <1> QED
    BY <1>7, <1>8, <1>9

(* Outside the window: what is new is not marked, what was keeps its mark. *)
LEMMA FeedQuiet ==
    ASSUME FeedInv, used \subseteq used', UNCHANGED <<book, verdict>>,
           \A k \in Live' \cap Live : /\ orders'[k].side = orders[k].side
                                      /\ orders'[k].price = orders[k].price
                                      /\ orders'[k].emitted = orders[k].emitted,
           \A k \in Live' \ Live : k \notin DOMAIN book /\ ~ orders'[k].emitted
    PROVE  FeedInv'
  BY DEF FeedInv, EmittedIsKnown

LEMMA AlikeQuiet ==
    ASSUME UNCHANGED <<book, verdict>>, Emitted' = Emitted,
           \A k \in Emitted : orders'[k] = orders[k],
           Alike
    PROVE  Alike'
  BY DEF Alike, Shown

-----------------------------------------------------------------------------
(* The handlers.                                                           *)

\* When OnMessage gives message m to its handler.
Ready(m, t) ==
    /\ IsMessage(m) /\ Usable(m) /\ t \in Nat
    /\ InWindow(t) /\ Touches(m) => seeded
    /\ ~ exchange.unordered => clock <= t /\ (seeded /\ t <= To => Silent = {})

\* What every handler keeps, wherever OnMessage goes on.
Data ==
    /\ OrdersInv /\ FeedInv /\ latest \in Nat
    /\ ~ seeded => Emitted = {}
    /\ ~ exchange.unordered => OrderInv

Handling(m, t) ==
    /\ Inv /\ Ready(m, t)
    /\ UNCHANGED <<exchange, seeded>> /\ clock' = t /\ pc' # "seed"
    /\ used' = used \cup {m.newId}

\* With timestamps in order, what is outside the window and not behind it
\* comes before every order is announced.
LEMMA BeforeWindow ==
    ASSUME NEW m, NEW t, Handling(m, t), ~ exchange.unordered,
           t <= To, ~ InWindow(t)
    PROVE  Emitted = {}
  BY WindowAssumption DEF Handling, Inv, Ready, OrderInv, ControlInv, InWindow

LEMMA OrderStep ==
    ASSUME NEW m, NEW t, Handling(m, t), ~ exchange.unordered,
           UNCHANGED latest \/ (InWindow(t) /\ seeded /\ latest' = t),
           seeded /\ t <= To => Silent' = {},
           t <= To /\ Alike => Alike',
           t > To => UNCHANGED verdict
    PROVE  OrderInv'
  <1>1. clock \in Nat /\ t \in Nat /\ clock <= t /\ latest \in Nat /\ From \in Nat /\ To \in Nat
    BY WindowAssumption DEF Handling, Inv, Ready
  <1>2. OrderInv
    BY DEF Handling, Inv
  <1>3. Alike' => verdict' = "ok"
    BY DEF Alike
  <1> QED
    BY <1>1, <1>2, <1>3 DEF OrderInv, Handling, InWindow

\* The orders that m leaves alone, and how m finds its own.
LEMMA Given ==
    ASSUME NEW m, NEW t, Handling(m, t)
    PROVE  /\ OrdersInv /\ FeedInv /\ used \subseteq used'
           /\ m.id \in Ids /\ m.side \in Sides /\ m.shares \in Nat
           /\ m.price \in 0..MaxPrice + 1
           /\ m.type # "Replace" => m.newId = m.id
           /\ t \in Nat /\ latest \in Nat /\ From \in Nat /\ To \in Nat
           /\ MaxPrice \in Nat
           /\ ~ seeded => Emitted = {}
  BY BoundsAssumption, WindowAssumption
  DEF Handling, Inv, Ready, ControlInv, IsMessage, Shares, MessagePrices

LEMMA OrderInWindow ==
    ASSUME NEW m, NEW t, Handling(m, t), InWindow(t), seeded, latest' = t,
           Silent' \subseteq Silent, Alike => Alike'
    PROVE  ~ exchange.unordered => OrderInv'
  <1>1. SUFFICES ASSUME ~ exchange.unordered PROVE OrderInv'
    OBVIOUS
  <1>2. t <= To /\ ~ (t > To)
    BY Given DEF InWindow
  <1>3. seeded /\ t <= To => Silent' = {}
    BY <1>1 DEF Handling, Ready
  <1> QED
    BY <1>1, <1>2, <1>3, OrderStep

LEMMA AddStep ==
    ASSUME NEW m, NEW t, Handling(m, t), Add(m, t)
    PROVE  Data'
  <1> DEFINE o == ShadowOrder(m, InWindow(t))
  <1>1. m.type = "Add" /\ ~ Dropped(m) /\ m.newId = m.id
        /\ orders' = [k \in Live \cup {m.id} |-> IF k = m.id THEN o ELSE orders[k]]
    BY Given DEF Add, Applies, Touches
  <1>2. o \in ShadowOrders /\ o.emitted = InWindow(t) /\ o.side = m.side /\ o.price = m.price
        /\ o.shares = m.shares
    BY <1>1, Given DEF ShadowOrders, ShadowOrder, Dropped, InWindow
  <1>3. m.id \in used' /\ m.id \notin Live /\ m.id \notin DOMAIN book
        /\ ~ Crosses(o.side, o.price, orders)
    BY <1>1, <1>2 DEF Handling, Ready, Usable
  <1>4. OrdersInv' /\ Live' = Live \cup {m.id}
    BY <1>1, <1>2, <1>3, Given, OrdersGrow
  <1>5. orders'[m.id] = o /\ \A k \in Live : orders'[k] = orders[k]
    BY <1>1, <1>3
  <1> HIDE DEF o
  <1>6. CASE InWindow(t)
    <2>1. seeded
      BY <1>1, <1>6 DEF Handling, Ready, Touches
    <2>2. Validator!Check(Update("Add", m.id, m, o.shares)) /\ latest' = t
      BY <1>1, <1>2, <1>6 DEF Add, Push, Applies
    <2>3. FeedInv' /\ (Alike => Alike')
      BY <1>1, <1>2, <1>3, <1>4, <1>6, <2>2, Given, FeedAdd DEF Emitted
    <2>4. Silent' = Silent
      BY <1>2, <1>3, <1>4, <1>5, <1>6 DEF Silent
    <2>5. ~ exchange.unordered => OrderInv'
      BY <1>6, <2>1, <2>2, <2>3, <2>4, OrderInWindow
    <2> QED
      BY <1>4, <2>1, <2>2, <2>3, <2>5, Given DEF Data, Handling
  <1>7. CASE ~ InWindow(t)
    <2>1. UNCHANGED <<book, verdict, latest>>
      BY <1>7 DEF Add, feed
    <2>2. FeedInv'
      BY <1>2, <1>3, <1>4, <1>5, <1>7, <2>1, Given, FeedQuiet
    <2>3. Emitted' = Emitted
      BY <1>2, <1>3, <1>4, <1>5, <1>7 DEF Emitted
    <2>4. \A k \in Emitted : orders'[k] = orders[k]
      BY <1>5 DEF Emitted
    <2>5. Alike => Alike'
      BY <2>1, <2>3, <2>4, AlikeQuiet
    <2>6. ~ exchange.unordered /\ t <= To => ~ seeded
      BY <1>7, Given DEF Handling, Inv, Ready, OrderInv, InWindow
    <2>7. ~ exchange.unordered => OrderInv'
      BY <2>1, <2>5, <2>6, OrderStep
    <2> QED
      BY <1>4, <2>1, <2>2, <2>3, <2>7, Given DEF Data, Handling
  <1> QED
    BY <1>6, <1>7

\* Announce(id, at), by seeding or when an order is touched.
LEMMA AnnounceData ==
    ASSUME OrdersInv, FeedInv, used \subseteq used', NEW id \in Live, ~ orders[id].emitted,
           NEW at, Announce(id, at)
    PROVE  /\ OrdersInv' /\ FeedInv' /\ (Alike => Alike')
           /\ latest' = at /\ Live' = Live /\ Silent' = Silent \ {id}
           /\ \A k \in Live : /\ orders'[k].side = orders[k].side
                              /\ orders'[k].price = orders[k].price
           /\ DOMAIN book' \subseteq DOMAIN book \cup {id}
  <1> DEFINE o == [orders[id] EXCEPT !.emitted = TRUE]
  <1>1. orders[id] \in ShadowOrders /\ id \in used'
    BY DEF OrdersInv
  <1>2. o \in ShadowOrders /\ o.emitted /\ o.side = orders[id].side
        /\ o.price = orders[id].price /\ o.shares = orders[id].shares
    BY <1>1 DEF ShadowOrders
  <1>3. orders' = [k \in Live \cup {id} |-> IF k = id THEN o ELSE orders[k]]
    <2>1. orders = [k \in Live |-> orders[k]] /\ Live \cup {id} = Live
      BY DEF OrdersInv
    <2>2. orders' = [orders EXCEPT ![id] = o]
      BY DEF Announce
    <2> QED
      BY <2>1, <2>2 DEF Live
  <1> HIDE DEF o
  <1>4. Live' = Live /\ orders'[id] = o /\ \A k \in Live : k # id => orders'[k] = orders[k]
    BY <1>3 DEF Live
  <1>5. OrdersInv'
    <2>1. orders' = [k \in Live' |-> orders'[k]]
      BY <1>3, <1>4
    <2>2. \A k \in Live' : /\ orders'[k] \in ShadowOrders
                           /\ orders'[k].side = orders[k].side
                           /\ orders'[k].price = orders[k].price
      BY <1>2, <1>4 DEF OrdersInv
    <2> QED
      BY <1>4, <2>1, <2>2, OrdersStay
  <1>6. Validator!Check(Update("Add", id, orders[id], o.shares)) /\ latest' = at
    BY <1>2 DEF Announce, Push
  <1>7. verdict = "ok" => id \notin DOMAIN book
    BY DEF FeedInv, EmittedIsKnown
  <1>8. FeedInv' /\ (id \notin Emitted /\ Alike => Alike')
        /\ DOMAIN book' \subseteq DOMAIN book \cup {id}
    BY <1>1, <1>2, <1>3, <1>5, <1>6, <1>7, FeedAdd
  <1>9. Silent' = Silent \ {id} /\ id \notin Emitted
    BY <1>2, <1>4 DEF Silent, Emitted
  <1> QED
    BY <1>2, <1>4, <1>5, <1>6, <1>8, <1>9

LEMMA EnsureStep ==
    ASSUME NEW m, NEW t, Handling(m, t), EnsureEmitted(m, t)
    PROVE  Data'
  <1>1. InWindow(t) /\ m.type # "Add" /\ m.id \in Live /\ ~ orders[m.id].emitted
        /\ Announce(m.id, t)
    BY DEF EnsureEmitted, Unannounced
  <1>2. seeded
    BY <1>1 DEF Handling, Ready, Touches
  <1>3. OrdersInv' /\ FeedInv' /\ (Alike => Alike') /\ latest' = t /\ Silent' = Silent \ {m.id}
    BY <1>1, Given, AnnounceData
  <1>4. ~ exchange.unordered => OrderInv'
    BY <1>1, <1>2, <1>3, OrderInWindow
  <1> QED
    BY <1>2, <1>3, <1>4, Given DEF Data, Handling

\* A change of the order that m names, which the feed may not see.
LEMMA QuietStep ==
    ASSUME NEW m, NEW t, Handling(m, t), ~ InWindow(t), OrdersInv', UNCHANGED feed,
           Live' \subseteq Live,
           \A k \in Live' : /\ orders'[k].side = orders[k].side
                            /\ orders'[k].price = orders[k].price
                            /\ orders'[k].emitted = orders[k].emitted
    PROVE  Data'
  <1>1. UNCHANGED <<book, verdict, latest>>
    BY DEF feed
  <1>2. FeedInv'
    BY <1>1, Given, FeedQuiet
  <1>3. Emitted' \subseteq Emitted /\ Silent' \subseteq Silent
    BY DEF Emitted, Silent
  <1>4. ASSUME ~ exchange.unordered PROVE OrderInv'
    <2>1. ASSUME t <= To PROVE Emitted = {}
      BY <1>4, <2>1, BeforeWindow
    <2>2. t <= To /\ Alike => Alike'
      BY <1>1, <1>3, <2>1, AlikeQuiet
    <2>3. seeded /\ t <= To => Silent' = {}
      BY <1>3, <1>4 DEF Handling, Ready
    <2> QED
      BY <1>1, <1>4, <2>2, <2>3, OrderStep
  <1> QED
    BY <1>1, <1>2, <1>3, <1>4, Given DEF Data, Handling

LEMMA ReduceStep ==
    ASSUME NEW m, NEW t, Handling(m, t), ReduceSome(m, t)
    PROVE  Data' /\ Live' = Live
  <1>1. m.id \in Live /\ Left(m) > 0 /\ (InWindow(t) => orders[m.id].emitted)
        /\ orders' = [orders EXCEPT ![m.id].shares = Left(m)]
    BY DEF ReduceSome, Applies, Touches, Unannounced
  <1>2. orders[m.id] \in ShadowOrders /\ Left(m) \in Nat \ {0}
    BY <1>1, Given DEF OrdersInv, ShadowOrders, Left
  <1>3. Live' = Live /\ \A k \in Live : /\ orders'[k].side = orders[k].side
                                        /\ orders'[k].price = orders[k].price
                                        /\ orders'[k].emitted = orders[k].emitted
                                        /\ orders'[k] \in ShadowOrders
    BY <1>1, <1>2, Given DEF OrdersInv, ShadowOrders, Live
  <1>4. OrdersInv'
    <2>1. orders' = [k \in Live' |-> orders'[k]]
      BY <1>1, <1>3 DEF Live
    <2> QED
      BY <1>3, <2>1, Given, OrdersStay
  <1>5. CASE InWindow(t)
    <2>1. seeded
      BY <1>1, <1>5 DEF Handling, Ready, Touches, ReduceSome, Applies
    <2>2. Validator!Check(Update("Modify", m.id, orders[m.id], Left(m))) /\ latest' = t
      BY <1>5 DEF ReduceSome, Emit, Push
    <2>3. FeedInv' /\ (Alike => Alike')
      BY <1>1, <1>2, <1>4, <1>5, <2>2, Given, FeedModify
    <2>4. Silent' = Silent
      BY <1>3 DEF Silent
    <2>5. ~ exchange.unordered => OrderInv'
      BY <1>5, <2>1, <2>2, <2>3, <2>4, OrderInWindow
    <2> QED
      BY <1>3, <1>4, <2>1, <2>2, <2>3, <2>5, Given DEF Data, Handling
  <1>6. CASE ~ InWindow(t)
    <2>1. UNCHANGED feed
      BY <1>6 DEF ReduceSome, Emit
    <2> QED
      BY <1>3, <1>4, <1>6, <2>1, QuietStep
  <1> QED
    BY <1>5, <1>6

LEMMA WithdrawStep ==
    ASSUME NEW m, NEW t, Handling(m, t), Withdraw(m, t),
           m.type # "Add", Touches(m), ~ Unannounced(m, t)
    PROVE  /\ Data' /\ Live' = Live \ {m.id}
           /\ \A k \in Live' : orders'[k] = orders[k]
           /\ DOMAIN book' \subseteq DOMAIN book
  <1>1. m.id \in Live /\ (InWindow(t) => orders[m.id].emitted) /\ orders' = Without(m.id)
    BY DEF Withdraw, Touches, Unannounced
  <1>2. Live' = Live \ {m.id} /\ \A k \in Live' : orders'[k] = orders[k]
    BY <1>1 DEF Live, Without
  <1>3. OrdersInv'
    <2>1. orders' = [k \in Live' |-> orders'[k]] /\ Live' \subseteq Live
      BY <1>1, <1>2 DEF Without
    <2>2. \A k \in Live' : orders'[k] \in ShadowOrders
      BY <1>2, Given DEF OrdersInv
    <2> QED
      BY <1>2, <2>1, <2>2, Given, OrdersStay
  <1>4. CASE InWindow(t)
    <2>1. seeded
      BY <1>1, <1>4 DEF Handling, Ready
    <2>2. Validator!Check(Update("Delete", m.id, orders[m.id], orders[m.id].shares))
          /\ latest' = t
      BY <1>4 DEF Withdraw, Emit, Push
    <2>3. FeedInv' /\ (Alike => Alike') /\ DOMAIN book' \subseteq DOMAIN book
      BY <1>1, <1>3, <1>4, <2>2, Given, FeedDelete
    <2>4. Silent' \subseteq Silent
      BY <1>2 DEF Silent
    <2>5. ~ exchange.unordered => OrderInv'
      BY <1>4, <2>1, <2>2, <2>3, <2>4, OrderInWindow
    <2> QED
      BY <1>2, <1>3, <2>1, <2>2, <2>3, <2>5, Given DEF Data, Handling
  <1>5. CASE ~ InWindow(t)
    <2>1. UNCHANGED feed
      BY <1>5 DEF Withdraw, Emit
    <2>2. Data'
      BY <1>2, <1>3, <1>5, <2>1, QuietStep
    <2> QED
      BY <1>2, <2>1, <2>2 DEF feed
  <1> QED
    BY <1>4, <1>5

LEMMA IgnoreStep ==
    ASSUME NEW m, NEW t, Handling(m, t), Ignore(m)
    PROVE  Data'
  <1>1. UNCHANGED <<orders, book, verdict, latest>>
    BY DEF Ignore, feed
  <1>2. OrdersInv' /\ FeedInv' /\ Emitted' = Emitted /\ Silent' = Silent /\ (Alike => Alike')
    BY <1>1, Given DEF OrdersInv, FeedInv, EmittedIsKnown, Emitted, Silent, Alike, Shown, Live
  <1>3. ~ exchange.unordered => OrderInv'
    BY <1>1, <1>2, OrderStep DEF Handling, Ready
  <1> QED
    BY <1>1, <1>2, <1>3, Given DEF Data, Handling

-----------------------------------------------------------------------------
(* OnMessage.                                                              *)

LEMMA Inductive ==
    ASSUME Data', ControlInv', UNCHANGED exchange, exchange \in Exchanges,
           used' \subseteq Ids, seeded' \in BOOLEAN, clock' \in Nat
    PROVE  Inv'
  BY DEF Data, Inv, Ids

LEMMA HandleStep ==
    ASSUME NEW m, NEW t, Inv, Ready(m, t), Handle(m, t),
           UNCHANGED exchange, used' = used \cup {m.newId}
    PROVE  Inv'
  <1>1. pc' # "seed" /\ clock' = t /\ UNCHANGED seeded
    BY DEF Handle, Ignore, EnsureEmitted, Add, ReduceSome, ReduceAll, Remove, Replace, Return
  <1>2. Handling(m, t)
    BY <1>1 DEF Handling
  <1>3. /\ exchange \in Exchanges /\ used' \subseteq Ids
        /\ seeded' \in BOOLEAN /\ clock' \in Nat
    BY <1>1 DEF Inv, Ready, IsMessage
  <1>4. ASSUME Data', pc' = "idle" PROVE Inv'
    <2>1. ControlInv'
      BY <1>1, <1>4 DEF Data, ControlInv
    <2> QED
      BY <1>3, <1>4, <2>1, Inductive
  <1>5. CASE Ignore(m)
    BY <1>2, <1>4, <1>5, IgnoreStep DEF Ignore, Return
  <1>6. CASE EnsureEmitted(m, t)
    <2>1. Data'
      BY <1>2, <1>6, EnsureStep
    <2>2. /\ InWindow(t) /\ m.type # "Add" /\ m.id \in Live
          /\ ~ orders[m.id].emitted /\ Announce(m.id, t)
          /\ pc' = "resume" /\ msg' = m
      BY <1>6 DEF EnsureEmitted, Unannounced
    <2>3. seeded
      BY <2>2 DEF Ready, Touches
    <2>4. /\ Live' = Live /\ DOMAIN book' \subseteq DOMAIN book \cup {m.id}
          /\ \A k \in Live : /\ orders'[k].side = orders[k].side
                             /\ orders'[k].price = orders[k].price
      BY <1>2, <2>2, Given, AnnounceData
    <2>5. m.type = "Replace" => m.newId \notin Live' \cup DOMAIN book'
      BY <2>4 DEF Ready, Usable, IsMessage
    <2>6. m.type = "Replace" => ~ Crosses(orders[m.id].side, m.price, Without(m.id))'
      BY <2>2, <2>4 DEF Ready, Usable, Crosses, Without, Live
    <2>7. Usable(m)'
      BY <2>2, <2>5, <2>6 DEF Usable
    <2>8. IsMessage(m)'
      BY DEF Ready, IsMessage, Ids
    <2>9. ControlInv'
      BY <1>1, <2>1, <2>2, <2>3, <2>7, <2>8 DEF Data, ControlInv, IsMessage, Usable
    <2> QED
      BY <1>3, <2>1, <2>9, Inductive
  <1>7. CASE Add(m, t)
    BY <1>2, <1>4, <1>7, AddStep DEF Add, Return
  <1>8. CASE ReduceSome(m, t)
    BY <1>2, <1>4, <1>8, ReduceStep DEF ReduceSome, Return
  <1>9. CASE ReduceAll(m, t)
    BY <1>2, <1>4, <1>9, WithdrawStep DEF ReduceAll, Applies, Return
  <1>10. CASE Remove(m, t)
    BY <1>2, <1>4, <1>10, WithdrawStep DEF Remove, Applies, Return
  <1>11. CASE Replace(m, t)
    <2>0. PICK add :
            add = Message("Add", m.newId, m.newId, orders[m.id].side, m.shares, m.price)
      OBVIOUS
    <2>1. m.type = "Replace" /\ Touches(m) /\ ~ Unannounced(m, t) /\ Withdraw(m, t)
          /\ m.id \in Live /\ pc' = "resume" /\ msg' = add
      BY <1>11, <2>0 DEF Replace, Applies, Touches
    <2>2. /\ Data' /\ Live' = Live \ {m.id}
          /\ \A k \in Live' : orders'[k] = orders[k]
          /\ DOMAIN book' \subseteq DOMAIN book
      BY <1>2, <2>1, WithdrawStep
    <2>3. /\ add.type = "Add" /\ add.id = m.newId /\ add.newId = m.newId
          /\ add.side = orders[m.id].side /\ add.price = m.price
      BY <2>0 DEF Message
    <2>4. IsMessage(add)'
      <3>1. orders[m.id].side \in Sides
        BY <2>1 DEF Inv, OrdersInv, ShadowOrders
      <3> QED
        BY <2>0, <3>1 DEF Ready, IsMessage, Message, Ids
    <2>5. ~ Crosses(orders[m.id].side, m.price, Without(m.id))
      BY <2>1 DEF Ready, Usable
    <2>6. Usable(add)'
      <3>1. add.newId \notin Live' \cup DOMAIN book'
        BY <2>1, <2>2, <2>3 DEF Ready, Usable
      <3>2. ~ Crosses(add.side, add.price, orders)'
        BY <2>2, <2>3, <2>5 DEF Crosses, Without, Live
      <3> QED
        BY <2>3, <3>1, <3>2 DEF Usable
    <2>7. seeded \/ ~ InWindow(t)
      BY <2>1 DEF Ready
    <2>8. ControlInv'
      BY <1>1, <2>1, <2>2, <2>3, <2>4, <2>6, <2>7 DEF Data, ControlInv, IsMessage, Usable
    <2> QED
      BY <1>3, <2>2, <2>8, Inductive
  <1> QED
    BY <1>5, <1>6, <1>7, <1>8, <1>9, <1>10, <1>11 DEF Handle

-----------------------------------------------------------------------------
(* The exchange's book and the shadow orders.                              *)

\* What a handler does to the shadow orders is what its message means, and
\* what it leaves to be done is the rest of that.
LEMMA HandleMarket ==
    ASSUME NEW m, NEW t, Inv, IsMessage(m), Handle(m, t)
    PROVE  /\ pc' = "idle" => Shadow' = After(Shadow, m)
           /\ pc' # "idle" => After(Shadow, msg)' = After(Shadow, m)
  <1>1. /\ DOMAIN Shadow = Live
        /\ \A id \in Live : /\ Shadow[id].side = orders[id].side
                             /\ Shadow[id].price = orders[id].price
                             /\ Shadow[id].volume = orders[id].shares
    BY DEF Shadow
  <1>2. /\ m.type \in {"Add", "Reduce", "Remove", "Replace"}
        /\ m.shares \in Nat
        /\ \A id \in Live : orders[id] \in ShadowOrders
    BY BoundsAssumption DEF IsMessage, Shares, Inv, OrdersInv
  <1>3. CASE Ignore(m)
    <2>1. Shadow' = Shadow /\ pc' = "idle"
      BY <1>3 DEF Ignore, Return, Shadow, Live
    <2>2. After(Shadow, m) = Shadow
      BY <1>1, <1>2, <1>3 DEF Ignore, Touches, After, Grown
    <2> QED
      BY <2>1, <2>2
  <1>4. CASE EnsureEmitted(m, t)
    <2>1. /\ m.id \in Live /\ pc' = "resume" /\ msg' = m
          /\ orders' = [orders EXCEPT ![m.id].emitted = TRUE]
      BY <1>4 DEF EnsureEmitted, Unannounced, Announce
    <2>2. Live' = Live /\ \A id \in Live : /\ orders'[id].side = orders[id].side
                                          /\ orders'[id].price = orders[id].price
                                          /\ orders'[id].shares = orders[id].shares
      BY <1>2, <2>1 DEF Live, ShadowOrders
    <2>3. Shadow' = Shadow
      BY <2>2 DEF Shadow
    <2> QED
      BY <2>1, <2>3
  <1>5. CASE Add(m, t)
    <2>1. /\ m.type = "Add" /\ ~ Dropped(m) /\ m.newId = m.id /\ pc' = "idle"
          /\ orders' = [id \in Live \cup {m.id} |->
                          IF id = m.id THEN ShadowOrder(m, InWindow(t)) ELSE orders[id]]
      BY <1>5 DEF Add, Applies, Touches, IsMessage, Return
    <2>2. Live' = Live \cup {m.id}
      BY <2>1 DEF Live
    <2>3. After(Shadow, m) =
            [k \in Live \cup {m.id} |->
               IF k = m.id THEN [side |-> m.side, price |-> m.price, volume |-> m.shares]
               ELSE Shadow[k]]
      BY <1>1, <2>1 DEF After, Grown
    <2>4. ASSUME NEW k \in Live \cup {m.id}
          PROVE  [side |-> orders'[k].side, price |-> orders'[k].price,
                  volume |-> orders'[k].shares]
                 = IF k = m.id THEN [side |-> m.side, price |-> m.price, volume |-> m.shares]
                   ELSE Shadow[k]
      BY <2>1 DEF ShadowOrder, Shadow
    <2> QED
      BY <2>1, <2>2, <2>3, <2>4 DEF Shadow
  <1>6. CASE ReduceSome(m, t)
    <2>1. /\ m.type = "Reduce" /\ m.id \in Live /\ Left(m) > 0 /\ pc' = "idle"
          /\ orders' = [orders EXCEPT ![m.id].shares = Left(m)]
      BY <1>6 DEF ReduceSome, Applies, Touches, Return
    <2>2. /\ Live' = Live
          /\ \A id \in Live : /\ orders'[id].side = orders[id].side
                               /\ orders'[id].price = orders[id].price
                               /\ orders'[id].shares =
                                    IF id = m.id THEN Left(m) ELSE orders[id].shares
      BY <1>2, <2>1 DEF Live, ShadowOrders
    <2>3. m.shares < Shadow[m.id].volume /\ Left(m) = Shadow[m.id].volume - m.shares
      BY <1>1, <1>2, <2>1 DEF Left, ShadowOrders
    <2>4. After(Shadow, m) = [Shadow EXCEPT ![m.id].volume = Left(m)]
      BY <1>1, <2>1, <2>3 DEF After
    <2>5. ASSUME NEW k \in Live
          PROVE  [side |-> orders'[k].side, price |-> orders'[k].price,
                  volume |-> orders'[k].shares] = After(Shadow, m)[k]
      BY <2>1, <2>2, <2>4 DEF Shadow
    <2>6. Shadow' = [k \in Live |-> After(Shadow, m)[k]]
      BY <2>2, <2>5 DEF Shadow
    <2>7. After(Shadow, m) = [k \in Live |-> After(Shadow, m)[k]]
      BY <1>1, <2>4
    <2> QED
      BY <2>1, <2>6, <2>7
  <1>7. ASSUME m.id \in Live, orders' = Without(m.id)
        PROVE  Shadow' = Shrunk(Shadow, m.id)
    BY <1>1, <1>7 DEF Shadow, Without, Shrunk, Live
  <1>8. CASE ReduceAll(m, t)
    <2>1. /\ m.type = "Reduce" /\ m.id \in Live /\ Left(m) <= 0 /\ pc' = "idle"
          /\ orders' = Without(m.id)
      BY <1>8 DEF ReduceAll, Withdraw, Applies, Touches, Return
    <2>2. ~ (m.shares < Shadow[m.id].volume)
      BY <1>1, <1>2, <2>1 DEF Left, ShadowOrders
    <2> QED
      BY <1>1, <1>7, <2>1, <2>2 DEF After
  <1>9. CASE Remove(m, t)
    BY <1>1, <1>7, <1>9 DEF Remove, Withdraw, Applies, Touches, Return, After
  <1>10. CASE Replace(m, t)
    <2>1. PICK add :
            add = Message("Add", m.newId, m.newId, orders[m.id].side, m.shares, m.price)
      OBVIOUS
    <2>2. /\ m.type = "Replace" /\ m.id \in Live /\ pc' = "resume" /\ msg' = add
          /\ orders' = Without(m.id)
      BY <1>10, <2>1 DEF Replace, Withdraw, Applies, Touches
    <2>3. /\ add.type = "Add" /\ add.newId = m.newId /\ add.side = Shadow[m.id].side
          /\ add.price = m.price /\ add.shares = m.shares /\ (Dropped(add) <=> Dropped(m))
      BY <1>1, <2>1, <2>2 DEF Message, Dropped
    <2>4. After(Shadow', add) = Grown(Shrunk(Shadow, m.id), add, add.side)
      BY <1>7, <2>2, <2>3 DEF After
    <2>5. After(Shadow, m) = Grown(Shrunk(Shadow, m.id), m, Shadow[m.id].side)
      BY <1>1, <2>2 DEF After
    <2>6. After(Shadow', add) = After(Shadow, m)
      BY <2>3, <2>4, <2>5 DEF Grown
    <2> QED
      BY <2>2, <2>6
  <1> QED
    BY <1>3, <1>4, <1>5, <1>6, <1>8, <1>9, <1>10 DEF Handle

\* Between messages exchange and converter know the same orders, and notice
\* the first that the window is about together.
LEMMA IdleMarket ==
    ASSUME IInv, pc = "idle"
    PROVE  /\ market = Shadow /\ DOMAIN market = Live
           /\ \A id \in Live : /\ market[id].side = orders[id].side
                                /\ market[id].price = orders[id].price
           /\ \A m : Concerns(m) <=> Touches(m)
  BY DEF IInv, MarketInv, Shadow, Concerns, Touches

\* What the exchange may send is ready to be handled.
LEMMA Arrives ==
    ASSUME IInv, pc = "idle", NEW m \in Messages
    PROVE  IsMessage(m) /\ Usable(m)
  <1>1. /\ Live \subseteq used /\ DOMAIN book \subseteq used
        /\ MaxShares \in Nat /\ MaxPrice \in Nat
    BY BoundsAssumption DEF IInv, Inv, OrdersInv, FeedInv
  <1>2. CASE m \in AddMessages
    <2>1. IsMessage(m) /\ m.type = "Add" /\ m.newId \notin used
          /\ ~ Crosses(m.side, m.price, market)
      BY <1>1, <1>2 DEF AddMessages, IsMessage, Message, Shares, MessagePrices
    <2>2. ~ Crosses(m.side, m.price, orders)
      BY <2>1, IdleMarket DEF Crosses, Live
    <2> QED
      BY <1>1, <2>1, <2>2 DEF Usable
  <1>3. CASE m \in ReduceMessages
    BY <1>1, <1>3 DEF ReduceMessages, IsMessage, Usable, Message, Shares, MessagePrices, Sides
  <1>4. CASE m \in RemoveMessages
    BY <1>1, <1>4 DEF RemoveMessages, IsMessage, Usable, Message, Shares, MessagePrices, Sides
  <1>5. CASE m \in ReplaceMessages
    <2>1. IsMessage(m) /\ m.type = "Replace" /\ m.newId \notin used
          /\ (m.id \in DOMAIN market =>
                ~ Crosses(market[m.id].side, m.price, Shrunk(market, m.id)))
      BY <1>1, <1>5 DEF ReplaceMessages, IsMessage, Message, Shares, MessagePrices, Sides
    <2>2. m.id \in Live => ~ Crosses(orders[m.id].side, m.price, Without(m.id))
      BY <2>1, IdleMarket DEF Crosses, Live, Shrunk, Without
    <2> QED
      BY <1>1, <2>1, <2>2 DEF Usable
  <1> QED
    BY <1>2, <1>3, <1>4, <1>5 DEF Messages

LEMMA MarketStep ==
    ASSUME IInv, [Next]_vars
    PROVE  MarketInv'
  <1>1. CASE UNCHANGED vars
    BY <1>1 DEF vars, IInv, MarketInv, Shadow, Live
  <1>2. CASE Directory
    BY <1>2 DEF Directory, atExchange, IInv, MarketInv, Shadow, Live
  <1>3. ASSUME NEW m \in Messages, NEW t \in Times, Skip(m, t) PROVE MarketInv'
    BY <1>3 DEF Skip, IInv, MarketInv, Shadow, Live
  <1>4. ASSUME NEW m \in Messages, NEW t \in Times, Receive(m, t) PROVE MarketInv'
    <2>1. /\ pc = "idle" /\ located /\ ~ Seeding(m, t) /\ Handle(m, t) /\ Send(m, t)
      BY <1>4 DEF Receive
    <2>2. market' = After(Shadow, m)
      BY <2>1, IdleMarket DEF Send
    <2>3. IsMessage(m)
      BY <1>4, <2>1, Arrives
    <2>4. touched' = touched /\ UNCHANGED <<seeded, located>>
      BY <2>1, IdleMarket DEF Send, Handle, Seeding, IInv, Inv, MarketInv
    <2> QED
      BY <2>1, <2>2, <2>3, <2>4, HandleMarket DEF IInv, MarketInv
  <1>5. ASSUME NEW m \in Messages, NEW t \in Times, ReceiveAndSeed(m, t) PROVE MarketInv'
    <2>1. market' = After(Shadow, m) /\ touched' = TRUE
      BY <1>5, IdleMarket DEF ReceiveAndSeed, Send, Seeding
    <2>2. Shadow' = Shadow /\ pc' = "seed" /\ msg' = m /\ seeded' = TRUE /\ located /\ located'
      BY <1>5 DEF ReceiveAndSeed, Shadow, Live
    <2> QED
      BY <2>1, <2>2 DEF MarketInv
  <1>6. CASE SeedNext
    <2>1. /\ pc = "seed" /\ orders' = [orders EXCEPT ![Min(Silent)].emitted = TRUE]
          /\ UNCHANGED <<market, touched, seeded, located, pc, msg>>
      BY <1>6 DEF SeedNext, Announce, atExchange
    <2>2. Live' = Live /\ \A id \in Live : /\ orders'[id].side = orders[id].side
                                          /\ orders'[id].price = orders[id].price
                                          /\ orders'[id].shares = orders[id].shares
      BY <2>1 DEF Live, ShadowOrders, IInv, Inv, OrdersInv
    <2>3. Shadow' = Shadow
      BY <2>2 DEF Shadow
    <2> QED
      BY <2>1, <2>2, <2>3 DEF IInv, MarketInv
  <1>7. CASE Resume
    <2>1. pc # "idle" /\ Handle(msg, clock) /\ UNCHANGED <<market, touched, seeded, located>>
      BY <1>7 DEF Resume, Handle, atExchange
    <2>2. IsMessage(msg) /\ market = After(Shadow, msg)
      BY <2>1 DEF IInv, Inv, ControlInv, MarketInv
    <2>3. located
      BY <2>1 DEF IInv, MarketInv
    <2> QED
      BY <2>1, <2>2, <2>3, HandleMarket DEF IInv, MarketInv
  <1> QED
    BY <1>1, <1>2, <1>3, <1>4, <1>5, <1>6, <1>7 DEF Next, Arrive, Step

LEMMA ReceiveStep ==
    ASSUME IInv, NEW m \in Messages, NEW t \in Times, Receive(m, t), UNCHANGED exchange
    PROVE  Inv'
  <1> Inv /\ pc = "idle"
    BY DEF IInv, Receive
  <1>1. t \in Nat /\ (~ exchange.unordered => clock <= t)
    BY DEF Times, Inv
  <1>2. ASSUME ~ exchange.unordered, seeded, t <= To PROVE Silent = {}
    <2>1. clock \in Nat /\ To \in Nat /\ pc # "seed"
      BY WindowAssumption DEF Inv, Receive
    <2>2. clock <= To
      BY <1>1, <1>2, <2>1
    <2> QED
      BY <1>2, <2>1, <2>2 DEF Inv, OrderInv
  <1>3. Ready(m, t)
    BY <1>1, <1>2, Arrives DEF Ready, Receive, Seeding, Inv
  <1> QED
    BY <1>3, HandleStep DEF Receive, Send

LEMMA SeedingStep ==
    ASSUME IInv, NEW m \in Messages, NEW t \in Times, ReceiveAndSeed(m, t), UNCHANGED exchange
    PROVE  Inv'
  <1> Inv /\ pc = "idle"
    BY DEF IInv, ReceiveAndSeed
  <1>1. t \in Nat /\ (~ exchange.unordered => clock <= t) /\ clock \in Nat /\ latest \in Nat
        /\ From \in Nat /\ To \in Nat
    BY WindowAssumption DEF Times, Inv
  <1>2. /\ ~ seeded /\ seeded' = TRUE /\ InWindow(t) /\ pc' = "seed" /\ msg' = m /\ clock' = t
        /\ used' = used \cup {m.newId}
        /\ UNCHANGED <<orders, book, verdict, latest>>
    BY DEF ReceiveAndSeed, Seeding, Send, feed
  <1>3. IsMessage(m) /\ Usable(m)
    BY Arrives
  <1>4. OrdersInv' /\ FeedInv' /\ Emitted' = Emitted /\ (Alike => Alike')
    BY <1>2 DEF Inv, OrdersInv, FeedInv, EmittedIsKnown, Emitted, Alike, Shown, Live
  <1>5. IsMessage(m)' /\ Usable(m)'
    BY <1>2, <1>3 DEF IsMessage, Usable, Ids, Live, Crosses, Without
  <1>6. ControlInv'
    BY <1>2, <1>5 DEF ControlInv, IsMessage, Usable, InWindow
  <1>7. ASSUME ~ exchange.unordered PROVE OrderInv'
    <2>1. OrderInv
      BY <1>7 DEF Inv
    <2> QED
      BY <1>1, <1>2, <1>4, <1>7, <2>1 DEF OrderInv, InWindow
  <1>8. used' \subseteq Ids
    BY <1>2, <1>3 DEF Inv, IsMessage
  <1> QED
    BY <1>1, <1>2, <1>4, <1>6, <1>7, <1>8 DEF Inv, Ids

LEMMA SkipStep ==
    ASSUME IInv, NEW m \in Messages, NEW t \in Times, Skip(m, t), UNCHANGED exchange
    PROVE  Inv'
  <1> Inv /\ pc = "idle"
    BY DEF IInv, Skip
  <1>1. t \in Nat /\ (~ exchange.unordered => clock <= t) /\ clock \in Nat /\ latest \in Nat
        /\ From \in Nat /\ To \in Nat
    BY WindowAssumption DEF Times, Inv
  <1>2. /\ pc = "idle" /\ clock' = t /\ used' = used \cup {m.newId}
        /\ UNCHANGED <<orders, book, verdict, latest, seeded, pc, msg>>
    BY DEF Skip, feed
  <1>3. IsMessage(m)
    BY Arrives
  <1>4. OrdersInv' /\ FeedInv' /\ Emitted' = Emitted /\ Silent' = Silent /\ (Alike => Alike')
    BY <1>2 DEF Inv, OrdersInv, FeedInv, EmittedIsKnown, Emitted, Silent, Alike, Shown, Live
  <1>5. ControlInv'
    BY <1>2, <1>4 DEF Inv, ControlInv
  <1>6. ASSUME ~ exchange.unordered PROVE OrderInv'
    <2>1. OrderInv
      BY <1>6 DEF Inv
    <2> QED
      BY <1>1, <1>2, <1>4, <1>6, <2>1 DEF OrderInv
  <1>7. used' \subseteq Ids
    BY <1>2, <1>3 DEF Inv, IsMessage
  <1> QED
    BY <1>1, <1>2, <1>4, <1>5, <1>6, <1>7 DEF Inv, Ids

LEMMA SeedNextStep ==
    ASSUME Inv, SeedNext, UNCHANGED exchange
    PROVE  Inv'
  <1> DEFINE id == Min(Silent)
  <1>1. Silent \subseteq Nat
    BY ExchangesAssumption DEF Inv, OrdersInv, Silent, Ids, IsExchange
  <1>2. id \in Live /\ ~ orders[id].emitted
    BY <1>1, MinIsLeast DEF SeedNext, Silent
  <1>3. /\ Announce(id, From) /\ pc = "seed"
        /\ UNCHANGED <<seeded, pc, msg, clock, used>>
    BY DEF SeedNext, atExchange
  <1> HIDE DEF id
  <1>4. /\ OrdersInv' /\ FeedInv' /\ (Alike => Alike')
        /\ latest' = From /\ Live' = Live
        /\ \A k \in Live : /\ orders'[k].side = orders[k].side
                           /\ orders'[k].price = orders[k].price
        /\ DOMAIN book' \subseteq DOMAIN book \cup {id}
    BY <1>2, <1>3, AnnounceData DEF Inv
  <1>5. seeded /\ InWindow(clock) /\ IsMessage(msg) /\ Usable(msg) /\ msg.newId \in used
    BY <1>3 DEF Inv, ControlInv
  <1>6. IsMessage(msg)' /\ Usable(msg)'
    <2>1. IsMessage(msg)'
      BY <1>3, <1>5 DEF IsMessage, Ids
    <2>2. msg.type \in {"Add", "Replace"} => msg.newId \notin Live' \cup DOMAIN book'
      BY <1>2, <1>4, <1>5 DEF Usable
    <2>3. msg.type = "Add" => ~ Crosses(msg.side, msg.price, orders)'
      BY <1>3, <1>4, <1>5 DEF Usable, Crosses, Without, Live
    <2>4. msg.type = "Replace" /\ msg.id \in Live' =>
            ~ Crosses(orders[msg.id].side, msg.price, Without(msg.id))'
      BY <1>3, <1>4, <1>5 DEF Usable, Crosses, Without, Live
    <2> QED
      BY <1>3, <2>1, <2>2, <2>3, <2>4 DEF Usable
  <1>7. ControlInv'
    BY <1>3, <1>5, <1>6 DEF ControlInv, InWindow
  <1>8. ASSUME ~ exchange.unordered PROVE OrderInv'
    <2>1. OrderInv /\ clock <= To /\ From <= clock
      BY <1>5, <1>8 DEF Inv, InWindow
    <2>2. Alike' /\ verdict' = "ok"
      BY <1>4, <2>1 DEF OrderInv, Alike
    <2> QED
      BY <1>3, <1>4, <1>5, <2>1, <2>2, WindowAssumption DEF OrderInv
  <1> QED
    BY <1>3, <1>4, <1>5, <1>7, <1>8, WindowAssumption DEF Inv, Ids

LEMMA ResumeStep ==
    ASSUME Inv, Resume, UNCHANGED exchange
    PROVE  Inv'
  <1>1. IsMessage(msg) /\ Usable(msg) /\ msg.newId \in used
    BY DEF Inv, ControlInv, Resume
  <1>2. Ready(msg, clock)
    BY <1>1 DEF Inv, ControlInv, OrderInv, Ready, Resume
  <1>3. used' = used \cup {msg.newId}
    BY <1>1 DEF Resume, atExchange
  <1> QED
    BY <1>2, <1>3, HandleStep DEF Resume

LEMMA InitInv == Init => IInv
  <1> SUFFICES ASSUME Init PROVE IInv
    OBVIOUS
  <1>1. /\ exchange \in Exchanges /\ Live = {} /\ DOMAIN book = {} /\ verdict = "ok"
        /\ orders = [id \in {} |-> 0] /\ book = [id \in {} |-> 0]
        /\ ~ seeded /\ seeded \in BOOLEAN /\ pc = "idle" /\ clock = 0 /\ used = {} /\ latest = 0
    BY DEF Init, Live, Validator!Init
  <1>2. OrdersInv /\ FeedInv
    BY <1>1 DEF OrdersInv, FeedInv, EmittedIsKnown
  <1>3. Emitted = {} /\ Silent = {}
    BY <1>1 DEF Emitted, Silent
  <1>4. Alike
    BY <1>1, <1>3 DEF Alike, Shown
  <1>5. MarketInv
    BY <1>1 DEF Init, MarketInv, Shadow
  <1> QED
    BY <1>1, <1>2, <1>3, <1>4, <1>5 DEF IInv, Inv, ControlInv, OrderInv

\* Inv says nothing of located.
LEMMA OtherStep ==
    ASSUME Inv, UNCHANGED <<exchange, orders, seeded, pc, msg, clock, used, book, verdict, latest>>
    PROVE  Inv'
  <1>1. OrdersInv'
    BY DEF Inv, OrdersInv, Live
  <1>2. FeedInv'
    BY DEF Inv, FeedInv, EmittedIsKnown, Live
  <1>3. Emitted' = Emitted /\ Silent' = Silent /\ (Alike => Alike')
    BY DEF Emitted, Silent, Alike, Shown, Live
  <1>4. pc # "idle" => IsMessage(msg)' /\ Usable(msg)'
    BY DEF Inv, ControlInv, IsMessage, Usable, Crosses, Without, Live, Ids
  <1>5. ControlInv'
    BY <1>3, <1>4 DEF Inv, ControlInv, InWindow
  <1>6. ~ exchange.unordered => OrderInv'
    BY <1>3 DEF Inv, OrderInv
  <1> QED
    BY <1>1, <1>2, <1>5, <1>6 DEF Inv, Ids

LEMMA NextInv == IInv /\ [Next]_vars => IInv'
  <1> SUFFICES ASSUME IInv, [Next]_vars PROVE Inv'
    BY MarketStep DEF IInv
  <1> Inv
    BY DEF IInv
  <1>1. CASE Directory /\ UNCHANGED exchange
    BY <1>1, OtherStep DEF Directory, atExchange, feed
  <1>2. CASE UNCHANGED vars
    BY <1>2, OtherStep DEF vars
  <1> QED
    BY <1>1, <1>2, SkipStep, ReceiveStep, SeedingStep, SeedNextStep, ResumeStep
    DEF Next, Arrive, Step

-----------------------------------------------------------------------------
(* What is emitted is what the feed holds; with timestamps in order the    *)
(* feed is the book as long as the window lasts; and between messages the  *)
(* shadow orders are the exchange's.                                       *)
THEOREM Invariance == Spec => []IInv
  <1> QED
    BY InitInv, NextInv, PTL DEF Spec

(* The validator (ValidateFeed) accepts every feed that Converter makes of *)
(* messages in order.                                                      *)
THEOREM FeedsAreAccepted == Spec => []Accepted
  <1>1. IInv => Accepted
    BY DEF IInv, Inv, OrderInv, Accepted
  <1> QED
    BY Invariance, <1>1, PTL

(* Inside the window the feed replays to the book of the exchange, from    *)
(* the first message on that is about an order in it, and is empty before. *)
THEOREM FeedsReplay == Spec => []ReplayGivesBook
  <1>1. IInv => ReplayGivesBook
    <2>1. SUFFICES ASSUME IInv, ~ exchange.unordered, pc = "idle", InWindow(clock)
                   PROVE  book = IF touched THEN market ELSE [id \in {} |-> 0]
      BY DEF ReplayGivesBook
    <2>2. OrderInv /\ clock <= To /\ market = Shadow /\ touched = seeded
      BY <2>1 DEF IInv, Inv, MarketInv, InWindow
    <2>3. book = Shown
      BY <2>2 DEF OrderInv, Alike
    <2>4. CASE seeded
      <3>1. Emitted = Live
        BY <2>1, <2>2, <2>4 DEF OrderInv, Emitted, Silent
      <3> QED
        BY <2>2, <2>3, <2>4, <3>1 DEF Shown, Shadow
    <2>5. CASE ~ seeded
      <3>1. Emitted = {}
        BY <2>1, <2>5 DEF IInv, Inv, ControlInv
      <3> QED
        BY <2>2, <2>3, <2>5, <3>1 DEF Shown
    <2> QED
      BY <2>4, <2>5
  <1> QED
    BY Invariance, <1>1, PTL

(* Timestamps in any order never make the feed name an unknown order, or   *)
(* announce one twice: a resting order is marked (ShadowOrder::emitted)    *)
(* exactly if the feed's reader has it.                                    *)
THEOREM MarksAreRight == Spec => []EmittedIsKnown
  <1>1. IInv => EmittedIsKnown
    BY DEF IInv, Inv, FeedInv
  <1> QED
    BY Invariance, <1>1, PTL

\* What a push may do to the feed's times.
LEMMA HandleTimes ==
    ASSUME NEW m, NEW t, Handle(m, t)
    PROVE  UNCHANGED feed \/ (InWindow(t) /\ latest' = t)
  BY DEF Handle, Ignore, EnsureEmitted, Unannounced, Announce, Add, ReduceSome, ReduceAll,
         Remove, Replace, Withdraw, Emit, Push

(* The feed's timestamps stay in the window and, with messages in order,   *)
(* never go back, though seed_window writes the window's first instant.    *)
THEOREM TimesAreRight == Spec => TimeInOrder
  <1> DEFINE Right == feed' # feed =>
                        InWindow(latest') /\ (exchange.unordered \/ latest <= latest')
  <1>1. ASSUME IInv, [Next]_vars PROVE Right
    <2> Inv
      BY <1>1 DEF IInv
    <2>1. clock \in Nat /\ latest \in Nat /\ From \in Nat /\ To \in Nat
          /\ (~ exchange.unordered => latest <= clock)
      BY <1>1, WindowAssumption DEF Inv, OrderInv
    <2>2. ASSUME NEW m \in Messages, NEW t \in Times, Receive(m, t) PROVE Right
      <3>1. t \in Nat /\ (~ exchange.unordered => clock <= t)
        BY <2>1 DEF Times
      <3> QED
        BY <2>1, <2>2, <3>1, HandleTimes DEF Receive
    <2>3. CASE Resume
      BY <2>1, <2>3, HandleTimes DEF Resume
    <2>4. CASE SeedNext
      <3>1. latest' = From /\ From <= To
        BY <1>1, <2>1, <2>4 DEF SeedNext, Announce, Push, Inv, ControlInv, InWindow
      <3>2. ~ exchange.unordered => latest <= From
        BY <1>1, <2>4 DEF SeedNext, Inv, OrderInv
      <3> QED
        BY <2>1, <3>1, <3>2 DEF InWindow
    <2>5. CASE UNCHANGED feed
      BY <2>5
    <2>6. CASE Directory
      BY <2>5, <2>6 DEF Directory
    <2>7. ASSUME NEW m \in Messages, NEW t \in Times, Skip(m, t) \/ ReceiveAndSeed(m, t)
          PROVE  Right
      BY <2>5, <2>7 DEF Skip, ReceiveAndSeed
    <2>8. CASE UNCHANGED vars
      BY <2>5, <2>8 DEF vars, feed
    <2> QED
      BY <1>1, <2>2, <2>3, <2>4, <2>6, <2>7, <2>8 DEF Next, Arrive, Step
  <1> QED
    BY <1>1, Invariance, PTL DEF Spec, TimeInOrder
=============================================================================
