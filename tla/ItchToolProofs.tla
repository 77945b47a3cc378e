---------------------------- MODULE ItchToolProofs ----------------------------
(***************************************************************************)
(* Proofs about ob_itch.  First its reader of day files, for files of any  *)
(* number of messages, buffers of any size and any pieces from gzread.     *)
(* Then the program as a whole, for every input, list of symbols and       *)
(* number of runs over the same directory, killed and failing ones too: a  *)
(* file is always the beginning of one feed, so that one of the right size *)
(* is that feed; the program writes only after it has read everything; and *)
(* it exits with 0 only after the last state of each name was written.     *)
(***************************************************************************)
EXTENDS ItchTool, WellFoundedInduction, TLAPS

TypeInv ==
    /\ file \in Files
    /\ taken \in 0..file.size /\ have \in 0..taken /\ pos \in 0..have
    /\ eof \in BOOLEAN
    /\ pc \in {"fill", "parse", "done"}
    /\ result \in {"ok", "gzread", "truncated"}
    /\ delivered \in Seq([at : Nat, len : Nat])

(* The parser always stands at the start of a message, or of the rest; the *)
(* end of the file is seen only when it was taken whole.                   *)
Aligned ==
    /\ Len(delivered) <= file.count
    /\ Front = file.ends[Len(delivered)]
    /\ pc = "fill" => pos = 0
    /\ eof => taken = file.size

IInv == TypeInv /\ Aligned /\ InOrder /\ VerdictRight

-----------------------------------------------------------------------------
(* What a file is, in the form in which the steps use it.                  *)
LEMMA FileShape ==
    ASSUME file \in Files
    PROVE  /\ file.count \in Nat /\ file.size \in Nat /\ file.cut \in Nat
           /\ \A m \in 0..file.count : file.ends[m] \in 0..file.size
           /\ file.ends[0] = 0
           /\ \A j, m \in 0..file.count : j < m => file.ends[j] + 2 <= file.ends[m]
           /\ file.size - file.ends[file.count] < 2 + file.cut
  BY FilesAssumption DEF IsFile

(* Messages do not overlap: at the end of n messages starts the next one,  *)
(* if there is one, and no other.                                          *)
LEMMA NextMessage ==
    ASSUME file \in Files, NEW n \in 0..file.count
    PROVE  At(file.ends[n]) = IF n < file.count THEN {n + 1} ELSE {}
  <1>1. \A m \in 1..file.count :
          m - 1 \in 0..file.count /\ (file.ends[m - 1] = file.ends[n] <=> m - 1 = n)
    <2>1. SUFFICES ASSUME NEW m \in 1..file.count, m - 1 # n
                   PROVE  file.ends[m - 1] # file.ends[n]
      BY FileShape
    <2>2. m - 1 \in 0..file.count /\ (m - 1 < n \/ n < m - 1)
      BY <2>1, FileShape
    <2> QED
      BY <2>2, FileShape
  <1>2. At(file.ends[n]) = {m \in 1..file.count : m - 1 = n}
    BY <1>1 DEF At, Message
  <1> QED
    BY <1>2, FileShape

(* So that BE16 there reads the length of that message.                    *)
LEMMA LengthThere ==
    ASSUME file \in Files, NEW n \in 0..file.count
    PROVE  LengthsAt(file.ends[n]) =
             IF n < file.count THEN {file.ends[n + 1] - file.ends[n] - 2} ELSE {file.cut}
  <1>1. CASE n < file.count
    <2>1. At(file.ends[n]) = {n + 1}
      BY <1>1, NextMessage
    <2>2. Message(n + 1).len = file.ends[n + 1] - file.ends[n] - 2
      BY FileShape DEF Message
    <2> QED
      BY <1>1, <2>1, <2>2 DEF LengthsAt
  <1>2. CASE n = file.count
    <2>1. ~ (n < file.count)
      BY <1>2, FileShape
    <2>2. At(file.ends[n]) = {}
      BY <2>1, NextMessage
    <2> QED
      BY <1>2, <2>1, <2>2 DEF LengthsAt
  <1> QED
    BY <1>1, <1>2, FileShape

-----------------------------------------------------------------------------
(* The reader begins at the first message.                                 *)
THEOREM Initially == Init => IInv
  <1> SUFFICES ASSUME Init PROVE IInv
    OBVIOUS
  <1>1. file \in Files
    BY DEF Init
  <1>2. TypeInv
    <2>1. file.size \in Nat /\ 0 \in 0..file.size /\ 0 \in 0..0
      BY <1>1, FileShape
    <2>2. <<>> \in Seq([at : Nat, len : Nat])
      OBVIOUS
    <2> QED
      BY <1>1, <2>1, <2>2 DEF Init, TypeInv
  <1>3. Aligned
    BY <1>1, FileShape DEF Init, Aligned, Front
  <1> QED
    BY <1>1, <1>2, <1>3, FileShape DEF Init, IInv, InOrder, VerdictRight

LEMMA FillStep ==
    ASSUME IInv, Fill
    PROVE  IInv'
  <1>1. file \in Files /\ file' = file /\ delivered' = delivered /\ result' = result
    BY DEF IInv, TypeInv, Fill
  <1>2. PICK n \in Nat :
          /\ taken' = taken + n /\ have' = have + n
          /\ n <= file.size - taken
          /\ eof' \in BOOLEAN
          /\ eof' => eof \/ taken = file.size
          /\ eof' => n = 0
    <2>1. CASE UNCHANGED <<taken, have, eof>>
      <3>1. taken' = taken + 0 /\ have' = have + 0 /\ 0 <= file.size - taken
        BY <1>1, <2>1, FileShape DEF IInv, TypeInv
      <3> QED
        BY <2>1, <3>1 DEF IInv, TypeInv
    <2>2. CASE \E n \in Pieces : taken' = taken + n /\ have' = have + n /\ eof' = (n = 0)
      <3>1. PICK n \in Pieces : taken' = taken + n /\ have' = have + n /\ eof' = (n = 0)
        BY <2>2
      <3>2. n \in Nat /\ n <= file.size - taken /\ (n = 0 => taken = file.size)
        BY <1>1, FileShape, BufAssumption DEF Pieces, IInv, TypeInv
      <3> QED
        BY <3>1, <3>2
    <2> QED
      BY <2>1, <2>2 DEF Fill
  <1>3. TypeInv'
    BY <1>1, <1>2, FileShape DEF IInv, TypeInv, Fill
  <1>4. Aligned'
    <2>1. taken \in Nat /\ have \in Nat /\ pos = 0 /\ file.size \in Nat
      BY <1>1, FileShape DEF IInv, TypeInv, Aligned, Fill
    <2>2. Front' = Front
      BY <1>2, <2>1 DEF Front, Fill
    <2>3. eof' => taken' = file.size
      BY <1>2, <2>1 DEF IInv, Aligned
    <2> QED
      BY <1>1, <2>2, <2>3 DEF IInv, Aligned, Fill
  <1>5. InOrder' /\ VerdictRight'
    BY <1>1 DEF IInv, InOrder, VerdictRight, Message, Fill
  <1> QED
    BY <1>3, <1>4, <1>5 DEF IInv

LEMMA ErrorStep ==
    ASSUME IInv, FillError
    PROVE  IInv'
  BY DEF IInv, TypeInv, Aligned, Front, InOrder, VerdictRight, Message, FillError

LEMMA DeliverStep ==
    ASSUME IInv, Deliver
    PROVE  IInv'
  <1> DEFINE n == Len(delivered)
  <1>1. file \in Files /\ n \in 0..file.count /\ Front = file.ends[n]
    BY FileShape DEF IInv, TypeInv, Aligned
  <1>2. PICK len \in LengthsAt(Front) :
          /\ Whole(len)
          /\ delivered' = Append(delivered, [at |-> Front, len |-> len])
          /\ pos' = pos + 2 + len
    BY DEF Deliver
  <1>3. taken \in 0..file.size /\ have \in 0..taken /\ pos \in 0..have /\ file.size \in Nat
    BY <1>1, FileShape DEF IInv, TypeInv
  <1>4. n < file.count
    <2>1. SUFFICES ASSUME n = file.count PROVE FALSE
      BY <1>1, FileShape
    <2>2. ~ (n < file.count) /\ n \in 0..file.count
      BY <1>1, <2>1, FileShape
    <2>3. LengthsAt(Front) = {file.cut}
      BY <1>1, <2>2, LengthThere
    <2>4. have - pos >= 2 + file.cut
      BY <1>2, <2>3 DEF Whole
    <2>5. taken - have + pos = file.ends[file.count] /\ file.ends[file.count] \in Nat
      BY <1>1, <2>1, FileShape DEF Front
    <2>6. file.cut \in Nat /\ file.size - file.ends[file.count] < 2 + file.cut
      BY <1>1, FileShape
    <2> QED
      BY <1>3, <2>4, <2>5, <2>6
  <1>5. len = file.ends[n + 1] - file.ends[n] - 2 /\ len \in Nat
    <2>1. len = file.ends[n + 1] - file.ends[n] - 2
      BY <1>1, <1>2, <1>4, LengthThere
    <2>2. n + 1 \in 0..file.count /\ n < n + 1
      BY <1>1, <1>4, FileShape
    <2>3. n \in 0..file.count /\ file.ends[n] \in 0..file.size /\ file.ends[n + 1] \in 0..file.size
      BY <1>1, <2>2, FileShape
    <2>4. file.size \in Nat /\ file.ends[n] + 2 <= file.ends[n + 1]
      BY <1>1, <2>2, <2>3, FileShape
    <2> QED
      BY <2>1, <2>3, <2>4
  <1>6. /\ delivered' \in Seq([at : Nat, len : Nat])
        /\ Len(delivered') = n + 1
        /\ delivered'[n + 1] = [at |-> file.ends[n], len |-> len]
        /\ \A m \in 1..n : delivered'[m] = delivered[m]
    <2>1. [at |-> file.ends[n], len |-> len] \in [at : Nat, len : Nat]
      BY <1>1, <1>5, FileShape
    <2>2. delivered \in Seq([at : Nat, len : Nat])
      BY DEF IInv, TypeInv
    <2> QED
      BY <1>1, <1>2, <2>1, <2>2
  <1>7. pos' = pos + 2 + len /\ pos' \in 0..have
    BY <1>2, <1>3, <1>5 DEF Whole
  <1>8. Front' = file.ends[n + 1]
    <2>1. Front' = taken - have + (pos + 2 + len)
      BY <1>7 DEF Front, Deliver
    <2>2. taken - have + pos = file.ends[n]
      BY <1>1 DEF Front
    <2>3. n \in 0..file.count /\ n + 1 \in 0..file.count
      BY <1>1, <1>4, FileShape
    <2>4. file.ends[n] \in Int /\ file.ends[n + 1] \in Int
      BY <1>1, <2>3, FileShape
    <2>5. taken \in Int /\ have \in Int /\ pos \in Int /\ len \in Int
      BY <1>3, <1>5
    <2>6. taken - have + (pos + 2 + len) = (taken - have + pos) + 2 + len
      BY <2>5
    <2>7. file.ends[n] + 2 + len = file.ends[n + 1]
      BY <1>5, <2>4, <2>5
    <2> QED
      BY <2>1, <2>2, <2>6, <2>7
  <1>9. TypeInv'
    BY <1>6, <1>7 DEF IInv, TypeInv, Deliver
  <1>10. Aligned'
    BY <1>1, <1>4, <1>6, <1>8, FileShape DEF IInv, Aligned, Deliver
  <1>11. InOrder'
    <2>1. \A m \in 1..n : delivered'[m] = Message(m)
      BY <1>6 DEF IInv, InOrder
    <2>2. delivered'[n + 1] = Message(n + 1)
      BY <1>1, <1>5, <1>6, FileShape DEF Message
    <2>3. n \in Nat /\ n + 1 <= file.count
      BY <1>1, <1>4, FileShape
    <2>4. \A m \in 1..n + 1 : delivered'[m] = Message(m)
      BY <2>1, <2>2, <2>3
    <2>5. file' = file
      BY DEF Deliver
    <2> HIDE DEF n
    <2> QED
      BY <1>6, <2>3, <2>4, <2>5 DEF InOrder, Message
  <1> QED
    BY <1>9, <1>10, <1>11 DEF IInv, VerdictRight, Deliver

LEMMA CompactStep ==
    ASSUME IInv, Compact
    PROVE  IInv'
  <1> DEFINE n == Len(delivered)
  <1>1. file \in Files /\ n \in 0..file.count /\ Front = file.ends[n]
    BY FileShape DEF IInv, TypeInv, Aligned
  <1>2. taken \in 0..file.size /\ have \in 0..taken /\ pos \in 0..have /\ file.size \in Nat
    BY <1>1, FileShape DEF IInv, TypeInv
  <1>3. PICK len \in LengthsAt(Front) :
          /\ ~ Whole(len)
          /\ \/ eof /\ ~ Whole(0) /\ pc' = "done" /\ result' = "ok"
             \/ eof /\ Whole(0) /\ pc' = "done" /\ result' = "truncated"
             \/ ~ eof /\ pc' = "fill" /\ UNCHANGED result
    BY DEF Compact
  <1>4. UNCHANGED <<file, taken, eof, delivered>> /\ have' = have - pos /\ pos' = 0
    BY DEF Compact
  <1>5. TypeInv'
    BY <1>2, <1>3, <1>4 DEF IInv, TypeInv
  <1>6. Aligned'
    <2>1. Front' = Front
      BY <1>2, <1>4 DEF Front
    <2> QED
      BY <1>4, <2>1 DEF IInv, Aligned
  <1>7. InOrder'
    BY <1>4 DEF IInv, InOrder, Message
  <1>8. eof => n = file.count
    <2>1. SUFFICES ASSUME eof, n < file.count PROVE FALSE
      BY <1>1, FileShape
    <2>2. len = file.ends[n + 1] - file.ends[n] - 2
      BY <1>1, <1>3, <2>1, LengthThere
    <2>3. file.ends[n + 1] <= file.size /\ file.ends[n + 1] \in Nat /\ file.ends[n] \in Nat
      BY <1>1, <2>1, FileShape
    <2>4. have - pos = file.size - file.ends[n]
      BY <1>1, <1>2, <2>1 DEF IInv, Aligned, Front
    <2>5. ~ (have - pos >= 2 + len)
      BY <1>3 DEF Whole
    <2>6. have \in Int /\ pos \in Int /\ file.size \in Int
      BY <1>2
    <2> QED
      BY <2>2, <2>3, <2>4, <2>5, <2>6
  <1>9. VerdictRight'
    <2>1. eof => have - pos = file.size - file.ends[file.count]
      BY <1>1, <1>2, <1>8 DEF IInv, Aligned, Front
    <2>2. Whole(0) <=> have - pos >= 2
      BY DEF Whole
    <2>3. have - pos \in Int
      BY <1>2
    <2> QED
      BY <1>3, <1>4, <1>8, <2>1, <2>2, <2>3 DEF VerdictRight
  <1> QED
    BY <1>5, <1>6, <1>7, <1>9 DEF IInv

LEMMA StepKeepsInv == IInv /\ [Next]_vars => IInv'
  <1> SUFFICES ASSUME IInv, [Next]_vars PROVE IInv'
    OBVIOUS
  <1>1. CASE UNCHANGED vars
    BY <1>1 DEF vars, IInv, TypeInv, Aligned, Front, InOrder, VerdictRight, Message
  <1> QED
    BY <1>1, FillStep, ErrorStep, DeliverStep, CompactStep DEF Next

(* The inductive invariant of the refill loop.                             *)
THEOREM ReaderInvariance == Spec => []IInv
  BY Initially, StepKeepsInv, PTL DEF Spec

(* The converter gets the messages of the file, whole, in order and once,  *)
(* in whatever pieces gzread returns it and for every size of the buffer.  *)
THEOREM DeliversInOrder == Spec => []InOrder
  <1>1. IInv => InOrder
    BY DEF IInv
  <1> QED
    BY <1>1, ReaderInvariance, PTL

(* "ok" and "truncated" are said of the files that are, but for one byte.  *)
THEOREM VerdictIsRight == Spec => []VerdictRight
  <1>1. IInv => VerdictRight
    BY DEF IInv
  <1> QED
    BY <1>1, ReaderInvariance, PTL

-----------------------------------------------------------------------------
(* The feeds there can be, and what a writer has written of one.           *)
AnyFeed == [run : 1..MaxRuns, symbol : Names, count : 0..MaxCount]

Part(feed, n) == [i \in 1..n |-> [feed |-> feed, n |-> i]]

(* A file is the beginning of one feed, and the open one is written up to  *)
(* the writer's position.                                                  *)
StoreInv ==
    /\ disk = [p \in DOMAIN disk |-> disk[p]]
    /\ \A p \in DOMAIN disk : \E feed \in AnyFeed :
         \E n \in 0..Store!Size(feed.count) : disk[p] = Part(feed, n)
    /\ out # Store!NoFile =>
         /\ out = [path |-> out.path, feed |-> out.feed, at |-> out.at]
         /\ out.path \in DOMAIN disk /\ out.feed \in AnyFeed
         /\ out.at \in 0..Store!Size(out.feed.count)
         /\ disk[out.path] = Part(out.feed, out.at)

Written(s) == s \in DOMAIN disk /\ disk[s] = Store!Image(made[s])

(* The program writes only after it has read all, in the order of States().*)
(* Of a name given twice, the file counts as written after its last state. *)
ToolInv ==
    /\ tool \in {"reading", "writing", "exited", "killed"}
    /\ run \in 1..MaxRuns /\ k \in Nat \ {0}
    /\ made \in [Names -> AnyFeed]
    /\ tool = "writing" => pc = "done" /\ result = "ok"
    /\ out # Store!NoFile =>
         /\ tool = "writing" /\ k <= Len(Symbols)
         /\ out.path = Symbols[k] /\ out.feed = FeedOf(k)
    /\ tool = "exited" /\ code = 0 => k > Len(Symbols)
    /\ tool = "writing" \/ (tool = "exited" /\ code = 0) =>
         \A s \in Names : Locate(s) < k => Written(s)

-----------------------------------------------------------------------------
(* The stock directory ends with the last state of a name.                 *)
LEMMA LocateIsLast ==
    ASSUME NEW i \in DOMAIN Symbols
    PROVE  /\ Locate(Symbols[i]) \in DOMAIN Symbols
           /\ Symbols[Locate(Symbols[i])] = Symbols[i]
           /\ i <= Locate(Symbols[i])
  <1> DEFINE s == Symbols[i]
             n == Len(Symbols)
             back == {n - j : j \in {l \in DOMAIN Symbols : Symbols[l] = s}}
  <1>1. n \in Nat /\ DOMAIN Symbols = 1..n
    BY SymbolsAssumption
  <1>2. back \subseteq Nat /\ back # {}
    BY <1>1
  <1>3. OpToRel(<, Nat) = {ss \in Nat \X Nat : ss[1] < ss[2]}
    BY Zenon DEF OpToRel
  <1>4. PICK m \in back : \A x \in back : ~ (<<x, m>> \in OpToRel(<, Nat))
    BY <1>2, NatLessThanWellFounded, WFMin
  <1>5. \A x \in back : m <= x
    <2>1. TAKE x \in back
    <2>2. <<x, m>> \notin {ss \in Nat \X Nat : ss[1] < ss[2]}
      BY <1>3, <1>4, Zenon
    <2>3. x \in Nat /\ m \in Nat
      BY <1>2
    <2> HIDE DEF back
    <2> QED
      BY <2>2, <2>3
  <1>6. PICK l \in DOMAIN Symbols : Symbols[l] = s /\ m = n - l
    BY <1>4
  <1>7. \A j \in DOMAIN Symbols : Symbols[j] = s => j <= l
    <2> SUFFICES ASSUME NEW j \in DOMAIN Symbols, Symbols[j] = s PROVE j <= l
      OBVIOUS
    <2>1. n - j \in back
      OBVIOUS
    <2>2. n - l <= n - j
      BY <1>5, <1>6, <2>1
    <2> QED
      BY <1>1, <2>2
  <1>8. \E c \in DOMAIN Symbols :
          Symbols[c] = s /\ \A j \in DOMAIN Symbols : Symbols[j] = s => j <= c
    BY <1>6, <1>7
  <1>9. /\ Locate(s) \in DOMAIN Symbols /\ Symbols[Locate(s)] = s
        /\ \A j \in DOMAIN Symbols : Symbols[j] = s => j <= Locate(s)
    BY <1>8 DEF Locate
  <1> QED
    BY <1>9

LEMMA SizeIs ==
    ASSUME NEW count \in Nat
    PROVE  Store!Size(count) \in Nat /\ HeaderUnits <= Store!Size(count)
           /\ HeaderUnits \in Nat \ {0}
  <1>1. HeaderUnits \in Nat \ {0} /\ count * RecordUnits \in Nat
    BY UnitsAssumption, SMT
  <1> QED
    BY <1>1, SMT DEF Store!Size

LEMMA FeedIsAny ==
    ASSUME NEW s \in Names, NEW count \in 0..MaxCount, run \in 1..MaxRuns
    PROVE  Feed(s, count) \in AnyFeed /\ Feed(s, count).count = count
           /\ Feed(s, count).run = run
  BY DEF Feed, AnyFeed

(* Every file that MappedFeed accepts is the feed that its header counts.  *)
LEMMA AcceptedWhole ==
    ASSUME NEW feed \in AnyFeed, NEW n \in 0..Store!Size(feed.count),
           Store!Accepts(Part(feed, n))
    PROVE  Part(feed, n) = Store!Image(Part(feed, n)[HeaderUnits].feed)
           /\ HeaderUnits \in DOMAIN Part(feed, n)
  <1>1. feed.count \in Nat
    BY CountsAssumption DEF AnyFeed
  <1>2. HeaderUnits \in Nat \ {0} /\ n \in Nat
    BY <1>1, SizeIs
  <1>3. Len(Part(feed, n)) = n /\ DOMAIN Part(feed, n) = 1..n
    BY <1>2 DEF Part
  <1>4. HeaderUnits \in 1..n
    BY <1>2, <1>3 DEF Store!Accepts
  <1>5. Part(feed, n)[HeaderUnits].feed = feed
    BY <1>4 DEF Part
  <1>6. n = Store!Size(feed.count)
    BY <1>3, <1>5 DEF Store!Accepts
  <1> QED
    BY <1>3, <1>4, <1>5, <1>6 DEF Part, Store!Image

LEMMA StoreAccepted == StoreInv => Store!AcceptedIsComplete
  <1> SUFFICES ASSUME StoreInv, NEW p \in DOMAIN disk, Store!Accepts(disk[p])
               PROVE  \E n \in DOMAIN disk[p] : disk[p] = Store!Image(disk[p][n].feed)
    BY DEF Store!AcceptedIsComplete
  <1>1. PICK feed \in AnyFeed :
          \E n \in 0..Store!Size(feed.count) : disk[p] = Part(feed, n)
    BY DEF StoreInv
  <1>2. PICK n \in 0..Store!Size(feed.count) : disk[p] = Part(feed, n)
    BY <1>1
  <1> QED
    BY <1>2, AcceptedWhole

LEMMA ImageAccepted ==
    ASSUME NEW feed \in AnyFeed
    PROVE  Store!Accepts(Store!Image(feed))
  <1>1. feed.count \in Nat
    BY CountsAssumption DEF AnyFeed
  <1>2. HeaderUnits \in 1..Store!Size(feed.count) /\ 1 \in 1..Store!Size(feed.count)
    BY <1>1, SizeIs
  <1>3. Len(Store!Image(feed)) = Store!Size(feed.count)
    BY <1>1, SizeIs DEF Store!Image
  <1>4. \A n \in 1..Store!Size(feed.count) :
          Store!Image(feed)[n].feed = feed /\ Store!Image(feed)[n].n = n
    BY DEF Store!Image
  <1>5. HeaderUnits <= Store!Size(feed.count)
    BY <1>1, SizeIs
  <1> QED
    BY <1>2, <1>3, <1>4, <1>5 DEF Store!Accepts

-----------------------------------------------------------------------------
(* What the steps of WriteFeed do to the files, whoever calls it.          *)
LEMMA OpenStore ==
    ASSUME StoreInv, NEW p \in Names, NEW feed \in AnyFeed, Store!Open(p, feed)
    PROVE  /\ StoreInv' /\ out' = [path |-> p, feed |-> feed, at |-> 0]
           /\ DOMAIN disk' = DOMAIN disk \cup {p}
           /\ \A q \in DOMAIN disk : q # p => disk'[q] = disk[q]
  <1>1. /\ disk' = [q \in DOMAIN disk \cup {p} |-> IF q = p THEN <<>> ELSE disk[q]]
        /\ out' = [path |-> p, feed |-> feed, at |-> 0]
    BY DEF Store!Open
  <1>2. feed.count \in Nat /\ Store!Size(feed.count) \in Nat
    BY SizeIs, CountsAssumption DEF AnyFeed
  <1>3. Part(feed, 0) = <<>>
    BY DEF Part
  <1>4. disk'[p] = Part(feed, 0) /\ 0 \in 0..Store!Size(feed.count)
    BY <1>1, <1>2, <1>3
  <1>5. \A q \in DOMAIN disk' : \E f \in AnyFeed :
          \E n \in 0..Store!Size(f.count) : disk'[q] = Part(f, n)
    <2>1. \A q \in DOMAIN disk : q # p => disk'[q] = disk[q]
      BY <1>1
    <2> QED
      BY <1>1, <1>4, <2>1 DEF StoreInv
  <1>6. (Store!NoFile)' = Store!NoFile /\ AnyFeed' = AnyFeed
    BY DEF Store!NoFile, AnyFeed
  <1> QED
    BY <1>1, <1>4, <1>5, <1>6 DEF StoreInv, Store!Size, Part

LEMMA PartNext ==
    ASSUME NEW feed, NEW n \in Nat
    PROVE  /\ Len(Part(feed, n)) = n
           /\ Append(Part(feed, n), [feed |-> feed, n |-> n + 1]) = Part(feed, n + 1)
  <1> DEFINE h(i) == [feed |-> feed, n |-> i]
             f == [i \in 1..n |-> h(i)]
  <1>1. Part(feed, n) = f /\ Part(feed, n + 1) = [i \in 1..n + 1 |-> h(i)]
    BY DEF Part
  <1> HIDE DEF h
  <1>2. f \in Seq({h(i) : i \in 1..n}) /\ Len(f) = n /\ \A i \in 1..n : f[i] = h(i)
    OBVIOUS
  <1> HIDE DEF f
  <1>3. Append(f, h(n + 1)) = [i \in 1..n + 1 |-> h(i)]
    BY <1>2
  <1> QED
    BY <1>1, <1>2, <1>3 DEF h

LEMMA PutStore ==
    ASSUME StoreInv, Store!Put
    PROVE  /\ StoreInv' /\ out'.path = out.path /\ out'.feed = out.feed
           /\ DOMAIN disk' = DOMAIN disk
           /\ \A q \in DOMAIN disk : q # out.path => disk'[q] = disk[q]
  <1> DEFINE f == out.feed
             n == out.at
             unit == [feed |-> f, n |-> n + 1]
  <1>1. /\ out # Store!NoFile /\ out = [path |-> out.path, feed |-> f, at |-> n]
        /\ out.path \in DOMAIN disk /\ f \in AnyFeed /\ n \in 0..Store!Size(f.count)
        /\ disk[out.path] = Part(f, n) /\ n < Store!Size(f.count)
    BY DEF StoreInv, Store!Put
  <1>2. Store!Size(f.count) \in Nat /\ n \in Nat
    BY <1>1, SizeIs, CountsAssumption DEF AnyFeed
  <1>3. Len(Part(f, n)) = n /\ Append(Part(f, n), unit) = Part(f, n + 1)
    BY <1>2, PartNext
  <1>5. disk' = [disk EXCEPT ![out.path] = Part(f, n + 1)]
    <2>1. disk' = [disk EXCEPT ![out.path] =
                     IF n < Len(disk[out.path])
                     THEN [disk[out.path] EXCEPT ![n + 1] = unit]
                     ELSE Append(disk[out.path], unit)]
      BY DEF Store!Put
    <2>2. ~ (n < Len(disk[out.path])) /\ Append(disk[out.path], unit) = Part(f, n + 1)
      BY <1>1, <1>2, <1>3
    <2> QED
      BY <2>1, <2>2
  <1>6. out' = [path |-> out.path, feed |-> f, at |-> n + 1]
    BY <1>1 DEF Store!Put
  <1>7. n + 1 \in 0..Store!Size(f.count)
    BY <1>1, <1>2
  <1>8. /\ DOMAIN disk' = DOMAIN disk /\ disk' = [q \in DOMAIN disk' |-> disk'[q]]
        /\ disk'[out.path] = Part(f, n + 1)
        /\ \A q \in DOMAIN disk : q # out.path => disk'[q] = disk[q]
    BY <1>1, <1>5 DEF StoreInv
  <1>9. \A q \in DOMAIN disk' : \E g \in AnyFeed :
          \E m \in 0..Store!Size(g.count) : disk'[q] = Part(g, m)
    BY <1>1, <1>7, <1>8 DEF StoreInv
  <1>10. StoreInv'
    BY <1>1, <1>6, <1>7, <1>8, <1>9 DEF StoreInv, Store!Size, Part, AnyFeed, Store!NoFile
  <1> QED
    BY <1>6, <1>8, <1>10

LEMMA CloseStore ==
    ASSUME StoreInv, out' = Store!NoFile, UNCHANGED disk
    PROVE  StoreInv'
  BY DEF StoreInv

LEMMA SameStore ==
    ASSUME StoreInv, UNCHANGED <<disk, out>>
    PROVE  StoreInv'
  BY DEF StoreInv


-----------------------------------------------------------------------------
(* The steps of the program.                                               *)
TInv == IInv /\ StoreInv /\ ToolInv

LEMMA StepsAside ==
    ASSUME UNCHANGED vars
    PROVE  IInv => IInv'
  BY StepKeepsInv

\* What States() holds at k, and what that is for the name's last state.
LEMMA FeedOfIs ==
    ASSUME ToolInv, k <= Len(Symbols)
    PROVE  /\ k \in DOMAIN Symbols /\ Symbols[k] \in Names /\ FeedOf(k) \in AnyFeed
           /\ k <= Locate(Symbols[k])
           /\ Locate(Symbols[k]) = k => FeedOf(k) = made[Symbols[k]]
  <1>1. k \in DOMAIN Symbols
    BY SymbolsAssumption DEF ToolInv
  <1>2. Symbols[k] \in Names /\ made[Symbols[k]] \in AnyFeed
    BY <1>1 DEF Names, ToolInv
  <1>3. Feed(Symbols[k], 0) \in AnyFeed
    BY <1>2, FeedIsAny, CountsAssumption DEF ToolInv
  <1> QED
    BY <1>1, <1>2, <1>3, LocateIsLast DEF FeedOf

LEMMA NamesLocated ==
    ASSUME NEW s \in Names
    PROVE  Locate(s) \in 1..Len(Symbols) /\ Symbols[Locate(s)] = s
  <1>1. PICK i \in DOMAIN Symbols : s = Symbols[i]
    BY DEF Names
  <1> QED
    BY <1>1, LocateIsLast, SymbolsAssumption

\* Steps that leave the writer's position and its data alone.
LEMMA OpenStep == ASSUME TInv, OpenNext PROVE TInv'
  <1> DEFINE p == Symbols[k]
  <1>1. /\ tool = "writing" /\ k <= Len(Symbols) /\ Store!Open(p, FeedOf(k))
        /\ UNCHANGED <<vars, tool, code, run, made, k>>
    BY DEF OpenNext
  <1>2. p \in Names /\ FeedOf(k) \in AnyFeed /\ k <= Locate(p) /\ k \in Nat
    BY <1>1, FeedOfIs DEF TInv, ToolInv
  <1>3. /\ StoreInv' /\ out' = [path |-> p, feed |-> FeedOf(k), at |-> 0]
        /\ DOMAIN disk' = DOMAIN disk \cup {p}
        /\ \A q \in DOMAIN disk : q # p => disk'[q] = disk[q]
    BY <1>1, <1>2, OpenStore DEF TInv
  <1>4. IInv'
    BY <1>1, StepsAside DEF TInv
  <1>5. FeedOf(k)' = FeedOf(k)
    BY <1>1 DEF FeedOf, Feed
  <1>6. \A s \in Names : Locate(s) < k => Written(s)'
    <2> SUFFICES ASSUME NEW s \in Names, Locate(s) < k PROVE Written(s)'
      OBVIOUS
    <2>1. Written(s)
      BY <1>1 DEF TInv, ToolInv
    <2>2. s # p
      BY <1>2, NamesLocated
    <2> QED
      BY <1>1, <1>3, <2>1, <2>2 DEF Written
  <1>7. ToolInv'
    BY <1>1, <1>3, <1>5, <1>6 DEF TInv, ToolInv, vars
  <1> QED
    BY <1>3, <1>4, <1>7 DEF TInv

LEMMA UnitStep == ASSUME TInv, WriteUnit PROVE TInv'
  <1>1. tool = "writing" /\ Store!Put /\ UNCHANGED <<vars, tool, code, run, made, k>>
    BY DEF WriteUnit
  <1>2. /\ StoreInv' /\ out'.path = out.path /\ out'.feed = out.feed
        /\ DOMAIN disk' = DOMAIN disk
        /\ \A q \in DOMAIN disk : q # out.path => disk'[q] = disk[q]
    BY <1>1, PutStore DEF TInv
  <1>3. out.path = Symbols[k] /\ out.feed = FeedOf(k) /\ k <= Len(Symbols)
    BY <1>1 DEF TInv, ToolInv, Store!Put
  <1>4. k <= Locate(Symbols[k]) /\ k \in Nat /\ Symbols[k] \in Names
    BY <1>3, FeedOfIs DEF TInv, ToolInv
  <1>5. IInv'
    BY <1>1, StepsAside DEF TInv
  <1>6. FeedOf(k)' = FeedOf(k)
    BY <1>1 DEF FeedOf, Feed
  <1>7. \A s \in Names : Locate(s) < k => Written(s)'
    <2> SUFFICES ASSUME NEW s \in Names, Locate(s) < k PROVE Written(s)'
      OBVIOUS
    <2>1. Written(s)
      BY <1>1 DEF TInv, ToolInv
    <2>2. s # out.path
      BY <1>3, <1>4, NamesLocated
    <2> QED
      BY <1>1, <1>2, <2>1, <2>2 DEF Written
  <1>8. ToolInv'
    BY <1>1, <1>2, <1>3, <1>6, <1>7 DEF TInv, ToolInv, vars
  <1> QED
    BY <1>2, <1>5, <1>8 DEF TInv

LEMMA CloseStep == ASSUME TInv, CloseFile PROVE TInv'
  <1>1. /\ tool = "writing" /\ k' = k + 1
        /\ out # Store!NoFile /\ out.at = Store!Size(out.feed.count)
        /\ out' = Store!NoFile /\ disk' = disk
        /\ UNCHANGED <<vars, tool, code, run, made>>
    BY DEF CloseFile, Store!Close
  <1>2. /\ out.path = Symbols[k] /\ out.feed = FeedOf(k) /\ k <= Len(Symbols)
        /\ out.path \in DOMAIN disk /\ disk[out.path] = Part(out.feed, out.at)
        /\ k \in Nat \ {0} /\ pc = "done" /\ result = "ok"
        /\ run \in 1..MaxRuns /\ made \in [Names -> AnyFeed]
        /\ \A s \in Names : Locate(s) < k => Written(s)
    BY <1>1 DEF TInv, StoreInv, ToolInv
  <1>3. disk[Symbols[k]] = Store!Image(FeedOf(k)) /\ Symbols[k] \in DOMAIN disk
    BY <1>1, <1>2 DEF Part, Store!Image
  <1>4. IInv'
    BY <1>1, StepsAside DEF TInv
  <1>5. StoreInv'
    BY <1>1, CloseStore DEF TInv
  <1>6. \A s \in Names : Locate(s) < k' => Written(s)'
    <2> SUFFICES ASSUME NEW s \in Names, Locate(s) < k + 1 PROVE Written(s)'
      BY <1>1
    <2>1. CASE Locate(s) = k
      <3>1. s = Symbols[k]
        BY <2>1, NamesLocated
      <3>2. FeedOf(k) = made[s]
        BY <1>2, <2>1, <3>1, FeedOfIs DEF TInv
      <3> QED
        BY <1>1, <1>3, <3>1, <3>2 DEF Written
    <2>2. CASE Locate(s) # k
      <3>1. Locate(s) < k
        BY <1>2, <2>2, NamesLocated
      <3> QED
        BY <1>1, <1>2, <3>1 DEF Written
    <2> QED
      BY <2>1, <2>2
  <1>7. ToolInv'
    BY <1>1, <1>2, <1>6 DEF ToolInv, vars
  <1> QED
    BY <1>4, <1>5, <1>7 DEF TInv

(* Somebody starts the program again: its state is new, the files are not. *)
LEMMA RerunStep == ASSUME TInv, Rerun PROVE TInv'
  <1>1. Init'
    BY DEF Rerun, Init
  <1>2. IInv'
    BY <1>1, Initially, PTL
  <1>3. run + 1 \in 1..MaxRuns
    BY CountsAssumption DEF TInv, ToolInv, Rerun
  <1>4. made' \in [Names -> AnyFeed]
    BY <1>3, CountsAssumption DEF Rerun, Feed, AnyFeed
  <1>5. out = Store!NoFile /\ UNCHANGED <<disk, out>>
    BY DEF TInv, ToolInv, Rerun
  <1>6. StoreInv'
    BY <1>5, SameStore DEF TInv
  <1>7. ToolInv'
    BY <1>3, <1>4, <1>5 DEF Rerun, ToolInv
  <1> QED
    BY <1>2, <1>6, <1>7 DEF TInv

LEMMA ToolStep == TInv /\ [ToolNext]_toolVars => TInv'
  <1> SUFFICES ASSUME TInv, [ToolNext]_toolVars PROVE TInv'
    OBVIOUS
  <1>1. ASSUME UNCHANGED <<tool, code, run, made, k, disk, out>>, IInv',
               tool = "writing" => UNCHANGED vars
        PROVE  TInv'
    <2>1. StoreInv'
      BY <1>1, SameStore DEF TInv
    <2>2. FeedOf(k)' = FeedOf(k) /\ \A s : Written(s)' = Written(s)
      BY <1>1 DEF FeedOf, Feed, Written, Store!Image, Store!Size
    <2>3. ToolInv'
      BY <1>1, <2>2 DEF TInv, ToolInv, vars
    <2> QED
      BY <1>1, <2>1, <2>3 DEF TInv
  <1>2. CASE Read
    <2>1. IInv'
      BY <1>2, StepKeepsInv DEF Read, TInv
    <2> QED
      BY <1>1, <1>2, <2>1 DEF Read
  <1>3. CASE UNCHANGED toolVars
    <2>1. IInv'
      BY <1>3, StepsAside DEF toolVars, TInv
    <2> QED
      BY <1>1, <1>3, <2>1 DEF toolVars
  <1>4. CASE ReadFailed
    <2>1. IInv' /\ StoreInv'
      BY <1>4, StepsAside, SameStore DEF ReadFailed, TInv
    <2>2. ToolInv'
      BY <1>4 DEF TInv, ToolInv, ReadFailed, Exit
    <2> QED
      BY <2>1, <2>2 DEF TInv
  <1>5. CASE ReadAll
    <2>1. IInv' /\ StoreInv'
      BY <1>5, StepsAside, SameStore DEF ReadAll, TInv
    <2>2. made' \in [Names -> AnyFeed]
      BY <1>5, FeedIsAny DEF ReadAll, TInv, ToolInv
    <2>3. \A s \in Names : ~ (Locate(s) < 1)
      BY NamesLocated
    <2>4. ToolInv'
      BY <1>5, <2>2, <2>3 DEF TInv, ToolInv, ReadAll, vars
    <2> QED
      BY <2>1, <2>4 DEF TInv
  <1>6. CASE OpenNext \/ WriteUnit \/ CloseFile
    BY <1>6, OpenStep, UnitStep, CloseStep
  <1>7. CASE WriteFails
    <2>1. out' = Store!NoFile /\ UNCHANGED disk /\ UNCHANGED vars
      BY <1>7 DEF WriteFails, Store!Short
    <2>2. IInv' /\ StoreInv'
      BY <2>1, StepsAside, CloseStore DEF TInv
    <2>3. ToolInv'
      BY <1>7, <2>1 DEF TInv, ToolInv, WriteFails, Exit
    <2> QED
      BY <2>2, <2>3 DEF TInv
  <1>8. CASE Finish
    <2>1. IInv' /\ StoreInv'
      BY <1>8, StepsAside, SameStore DEF Finish, TInv
    <2>2. out = Store!NoFile
      BY <1>8, SymbolsAssumption DEF Finish, TInv, ToolInv
    <2>3. \A s : Written(s)' = Written(s)
      BY <1>8 DEF Finish, Written, Store!Image, Store!Size
    <2>4. ToolInv'
      BY <1>8, <2>2, <2>3 DEF TInv, ToolInv, Finish, Exit, vars
    <2> QED
      BY <2>1, <2>4 DEF TInv
  <1>9. CASE Kill
    <2>1. out' = Store!NoFile /\ UNCHANGED disk /\ UNCHANGED vars
      BY <1>9 DEF Kill, Store!Die
    <2>2. IInv' /\ StoreInv'
      BY <2>1, StepsAside, CloseStore DEF TInv
    <2>3. ToolInv'
      BY <1>9, <2>1 DEF TInv, ToolInv, Kill
    <2> QED
      BY <2>2, <2>3 DEF TInv
  <1>10. CASE Rerun
    BY <1>10, RerunStep
  <1> QED
    BY <1>2, <1>3, <1>4, <1>5, <1>6, <1>7, <1>8, <1>9, <1>10 DEF ToolNext, Step


LEMMA ToolStart == ToolInit => TInv
  <1> SUFFICES ASSUME ToolInit PROVE TInv
    OBVIOUS
  <1>1. IInv
    BY Initially DEF ToolInit
  <1>2. disk = [p \in {} |-> <<>>] /\ out = Store!NoFile
    BY DEF ToolInit, Store!Init
  <1>3. StoreInv
    BY <1>2 DEF StoreInv
  <1>4. ToolInv
    BY <1>2, FeedIsAny, CountsAssumption DEF ToolInit, ToolInv
  <1> QED
    BY <1>1, <1>3, <1>4 DEF TInv

-----------------------------------------------------------------------------
(* The inductive invariant of the program.                                 *)
THEOREM ToolInvariance == ToolSpec => []TInv
  BY ToolStart, ToolStep, PTL DEF ToolSpec

(* A file that ob_bench, ob_diff or ob_validate accept is one feed, whole, *)
(* whatever runs were killed or failed half way and wherever they wrote.   *)
THEOREM FilesAreWhole == ToolSpec => []AcceptedIsComplete
  <1>1. TInv => AcceptedIsComplete
    BY StoreAccepted DEF TInv, AcceptedIsComplete
  <1> QED
    BY <1>1, ToolInvariance, PTL

(* Exit code 0 means that the file of every name holds what this run made  *)
(* of its messages, also if --symbols names it several times.              *)
THEOREM ExitIsHonest == ToolSpec => []ExitMeansWritten
  <1>1. TInv => ExitMeansWritten
    <2> SUFFICES ASSUME TInv, tool = "exited", code = 0, NEW s \in Names
                 PROVE  s \in DOMAIN disk /\ Store!Accepts(disk[s])
                        /\ disk[s] = Store!Image(made[s])
      BY DEF ExitMeansWritten
    <2>1. k > Len(Symbols) /\ k \in Nat /\ made[s] \in AnyFeed
      BY DEF TInv, ToolInv
    <2>2. Locate(s) < k
      BY <2>1, NamesLocated, SymbolsAssumption
    <2>3. Written(s)
      BY <2>2 DEF TInv, ToolInv
    <2> QED
      BY <2>1, <2>3, ImageAccepted DEF Written
  <1> QED
    BY <1>1, ToolInvariance, PTL

(* A damaged or truncated input destroys nothing: no file is touched       *)
(* before the input was read to its last message.                          *)
THEOREM ReadsBeforeItWrites == ToolSpec => ReadBeforeWrite
  <1>1. ASSUME TInv, [ToolNext]_toolVars
        PROVE  disk' # disk => result = "ok" /\ Len(delivered) = file.count
    <2>1. tool = "writing" => result = "ok" /\ Len(delivered) = file.count
      BY <1>1 DEF TInv, ToolInv, IInv, VerdictRight
    <2>2. disk' # disk => tool = "writing"
      BY <1>1 DEF ToolNext, Step, Read, ReadFailed, ReadAll, OpenNext, WriteUnit, WriteFails,
                  CloseFile, Finish, Kill, Rerun, Store!Die, toolVars
    <2> QED
      BY <2>1, <2>2
  <1> QED
    BY <1>1, ToolInvariance, PTL DEF ToolSpec, ReadBeforeWrite

(* The reader's promises hold of every run of the program.                 *)
THEOREM EveryRunReadsRight == ToolSpec => [](InOrder /\ VerdictRight)
  <1>1. TInv => InOrder /\ VerdictRight
    BY DEF TInv, IInv
  <1> QED
    BY <1>1, ToolInvariance, PTL
=============================================================================
