------------------------------ MODULE ItchReader ------------------------------
(***************************************************************************)
(* ReadItchFile (src/ob/ItchConvert.cpp): the refill loop that takes a day *)
(* file in whatever pieces gzread returns, cuts it into messages, each two *)
(* bytes of length and a payload, and hands these to the converter.        *)
(* Bytes are abstracted to offsets: a file is where its messages end, its  *)
(* size, and the length that an incomplete last message announces.  Every  *)
(* string of bytes is such a file.                                         *)
(***************************************************************************)
EXTENDS Integers, Sequences

CONSTANTS
    Files,      \* what gzread delivers of the input, see IsFile
    MaxLen,     \* the largest payload, 65535 in the code
    Buf         \* buf.size(), 4 MiB in the code

\* f.ends[k] is where message k ends; the rest of the file is not a message.
IsFile(f) ==
    /\ DOMAIN f = {"count", "ends", "size", "cut"}
    /\ {f.count, f.size, f.cut} \subseteq Nat
    /\ f.ends \in [0..f.count -> 0..f.size]
    /\ f.ends[0] = 0
    /\ \A j, k \in 0..f.count : j < k => f.ends[j] + 2 <= f.ends[k]
    /\ \A k \in 1..f.count : f.ends[k] <= f.ends[k - 1] + 2 + MaxLen
    /\ f.size - f.ends[f.count] < 2 + f.cut
    /\ f.cut <= MaxLen

ASSUME FilesAssumption == \A f \in Files : IsFile(f)
ASSUME BufAssumption == MaxLen \in Nat /\ Buf \in Nat /\ Buf >= MaxLen + 2

VARIABLES
    file,       \* the input
    taken,      \* bytes that gzread has returned so far
    have, pos,  \* bytes in buf, and how many of them are parsed
    eof,
    pc,         \* "fill", "parse", "done"
    result,     \* "ok", "gzread" or "truncated" when pc is "done"
    delivered   \* history: the messages given to OnMessage

vars == <<file, taken, have, pos, eof, pc, result, delivered>>

\* The offset in the file of the first byte that is not parsed.
Front == taken - have + pos

Message(n) == [at |-> file.ends[n - 1], len |-> file.ends[n] - file.ends[n - 1] - 2]

\* The message that starts at an offset, if one does.
At(offset) == {n \in 1..file.count : Message(n).at = offset}

\* BE16 at an offset.  Anywhere but at the start of a message it would read
\* payload bytes as a length.
LengthsAt(offset) ==
    IF At(offset) # {} THEN {Message(n).len : n \in At(offset)}
    ELSE IF offset = file.ends[file.count] THEN {file.cut} ELSE 0..MaxLen

\* Whether a message of len bytes lies whole in the buffer.
Whole(len) == have - pos >= 2 + len

Init ==
    /\ file \in Files
    /\ taken = 0 /\ have = 0 /\ pos = 0
    /\ eof = FALSE
    /\ pc = "fill" /\ result = "ok"
    /\ delivered = <<>>

\* The bytes that one gzread may return: any piece, none only at the end.
Pieces ==
    IF taken = file.size THEN {0}
    ELSE {n \in 1..Buf : n <= Buf - have /\ n <= file.size - taken}

Reads == ~ eof /\ have < Buf

\* A mutant: read only into an empty buffer.
FillWhenEmpty ==
    /\ pc = "fill"
    /\ \/ have > 0 /\ UNCHANGED <<taken, have, eof>>
       \/ /\ have = 0 /\ Reads
          /\ \E n \in Pieces :
                taken' = taken + n /\ have' = have + n /\ eof' = (n = 0)
       \/ have = 0 /\ ~ Reads /\ UNCHANGED <<taken, have, eof>>
    /\ pos' = 0 /\ pc' = "parse"
    /\ UNCHANGED <<file, result, delivered>>

Fill ==
    /\ pc = "fill"
    /\ \/ /\ Reads
          /\ \E n \in Pieces :
                taken' = taken + n /\ have' = have + n /\ eof' = (n = 0)
       \/ ~ Reads /\ UNCHANGED <<taken, have, eof>>
    /\ pos' = 0 /\ pc' = "parse"
    /\ UNCHANGED <<file, result, delivered>>

\* The file cannot be opened, or later zlib reports damage: what was delivered
\* stays delivered.
FillError ==
    /\ pc = "fill" /\ Reads
    /\ pc' = "done" /\ result' = "gzread"
    /\ UNCHANGED <<file, taken, have, pos, eof, delivered>>

Deliver ==
    /\ pc = "parse"
    /\ \E len \in LengthsAt(Front) :
        /\ Whole(len)
        /\ delivered' = Append(delivered, [at |-> Front, len |-> len])
        /\ pos' = pos + 2 + len
    /\ UNCHANGED <<file, taken, have, eof, pc, result>>

\* A mutant: what is left of a message is thrown away, not moved to the front.
CompactDrops ==
    /\ pc = "parse"
    /\ \E len \in LengthsAt(Front) :
        /\ ~ Whole(len)
        /\ \/ eof /\ ~ Whole(0) /\ pc' = "done" /\ result' = "ok"
           \/ eof /\ Whole(0) /\ pc' = "done" /\ result' = "truncated"
           \/ ~ eof /\ pc' = "fill" /\ UNCHANGED result
    /\ have' = 0 /\ pos' = 0
    /\ UNCHANGED <<file, taken, eof, delivered>>

\* A mutant: the end is reached when the file is, whatever is in the buffer.
CompactEnds ==
    /\ pc = "parse"
    /\ \E len \in LengthsAt(Front) :
        /\ ~ Whole(len)
        /\ \/ eof /\ pc' = "done" /\ result' = "ok"
           \/ ~ eof /\ pc' = "fill" /\ UNCHANGED result
    /\ have' = have - pos /\ pos' = 0
    /\ UNCHANGED <<file, taken, eof, delivered>>

\* No whole message is left: move the rest to the front, then look for the
\* end.  At the end of the file less than two bytes are not an error.
Compact ==
    /\ pc = "parse"
    /\ \E len \in LengthsAt(Front) :
        /\ ~ Whole(len)
        /\ \/ eof /\ ~ Whole(0) /\ pc' = "done" /\ result' = "ok"
           \/ eof /\ Whole(0) /\ pc' = "done" /\ result' = "truncated"
           \/ ~ eof /\ pc' = "fill" /\ UNCHANGED result
    /\ have' = have - pos /\ pos' = 0
    /\ UNCHANGED <<file, taken, eof, delivered>>

Next == Fill \/ FillError \/ Deliver \/ Compact

Spec == Init /\ [][Next]_vars

-----------------------------------------------------------------------------
(* Whatever pieces gzread returns, and wherever the end of the buffer cuts *)
(* a message, the converter gets the messages of the file, whole, in       *)
(* order, none twice and none left out.                                    *)
InOrder ==
    /\ Len(delivered) <= file.count
    /\ \A n \in 1..Len(delivered) : delivered[n] = Message(n)

(* A file that is read without an error was delivered to its last message  *)
(* and at most one byte of it was not looked at; a file reported truncated *)
(* does end in the middle of a message.                                    *)
VerdictRight ==
    /\ pc = "done" /\ result = "ok" =>
         Len(delivered) = file.count /\ file.size - file.ends[file.count] <= 1
    /\ pc = "done" /\ result = "truncated" =>
         Len(delivered) = file.count /\ file.size - file.ends[file.count] >= 2
=============================================================================
