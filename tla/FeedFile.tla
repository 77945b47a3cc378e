------------------------------- MODULE FeedFile -------------------------------
(***************************************************************************)
(* Feed files (WriteFeed and MappedFeed of src/ob/Feed.cpp): a header with *)
(* a magic number and a count, then the records.  A file is a sequence of  *)
(* units, HeaderUnits of the header and RecordUnits of each record; a unit *)
(* is known by the feed it belongs to and its place in it.  What stdio has *)
(* not yet passed to the system when a process dies is lost, so that each  *)
(* unit reaches the file in a step of its own.                             *)
(***************************************************************************)
EXTENDS Integers, Sequences

CONSTANTS
    Paths,
    HeaderUnits, RecordUnits    \* sizeof(FeedHeader) and sizeof(Update)

VARIABLES
    disk,   \* path -> the units of the file
    out     \* the FILE of WriteFeed: path, feed and position; or NoFile

NoFile == [path |-> "", feed |-> [count |-> 0], at |-> 0]

Init == disk = [p \in {} |-> <<>>] /\ out = NoFile

Size(count) == HeaderUnits + count * RecordUnits

\* The whole file of a feed, a record with at least a field count.
Image(feed) == [n \in 1..Size(feed.count) |-> [feed |-> feed, n |-> n]]

\* A mutant: fopen with "r+b" keeps what the file holds.
OpenKeeping(p, feed) ==
    /\ out = NoFile
    /\ disk' = [q \in DOMAIN disk \cup {p} |-> IF q \in DOMAIN disk THEN disk[q] ELSE <<>>]
    /\ out' = [path |-> p, feed |-> feed, at |-> 0]

\* fopen with "wb" empties the file.
Open(p, feed) ==
    /\ out = NoFile
    /\ disk' = [q \in DOMAIN disk \cup {p} |-> IF q = p THEN <<>> ELSE disk[q]]
    /\ out' = [path |-> p, feed |-> feed, at |-> 0]

\* The next unit goes where the position is.
Put ==
    /\ out # NoFile /\ out.at < Size(out.feed.count)
    /\ LET unit == [feed |-> out.feed, n |-> out.at + 1]
           old == disk[out.path]
       IN  disk' = [disk EXCEPT ![out.path] =
                      IF out.at < Len(old) THEN [old EXCEPT ![out.at + 1] = unit]
                      ELSE Append(old, unit)]
    /\ out' = [out EXCEPT !.at = @ + 1]

\* WriteFeed returns: both fwrite and fclose have said that all is written.
Close ==
    /\ out # NoFile /\ out.at = Size(out.feed.count)
    /\ out' = NoFile
    /\ UNCHANGED disk

\* WriteFeed throws "short write": the device is full or fails.
Short ==
    /\ out # NoFile /\ out.at < Size(out.feed.count)
    /\ out' = NoFile
    /\ UNCHANGED disk

\* The process dies with the file open, or without.
Die == out' = NoFile /\ UNCHANGED disk

\* What MappedFeed's constructor does not refuse: room for a header, the
\* magic number in its first unit, and the size that the count in it asks for.
Accepts(units) ==
    /\ Len(units) >= HeaderUnits
    /\ units[1].n = 1
    /\ Len(units) = Size(units[HeaderUnits].feed.count)

-----------------------------------------------------------------------------
(* A file that ob_bench, ob_diff or ob_validate accept is one feed, whole  *)
(* and of one conversion, though writers were killed or ran out of disk    *)
(* half way, and wrote over longer and shorter files.                      *)
AcceptedIsComplete ==
    \A p \in DOMAIN disk : Accepts(disk[p]) => \E n \in DOMAIN disk[p] :
        disk[p] = Image(disk[p][n].feed)
=============================================================================
