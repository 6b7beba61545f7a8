-------------------------- MODULE DataSegmentTable --------------------------
(***************************************************************************)
(* The data segments of a module or a program (hir/src/segments.rs): a     *)
(* list of regions of linear memory, kept in address order by insert.      *)
(***************************************************************************)
EXTENDS Alignable, SequencesExt, FiniteSetsExt

CONSTANTS
    MaxAddr,   \* u32::MAX, the last address of linear memory
    Bytes,     \* initializers of segments, up to what a comparison of them can tell
    WordAlign  \* the 32 next_available_offset aligns to

ASSUME MaxAddrAssumption == MaxAddr \in Nat
ASSUME WordAlignAssumption == WordAlign \in Nat \ {0}

(***************************************************************************)
(* What DataSegment::new accepts.  That the initializer fits is checked    *)
(* there and of no consequence to the table.  A segment may have size 0.   *)
(***************************************************************************)
Segment ==
    {s \in [offset : Nat, size : Nat, init : Bytes, readonly : BOOLEAN] :
        s.offset + s.size <= MaxAddr}

End(s) == s.offset + s.size

(***************************************************************************)
(* insert walks the list up to the first segment that begins at or after   *)
(* the end of the new one, or that conflicts with it.                      *)
(***************************************************************************)
\* Variant: a segment may begin before the one in front of it ends.
ConflictsAtStart(c, s) == c.offset < End(s) /\ c.offset = s.offset

Conflicts(c, s) == c.offset < End(s) /\ (c.offset = s.offset \/ End(c) > s.offset)
Stops(table, s) == {i \in DOMAIN table : table[i].offset >= End(s) \/ Conflicts(table[i], s)}

Inserted(table, s) ==
    IF Stops(table, s) = {} THEN [result |-> "Ok", table |-> Append(table, s)]
    ELSE LET i == Min(Stops(table, s))
             c == table[i]
         IN  [result |-> IF ~Conflicts(c, s) \/ c = s THEN "Ok"
                         ELSE IF c.offset = s.offset THEN "Mismatch"
                         ELSE "OverlappingSegments",
              table  |-> IF Conflicts(c, s) THEN table ELSE InsertAt(table, i, s)]

(***************************************************************************)
(* next_available_offset: where the globals begin.                         *)
(***************************************************************************)
EndOfSegments(table) == IF table = << >> THEN 0 ELSE End(Last(table))
NextAvailableOffset(table) ==
    IF table = << >> THEN 0 ELSE AlignUp(EndOfSegments(table), WordAlign)

(***************************************************************************)
(* The table is in address order and no two segments share a byte.         *)
(***************************************************************************)
SegmentsOrdered(table) ==
    \A i, j \in DOMAIN table : i < j => End(table[i]) <= table[j].offset

=============================================================================
