----------------------------- MODULE FileRanges -----------------------------
(***************************************************************************)
(* getRanges of src/src/server/protocol/extensions/Sendfile.cpp: the parts *)
(* of a file that a Range header names.  A header is its unit and the      *)
(* sequence of what stands between its commas, each a pair of numbers of   *)
(* which either may be absent ("-5", "5-").  Positions begin at 0.         *)
(***************************************************************************)
EXTENDS Integers, Sequences, FiniteSets, SequencesExt

Absent == -1
Numbers == Nat \union {Absent}
Specs  == [first : Numbers, last : Numbers]

\* A part of the file, as the tuple the code keeps; NoPart for what it passes over.
Part(begin, length) == [begin |-> begin, length |-> length]
NoPart == Part(0, 0)

FaultEndLeftOut(spec, fileSize) ==
  IF spec.first >= fileSize \/ (spec.last # Absent /\ spec.last < spec.first) THEN NoPart
  ELSE Part(spec.first, (IF spec.last = Absent THEN fileSize ELSE spec.last) - spec.first)

\* "first-last" and "first-": the end is reduced to the size of the file.
FromStart(spec, fileSize) ==
  IF spec.first >= fileSize THEN NoPart
  ELSE IF spec.last = Absent THEN Part(spec.first, fileSize - spec.first)
  ELSE LET rangeEnd == IF spec.last > fileSize THEN fileSize ELSE spec.last
       IN  IF spec.last >= spec.first THEN Part(spec.first, rangeEnd - spec.first + 1)
                                      ELSE NoPart

\* "-last"
FromEnd(spec, fileSize) ==
  LET length == IF spec.last < fileSize THEN fileSize - spec.last ELSE fileSize
  IN  Part(fileSize - length, length)

PartOf(spec, fileSize) ==
  IF spec.first # Absent THEN FromStart(spec, fileSize)
  ELSE IF spec.last # Absent THEN FromEnd(spec, fileSize)
  ELSE NoPart

\* A file of size 0 has the part of length 0 for "-last": the header is answered as
\* one without parts, by its content length.
getRanges(unit, specs, fileSize) ==
  LET ranges[n \in 0 .. Len(specs)] ==
        IF n = 0 \/ unit # "bytes" THEN <<>>
        ELSE LET part == PartOf(specs[n], fileSize)
             IN  IF part = NoPart THEN ranges[n - 1] ELSE Append(ranges[n - 1], part)
  IN  ranges[Len(specs)]

ContentLength(parts) ==
  LET sum[n \in 0 .. Len(parts)] == IF n = 0 THEN 0 ELSE sum[n - 1] + parts[n].length
  IN  sum[Len(parts)]

\* The positions that a block or a part of the file has, one after the other.
Positions(from, n) == [i \in 1 .. n |-> from + i - 1]

-----------------------------------------------------------------------------
(* What a Range header asks for (RFC 7233): the reference the runs compare  *)
(* with.  A position of the file, in the order of the parts.               *)

Asked(spec, fileSize) ==
  IF spec.first # Absent
  THEN { p \in 0 .. fileSize - 1 : p >= spec.first /\ (spec.last = Absent \/ p <= spec.last) }
  ELSE { p \in 0 .. fileSize - 1 : p >= fileSize - spec.last }

Ascending(S) ==
  [i \in 1 .. Cardinality(S) |-> CHOOSE p \in S : Cardinality({ q \in S : q < p }) = i - 1]

AskedInOrder(specs, fileSize) ==
  FlattenSeq([k \in DOMAIN specs |-> Ascending(Asked(specs[k], fileSize))])

\* Where getRanges differs: an end at or behind the end of the file counts one position
\* too many (line 93), and a suffix takes the file without its last positions
\* instead of them (lines 128-136).
EndsInside(spec, fileSize) == spec.first # Absent /\ spec.last < fileSize
=============================================================================
