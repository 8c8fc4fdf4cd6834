------------------------------- MODULE CsvLines -------------------------------
(***************************************************************************)
(* The lines of a CSV file that is written through a stdio buffer, as the  *)
(* collector writes ebpf_events.csv.                                       *)
(***************************************************************************)
EXTENDS Integers, FiniteSets, SequencesExt

(* Lines of a CSV file.  A full stdio buffer is written out at a block      *)
(* boundary, in the middle of a row: the file then ends in a "part" and the *)
(* buffer begins with its "rest".  When a kill took the rest, the next row  *)
(* joins the part in one bad line.                                          *)
Header == [kind |-> "header", tgid |-> 0]
Line(kind, tgid) == [kind |-> kind, tgid |-> tgid]

Open == {"part", "bad part"}
Joined(left, right) ==
  CASE right = "part" -> "bad part"
    [] right = "rest" /\ left = "part" -> "row"
    [] OTHER -> "bad"
WriteLine(file, line) ==
  IF file # << >> /\ Last(file).kind \in Open
  THEN Append(Front(file), Line(Joined(Last(file).kind, line.kind), line.tgid))
  ELSE Append(file, line)

(* Of the lines of a buffer, only the first can join the end of the file:   *)
(* the line before any other one is whole.                                  *)
WriteOut(file, lines) ==
  IF lines = << >> THEN file ELSE WriteLine(file, Head(lines)) \o Tail(lines)

(* fopen(path, "a"), and the header when ftell finds the file empty. *)
AlwaysHeader(file, header) == <<header>>   \* mutant: no look at the file's size
OpenBuffer(file, header) == IF file = << >> THEN <<header>> ELSE << >>

(* How many lines of some kinds there are. *)
CountOf(kinds, lines) == Cardinality({i \in 1..Len(lines) : lines[i].kind \in kinds})
=============================================================================
