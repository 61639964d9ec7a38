---------------------------- MODULE TraceParser ----------------------------
(***************************************************************************)
(* TraceParser: a trace file is read access by access, from the start      *)
(* again after a reset, or all at once.  A line is known by its form: an   *)
(* access of two or three words or in JSON, a comment or an empty line, or *)
(* something that is no access.  Every line ends with a newline, so the    *)
(* stream fails only when it is read behind the last one.                  *)
(***************************************************************************)
EXTENDS Integers, SequencesExt

CONSTANTS
  Traces,     \* the files: sequences of lines
  MaxCounted  \* bound of the model: the accesses counted by one parser

ParserAssumption == MaxCounted \in Nat

VARIABLES
  trace,     \* the file
  position,  \* the lines that were read
  failed,    \* the stream has been read behind its end
  format,    \* traceFormat
  counted,   \* totalAccesses, readAccesses and writeAccesses
  returned,  \* ghost: the accesses returned since the last reset
  earlier    \* ghost: the counters at the last reset

parser == <<trace, position, failed, format, counted, returned, earlier>>

Nothing == [total |-> 0, reads |-> 0, writes |-> 0]

\* One more access in the counters c.
Counted(c, a) ==
  [total  |-> c.total + 1,
   reads  |-> c.reads + (IF a.isWrite THEN 0 ELSE 1),
   writes |-> c.writes + (IF a.isWrite THEN 1 ELSE 0)]

\* detectFormat: the first of the first ten lines that tells.
Telling(line) == line.form \in {"three", "json"}
FormatOf(lines) ==
  LET candidates == SelectSeq(lines, LAMBDA line : line.form # "skip")
      looked     == SubSeq(candidates, 1, IF Len(candidates) < 10 THEN Len(candidates) ELSE 10)
      i          == SelectInSeq(looked, Telling)
  IN  IF i = 0 THEN "Simple" ELSE IF looked[i].form = "json" THEN "JSON" ELSE "Extended"

Init ==
  /\ trace \in Traces
  /\ position = 0 /\ failed = FALSE
  /\ format = FormatOf(trace)
  /\ counted = Nothing /\ returned = <<>> /\ earlier = Nothing

\* parseLine and parseJSONLine: whether the line is an access in this format.
Parses(line) ==
  IF format = "JSON" THEN line.form = "json" ELSE line.form \in {"two", "three"}

Access(line) == [isWrite |-> line.isWrite, address |-> line.address]

\* The lines ahead that are accesses, and those that are no comment.
AccessesAhead == {i \in position + 1 .. Len(trace) : ~failed /\ Parses(trace[i])}
LinesAhead == {i \in position + 1 .. Len(trace) : ~failed /\ trace[i].form # "skip"}
First(positions) == CHOOSE i \in positions : \A j \in positions : i <= j

Take(i) ==
  /\ position' = i
  /\ counted' = Counted(counted, Access(trace[i]))
  /\ returned' = Append(returned, Access(trace[i]))
  /\ UNCHANGED <<trace, failed, format, earlier>>

\* No access is ahead: the stream is read to its end, or has failed already.
RunOut ==
  /\ position' = Len(trace) /\ failed' = TRUE
  /\ UNCHANGED <<trace, format, counted, returned, earlier>>

GetNextAccess ==
  /\ counted.total < MaxCounted
  /\ IF AccessesAhead = {} THEN RunOut ELSE Take(First(AccessesAhead))

\* The first line that is no comment, be it an access or an error.
GetNextAccessWithError ==
  /\ counted.total < MaxCounted
  /\ IF LinesAhead = {} THEN RunOut
     ELSE IF First(LinesAhead) \in AccessesAhead THEN Take(First(LinesAhead))
     ELSE /\ position' = First(LinesAhead)
          /\ UNCHANGED <<trace, failed, format, counted, returned, earlier>>

\* The counters are those of all calls: reset leaves them alone.
Reset ==
  /\ position' = 0 /\ failed' = FALSE
  /\ returned' = <<>> /\ earlier' = counted
  /\ UNCHANGED <<trace, format, counted>>

\* The accesses among the first n lines.
AccessesUpTo(n) ==
  LET read[k \in 0 .. n] ==
        IF k = 0 THEN <<>>
        ELSE IF Parses(trace[k]) THEN Append(read[k - 1], Access(trace[k])) ELSE read[k - 1]
  IN  read[n]

\* All these accesses in the counters c.
Tallied(c, accesses) ==
  [total  |-> c.total + Len(accesses),
   reads  |-> c.reads + Cardinality({i \in DOMAIN accesses : ~accesses[i].isWrite}),
   writes |-> c.writes + Cardinality({i \in DOMAIN accesses : accesses[i].isWrite})]

\* A reset and getNextAccess until it finds nothing.
ParseAll ==
  /\ counted.total + Len(AccessesUpTo(Len(trace))) <= MaxCounted
  /\ position' = Len(trace) /\ failed' = TRUE
  /\ returned' = AccessesUpTo(Len(trace))
  /\ earlier' = counted
  /\ counted' = Tallied(counted, AccessesUpTo(Len(trace)))
  /\ UNCHANGED <<trace, format>>

\* Where the stream is afterwards; the mutant does not go back.
LeftAtTheLook(p) == IF Len(trace) < 10 THEN Len(trace) ELSE 10
Restored(p) == p

\* A call of detectFormat in between; of a stream that has failed it reads nothing.
DetectFormat ==
  /\ ~failed
  /\ position' = Restored(position)
  /\ UNCHANGED <<trace, failed, format, counted, returned, earlier>>

-----------------------------------------------------------------------------
\* What was returned since the last reset are the accesses of the lines read, in
\* their order, whoever looked at the format in between; and until a trace is read
\* again the counters are those of the accesses returned.
ReadsInOrder ==
  /\ returned = AccessesUpTo(position)
  /\ earlier = Nothing => counted = Tallied(Nothing, returned)
=============================================================================
