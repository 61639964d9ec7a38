---------------------------- MODULE ProfiledTrace ----------------------------
(***************************************************************************)
(* The programs that read a trace: a simulation tracks every access it is  *)
(* given in the profiler, an analysis parses the whole trace, several      *)
(* times.                                                                  *)
(***************************************************************************)
EXTENDS TraceParser, MemoryProfiler

VARIABLE tracked  \* ghost: the accesses given to the profiler since its reset

vars == <<parser, profiler, tracked>>

TraceInit == Init /\ ProfilerInit /\ tracked = <<>>

\* One turn of the loop of runSimulation.
ReadAndTrack ==
  /\ GetNextAccess
  /\ IF returned' # returned
     THEN TrackAccess(Last(returned')) /\ tracked' = Append(tracked, Last(returned'))
     ELSE UNCHANGED <<profiler, tracked>>

Next ==
  \/ ReadAndTrack
  \/ (GetNextAccessWithError \/ Reset \/ ParseAll \/ DetectFormat) /\ UNCHANGED <<profiler, tracked>>
  \/ (\E r \in Regions : DefineRegion(r)) /\ UNCHANGED <<parser, tracked>>
  \/ ResetProfiler /\ tracked' = <<>> /\ UNCHANGED parser

Spec == TraceInit /\ [][Next]_vars

-----------------------------------------------------------------------------
TypeOK ==
  /\ position \in 0 .. Len(trace) /\ failed \in BOOLEAN
  /\ format \in {"Simple", "Extended", "JSON"}
  /\ counted.total <= MaxCounted

\* The profile is that of exactly the accesses the loop was given, in every count.
EveryAccessIsCounted ==
  /\ ReadsInOrder
  /\ RegionsAddUp
  /\ overall = Tallied(Nothing, tracked)
=============================================================================
