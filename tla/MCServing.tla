----------------------------- MODULE MCServing -----------------------------
(* Small instances of Serving. *)
EXTENDS Serving

CONSTANTS r1, r2, r3, overview, trace, hot, idle

Overview(gzip) == [cached |-> TRUE, suffix |-> overview, gzip |-> gzip,
                   limited |-> FALSE, region |-> hot]
TraceOf(region) == [cached |-> TRUE, suffix |-> trace, gzip |-> FALSE,
                    limited |-> TRUE, region |-> region]
Private(region) == [TraceOf(region) EXCEPT !.cached = FALSE]

AllKinds == {Overview(TRUE), Overview(FALSE), TraceOf(hot), Private(hot),
             Private(idle)}

Mix(a, b, c) == [r \in Requests |-> CASE r = r1 -> a [] r = r2 -> b [] r = r3 -> c]

\* Overviews in both encodings; one trace asked for twice beside a private
\* look-up of the same or of another region.
SomeMixes ==
  {Mix(Overview(TRUE), Overview(TRUE), Overview(FALSE)),
   Mix(TraceOf(hot), TraceOf(hot), Private(hot)),
   Mix(TraceOf(hot), Private(hot), Private(idle))}

\* The overview grows past the threshold of compression, the trace past the
\* cache's limit.
BigOnes == {<<overview, 1>>, <<trace, 1>>}
HugeOnes == {<<trace, 1>>}

=============================================================================
