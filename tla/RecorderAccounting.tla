------------------------- MODULE RecorderAccounting -------------------------
(***************************************************************************)
(* What the caps of the recorder promise, counted over the whole pipeline  *)
(* of Recorder: rows, the synthetic entry being written, the buffers and   *)
(* the counts that no entry carries yet.                                   *)
(***************************************************************************)
EXTENDS Recorder

\* The overflow counts carried by a sequence of entries.
Notes(entries) ==
    LET upTo[i \in 0..Len(entries)] == IF i = 0 THEN 0 ELSE upTo[i - 1] + entries[i].note
    IN  upTo[Len(entries)]

Carried(c) == Notes(run[c].synth) + Notes(buffer[c]) + truncated[c]
Accounted(b) == Notes(stored[b]) + Carried(Main(b)) + Carried(Late(b))

\* An entry that a cap refused is counted once on its way into the rows, by its
\* context or by an entry that reports it: whatever fails, is requeued, moved into
\* the continuation or written over, no row reports it twice; and until a store call
\* fails, the rows and what is on its way account for every refusal of a batch that
\* was sampled (a flush "cannot report the same drops again", and "a truncated batch
\* says so": #reportTruncation in recorder.ts).
RefusalsAccounted ==
    \A b \in Batches :
        /\ Accounted(b) <= dropped[b]
        /\ sampled[b] /\ failures = 0 => Accounted(b) = dropped[b]

\* A batch that is over, and whose store calls succeeded.
Settled(b) ==
    /\ phase[b] = "finished"
    /\ queue[b] = <<>> /\ \A c \in {Main(b), Late(b)} : run[c] = Idle
    /\ failures = 0

\* A sampled batch that is over has stored what it buffered, also what arrived while
\* it was written ("rather than abandoning it", flush() in recorder.ts), and its rows
\* report each entry that was refused.
SampledInFull ==
    \A b \in Batches :
        Settled(b) /\ sampled[b] =>
            /\ \A c \in {Main(b), Late(b)} : buffer[c] = <<>>
            /\ Notes(stored[b]) = dropped[b]

\* The rows of any batch report each entry that was refused.
EveryDropReported ==
    \A b \in Batches : Settled(b) /\ stored[b] # <<>> => Notes(stored[b]) = dropped[b]

=============================================================================
