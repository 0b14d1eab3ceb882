------------------------- MODULE PipelineProperties -------------------------
(***************************************************************************)
(* What the record pipeline and the fixture adapter must guarantee.         *)
(***************************************************************************)
EXTENDS RecordPipeline

\* The items of the final attempt, channel by channel.
FinalItems == Range(task.results)

\* The outputs are the items of every channel, in order; "from" says what each one's follow.
Whole(outputs, results) ==
    \E from \in [1..(Len(results) + 1) -> 0..Len(outputs)] :
        /\ from[1] = 0 /\ from[Len(results) + 1] = Len(outputs)
        /\ \A c \in DOMAIN results :
              /\ from[c + 1] = from[c] + Len(results[c])
              /\ \A i \in DOMAIN results[c] :
                    outputs[from[c] + i] = [channel |-> c, frame |-> results[c][i]]

\* gateway.ts:791 "Map for every channel and validate every output before admitting any
\* of them": what is about to be admitted is every channel's output of one single
\* attempt, in order, and none of it had a problem.
AdmitsWholeRecords ==
    task.step = "evaluated" /\ task.class = "none" =>
        /\ Len(task.results) = ChannelCount
        /\ FinalItems \subseteq Seq(Frames)
        /\ Whole(task.outputs, task.results)

\* The state an output is compared with is the newest one of its key so far, not the history
\* (docs/V1_API.md:140): an output that something newer precedes is not compared.
NewerBefore(outputs, j) ==
    \E i \in 1..(j - 1) : /\ outputs[i].channel = outputs[j].channel
                          /\ outputs[i].frame.revision > outputs[j].frame.revision

\* gateway.ts:795 "any other problem found outranks it, so a quarantine policy never
\* advances past an integrity or mapper failure": an evaluation ends in a class that may
\* be quarantined only if every channel was mapped in that attempt, nothing else was
\* wrong with it, and that problem was really there.
IntegrityOutranks ==
    task.step = "evaluated" /\ task.class = "payload-schema" /\ ClassifyAll =>
        /\ Len(task.results) = ChannelCount
        /\ {item.data : item \in UNION {Range(items) : items \in FinalItems}} \cap Refusals
              = {"payload-schema"}
        /\ \A j \in DOMAIN task.outputs : \A i \in 1..(j - 1) :
              /\ task.outputs[i].channel = task.outputs[j].channel
              /\ task.outputs[i].frame.revision = task.outputs[j].frame.revision
              /\ ~NewerBefore(task.outputs, j)
              => task.outputs[i] = task.outputs[j]

\* Every job and every redrive comes to its end: the adapter's chain and the gateway's
\* lock never wait on each other, and stop() always finds them empty.
ChainSettles ==
    /\ fixture.chain # <<>> ~> fixture.chain = <<>>
    /\ gate = "stopping" ~> gate = "stopped" /\ lock = <<>>

=============================================================================
