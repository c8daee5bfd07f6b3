----------------------------- MODULE BodyStream -----------------------------
(***************************************************************************)
(* What a body promises its consumer, whatever carries it: the chunks the  *)
(* producer handed over, in order and once each, then one truthful end.    *)
(* The body channel of crates/iroh-http-core/src/ffi/handles.rs and the    *)
(* pump of ffi/pumps.rs that fills it implement this (module InboundBody). *)
(***************************************************************************)
EXTENDS Naturals, Sequences

CONSTANTS
    Chunks,     \* the chunks a producer may write
    Errors      \* the ways a body may fail

VARIABLES
    written,    \* the chunks the producer has handed over so far
    got,        \* the chunks the consumer has been given so far
    producer,   \* "open", or how the producer ended: "whole", "cut" or an error
    consumer    \* "open", or how the body ended for the consumer

streamVars == <<written, got, producer, consumer>>

Init ==
    /\ written = <<>>
    /\ got = <<>>
    /\ producer = "open"
    /\ consumer = "open"

\* The producer hands over one more chunk.
Write ==
    /\ producer = "open"
    /\ \E c \in Chunks : written' = Append(written, c)
    /\ UNCHANGED <<got, producer, consumer>>

\* The producer ends the body: whole, failed, or cut short because the
\* consumer did not keep up.
Close ==
    /\ producer = "open"
    /\ producer' \in {"whole", "cut"} \cup Errors
    /\ UNCHANGED <<written, got, consumer>>

\* The consumer is given the next chunk it has not had.
Read ==
    /\ Len(got) < Len(written)
    /\ got' = Append(got, written[Len(got) + 1])
    /\ UNCHANGED <<written, producer, consumer>>

\* The body ends for the consumer, with every chunk delivered first and
\* with the producer's own verdict.
End ==
    /\ consumer = "open"
    /\ producer # "open"
    /\ got = written
    /\ consumer' = producer
    /\ UNCHANGED <<written, got, producer>>

\* The consumer gives the body up; what it is told then means nothing.
Abandon ==
    /\ consumer = "open"
    /\ consumer' = "abandoned"
    /\ UNCHANGED <<written, got, producer>>

Next == Write \/ Close \/ Read \/ End \/ Abandon

Spec == Init /\ [][Next]_streamVars

=============================================================================
