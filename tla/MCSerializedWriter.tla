--------------------------- MODULE MCSerializedWriter ---------------------------
\* Model checking of SerializedWriter: three concurrent write_message calls.
EXTENDS SerializedWriter

\* The writer implements the promise of WriteChannel.
Channel == INSTANCE WriteChannel
               WITH line <- queue, inFlight <- (drainer = "writing"), verdict <- status, out <- wire

\* Every step of the writer is a call, a settlement or invisible to callers.
ImplementsChannel == Channel!Spec
=============================================================================
