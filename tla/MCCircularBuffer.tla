-------------------------- MODULE MCCircularBuffer --------------------------
EXTENDS CircularBuffer

\* Two byte values and up to MaxChunk of them in a call, so that a chunk can
\* be split over the end of the array at every position.
CONSTANT MaxChunk

MCChunks == UNION {[1..n -> Values] : n \in 1..MaxChunk}

=============================================================================
