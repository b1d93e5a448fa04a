-------------------------- MODULE MC_RecordStream ---------------------------
EXTENDS RecordStream

\* Four records, each AUX buffer two units long: a cut can fall in a
\* header, in a record's body, or half-way through an AUX buffer.
MC_MaxRecs == 4
MC_ASz == 2

=============================================================================
