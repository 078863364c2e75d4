--------------------------- MODULE MCEsp32Platform ---------------------------
(* Esp32Platform with the lengths of the code's buffer and readings.        *)
EXTENDS Esp32Platform

CONSTANTS d1, h1, h2

OneNode == [h \in Host |-> d1]

TwoHandlers == [prefix : {1}, port : {1, 2}]

\* What serde_json may write at the longest, with 16 characters for an f32:
\* {"moisture":u16,"temp":f32}, {"fs":u16,"lux":f32} and
\* {"temp":f32,"p":f32,"h":f32,"gas":u32}.  Any two fit in the buffer.
JsonLengths == [soil |-> 42, light |-> 35, gas |-> 84]

\* One setting fits, or none.
Dark == {{}} \cup {{p} : p \in Preset}

=============================================================================
