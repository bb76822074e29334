---------------------------- MODULE MCSpoolUploader ----------------------------
(* Half-second ticks.  On channel 14: a half-second click, two               *)
(* transmissions that each may join the one before but not all three in one  *)
(* clip, and an empty file.  On channel 16: a clip of unknown length that    *)
(* began in the same second as the click, and a later transmission.          *)
EXTENDS SpoolUploader

On(channel, start, end) == [channel |-> channel, start |-> start, end |-> end]

MCRecording ==
    << On("14", 0, 1), On("14", 4, 10), On("14", 12, 22),
       On("16", 1, NoTime), On("16", 30, 34), On("14", 26, 26) >>
=============================================================================
