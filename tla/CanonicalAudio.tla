----------------------------- MODULE CanonicalAudio -----------------------------
(***************************************************************************)
(* audio_processing.process_canonical_clip_audio and encode_mp3_for_upload *)
(* of edge_capture.py: how loud the one rendition of a clip is that is     *)
(* uploaded, played and transcribed.  A clip is filtered, brought to the   *)
(* target, compressed, brought to the target again and encoded; what the   *)
(* encoder makes of it is measured, and may be corrected once.             *)
(* Levels are peaks in hundredths of a decibel below full scale.           *)
(***************************************************************************)
EXTENDS Integers, Sequences, FiniteSetsExt, SequencesExt

CONSTANTS Peaks,      \* of clips after the band filter
          Losses,     \* what the compressor takes from the peak
          Errors,     \* what the encoder adds to it
          MaxTries    \* bound: renditions

VARIABLES pc, source, compressed, gain,
          encoded,    \* canonical.mp3 in the temporary directory: [gain, peak], or None
          errors,     \* ghost: what the encoder did to each encoding of this rendition
          pending,    \* the .tmp.mp3 beside the clip
          file,       \* its .mp3
          result,     \* what the last rendition gave, or why it gave nothing
          tries

vars == <<pc, source, compressed, gain, encoded, errors, pending, file, result, tries>>

None == [none |-> TRUE]
Target == -20          \* CANONICAL_TARGET_PEAK_DB
Floor == -75           \* CANONICAL_MIN_DECODED_PEAK_DB
MinInput == -5000      \* CANONICAL_MIN_INPUT_PEAK_DB

Init ==
    /\ pc = "idle" /\ source = 0 /\ compressed = 0 /\ gain = 0
    /\ encoded = None /\ errors = <<>> /\ pending = None /\ file = None
    /\ result = None /\ tries = 0

-----------------------------------------------------------------------------
\* volumedetect, of 16-bit samples, prints a tenth of a decibel.
Measured(peak) == Min({0, 10 * ((peak + 5) \div 10)})

Rejected(why) ==
    /\ pc' = "idle" /\ encoded' = None /\ result' = [rejected |-> why]

Begin(peak) ==
    /\ pc = "idle" /\ tries < MaxTries /\ tries' = tries + 1
    /\ source' = peak /\ errors' = <<>>
    /\ IF Measured(peak) < MinInput THEN Rejected("quiet")
       ELSE pc' = "compress" /\ UNCHANGED <<encoded, result>>
    /\ UNCHANGED <<compressed, gain, pending, file>>

\* The normalised clip has its peak at the target; the gain makes up for the loss.
Compress(loss) ==
    /\ pc = "compress" /\ pc' = "encode"
    /\ LET normalised == source + (Target - Measured(source)) IN
       /\ compressed' = normalised - loss
       /\ gain' = Target - Measured(normalised - loss)
    /\ UNCHANGED <<source, encoded, errors, pending, file, result, tries>>

\* The limiter keeps full scale, the encoder does not.
Encode(error) ==
    /\ pc = "encode" /\ pc' = "judge"
    /\ encoded' = [gain |-> gain, peak |-> Min({0, compressed + gain}) + error]
    /\ errors' = Append(errors, error)
    /\ UNCHANGED <<source, compressed, gain, pending, file, result, tries>>

Corrected(decoded) ==
    gain + (Target - decoded) - (IF decoded > Target THEN 2 ELSE 0)

Judge ==
    LET decoded == Measured(encoded.peak) IN
    /\ pc = "judge"
    /\ IF decoded \in Floor .. Target
       THEN pc' = "place" /\ UNCHANGED <<gain, encoded, result>>
       ELSE IF Len(errors) = 1
       THEN pc' = "encode" /\ gain' = Corrected(decoded) /\ UNCHANGED <<encoded, result>>
       ELSE Rejected("peak") /\ UNCHANGED gain
    /\ UNCHANGED <<source, compressed, errors, pending, file, tries>>

\* encoded_path.replace, and the temporary directory goes
Place ==
    /\ pc = "place" /\ pc' = "name"
    /\ pending' = encoded /\ encoded' = None
    /\ result' = [gain |-> gain, decoded |-> Measured(encoded.peak)]
    /\ UNCHANGED <<source, compressed, gain, errors, file, tries>>

Name ==
    /\ pc = "name" /\ pc' = "idle"
    /\ file' = pending /\ pending' = None
    /\ UNCHANGED <<source, compressed, gain, encoded, errors, result, tries>>

\* ffmpeg or a rename fails, or the process is stopped.
Fails ==
    /\ pc # "idle" /\ Rejected("failed")
    /\ UNCHANGED <<source, compressed, gain, errors, pending, file, tries>>

Next ==
    \/ \E peak \in Peaks : Begin(peak)
    \/ \E loss \in Losses : Compress(loss)
    \/ \E error \in Errors : Encode(error)
    \/ Judge \/ Place \/ Name \/ Fails

Spec == Init /\ [][Next]_vars

-----------------------------------------------------------------------------
\* A clip that is there has a peak between the floor and the target, to the rounding
\* of the measurement, and, when its rendition has just come to its end, the gain and
\* the peak that are recorded with it.  A rendition is rejected for its peak only if
\* the encoder takes more than the floor allows, adds more than can be measured and
\* corrected, or does to the second encoding what it did not do to the first, or if
\* the filtered clip was over full scale
\* (audio_processing.py 102-239, edge_capture.py 574-594).
RenditionIsRight ==
    /\ \A f \in {pending, file} \ {None} :
          Floor <= f.peak /\ f.peak < Target + 5
    /\ pc = "idle" /\ result # None /\ "gain" \in DOMAIN result =>
          result = [gain |-> file.gain, decoded |-> Measured(file.peak)]
    /\ pc = "idle" /\ result = [rejected |-> "peak"] =>
          \/ errors[1] # errors[2]
          \/ errors[1] < Floor
          \/ errors[1] > -Target
          \/ source > 0
=============================================================================
