---------------------------- MODULE MCVideoPlayer ----------------------------
(* Small files for model-checking VideoPlayer. *)
EXTENDS VideoPlayer

V(n) == [stream |-> "video", pts |-> n]
A(n) == [stream |-> "audio", pts |-> n]

\* Audio and video interleaved as a muxer writes them.
AVFile == <<V(0), A(0), V(1), A(1)>>
ShortFile == <<V(0), A(0), V(1)>>
\* Both frames due at once.
ThreePackets == <<V(0), A(0), V(0)>>
\* More audio at the start than the audio queue of the run holds.
LongAudioFile == <<V(0), A(0), A(1), A(2), A(3), V(3)>>
=============================================================================
