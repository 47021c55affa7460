------------------------------- MODULE MCM2ts -------------------------------
(* Frames for TLC.                                                           *)
EXTENDS M2tsProperties

Vp8(pts, data) == [ codec |-> "VP8", pts |-> pts, data |-> data ]
Vp9(pts, data) == [ codec |-> "VP9", pts |-> pts, data |-> data ]

\* Payloads of up to three fragments of four bytes; start codes at their ends and
\* across them; a superframe of two frames, one cut short, one with an empty frame.
MCFrames ==
  { Vp8({}, << 0, 0, 1 >>), Vp8({22}, << 1 >>), Vp8({0, 15, 30}, << 7, 0, 0, 3 >>),
    Vp8({}, << 8, 0, 0, 3, 5, 6 >>), Vp8({7, 22}, << 7, 0, 0, 0, 1, 0, 0, 3, 9 >>),
    Vp8({}, << 0, 0, 0, 1 >>), Vp9({1, 14}, << 10, 11, 12, 13, 193, 1, 3, 193 >>),
    Vp9({}, << 10, 193 >>), Vp9({}, << 10, 11, 12, 13, 193, 4, 0, 193 >>) }
=============================================================================
