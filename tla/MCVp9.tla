------------------------------- MODULE MCVp9 -------------------------------
(* Streams of small frames: key frames of two sizes, frames that take their size
   from a slot or give a new one, alternate references, frames shown again, and
   key frames with a wrong sync code. *)
EXTENDS Vp9LevelStats

Key == [marker |-> TRUE, sync |-> TRUE, show |-> 0, key |-> TRUE, altref |-> FALSE, intra |-> FALSE,
        depth |-> 8, refresh |-> {}, from |-> 0, width |-> 2, height |-> 1, column_tiles |-> 1, bytes |-> 2]
Inter == [Key EXCEPT !.key = FALSE, !.from = 1, !.refresh = {1}, !.column_tiles = 0, !.bytes = 1]

MCFrames == {
  Key,
  [Key EXCEPT !.width = 1, !.height = 3, !.depth = 10, !.column_tiles = 2, !.bytes = 3],
  [Key EXCEPT !.sync = FALSE, !.column_tiles = 0],
  Inter,
  [Inter EXCEPT !.from = 2, !.altref = TRUE, !.refresh = {2}],
  [Inter EXCEPT !.from = 0, !.width = 2, !.height = 2, !.bytes = 4],
  [Inter EXCEPT !.intra = TRUE, !.altref = TRUE, !.refresh = {1, 2}, !.width = 1],
  [Inter EXCEPT !.show = 2] }

Row(level, rate, size, breadth, bitrate, cpb, ratio, tiles, distance, slots) ==
  [level |-> level, luma_sample_rate |-> rate, luma_picture_size |-> size,
   luma_picture_breadth |-> breadth, bitrate |-> bitrate, cpb_size |-> cpb,
   compression_ratio |-> ratio, tiles |-> tiles, altref_distance |-> distance, ref_frames |-> slots]

MCDurations == {Unset, 2}

MCTable == << Row(10, 4, 2, 2, 3, 3, 1, 1, 1, 2), Row(20, 8, 3, 3, 6, 6, 2, 1, 1, 2),
              Row(30, 12, 4, 3, 8, 8, 2, 2, 2, 1), Row(40, 16, 4, 3, 12, 0, 2, 2, 2, 1) >>
=============================================================================
