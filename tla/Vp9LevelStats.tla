--------------------------- MODULE Vp9LevelStats ---------------------------
(* vp9_parser::Vp9HeaderParser and Vp9LevelStats (common/), fed by webm_info with
   the packets of a VP9 track. A frame is the fields of its uncompressed header;
   a packet is a frame or a superframe, whose frames have one time. *)
EXTENDS Integers, Sequences, SequencesExt, FiniteSetsExt

CONSTANTS
  Frames,      \* the frames there are
  Steps,       \* times between packets
  MaxFrames,   \* bound: frames of a stream
  MaxTime,     \* bound: its last time
  kSecond,     \* the luma window, one second
  kCpbFrames,  \* frames of the other window, 4
  Table,       \* Vp9LevelTable
  Durations    \* durations a file can have, and -1 if none is set

VARIABLES
  time,     \* of the last packet
  parser,   \* the parser's fields, which a frame only overwrites in part
  stats,    \* the members of Vp9LevelStats that are numbers
  luma_window_, cpb_window_,
  refs,     \* reference: the frame size in each of a decoder's slots
  stream    \* history: the frames that were counted, as a decoder has them
vars == << time, parser, stats, luma_window_, cpb_window_, refs, stream >>

Slots == 1 .. 2
LEVEL_UNKNOWN == 0
Unset == -1       \* of times
NoDistance == 99  \* numeric_limits<int>::max()

Init ==
  /\ time = 0
  /\ parser = [key |-> FALSE, altref |-> FALSE, refresh |-> {}, width |-> 0, height |-> 0,
               bit_depth |-> 0, column_tiles |-> 0, frame_size |-> 0]
  /\ stats = [displayed_frames |-> 0, start |-> Unset, end |-> Unset,
              luma_picture_size |-> 0, luma_picture_breadth |-> 0,
              current_luma_size |-> 0, max_luma_size |-> 0,
              current_cpb_size |-> 0, max_cpb_size |-> 0,
              first_altref |-> TRUE, since_last_altref |-> 0, altref_distance |-> NoDistance,
              compressed |-> 0, uncompressed |-> 0,
              refreshed |-> {}, max_refreshed |-> 0, column_tiles |-> 0]
  /\ luma_window_ = << >> /\ cpb_window_ = << >>
  /\ refs = [s \in Slots |-> << 0, 0 >>]
  /\ stream = << >>

-----------------------------------------------------------------------------
(* ParseUncompressedHeader. A frame has: marker and sync, whether these are right;
   show, the slot that is shown again or 0; key, altref, intra; depth; refresh;
   from, the slot whose size it takes or 0; width and height, column_tiles, 0 if
   segmentation hides it; bytes. *)
SetFrame(p, f) == [p EXCEPT !.key = FALSE, !.altref = FALSE, !.refresh = {}, !.frame_size = f.bytes]

Resolution(p, f) == [p EXCEPT !.width = f.width, !.height = f.height]

IntraOnly(f) == ~ f.key /\ f.altref /\ f.intra

Accepted(f) == f.marker /\ (f.show = 0 /\ (f.key \/ IntraOnly(f)) => f.sync)

ParseUncompressedHeader(p, f) ==
  LET set == SetFrame(p, f)
      begun == [set EXCEPT !.key = f.key, !.altref = f.altref]
      inter == [begun EXCEPT !.refresh = f.refresh]
      key == [Resolution(begun, f) EXCEPT !.bit_depth = f.depth,
                !.column_tiles = IF f.column_tiles = 0 THEN @ ELSE f.column_tiles]
  IN  CASE ~ f.marker \/ f.show # 0 -> set
        [] ~ Accepted(f)            -> begun
        [] f.key                    -> key
        [] IntraOnly(f)             -> [Resolution(inter, f) EXCEPT !.bit_depth = f.depth]
        [] OTHER                    -> IF f.from # 0 THEN inter ELSE Resolution(inter, f)

-----------------------------------------------------------------------------
(* AddFrame *)
Larger(a, b) == IF a > b THEN a ELSE b

Sum(window) == FoldLeft(LAMBDA sum, entry : sum + entry.size, 0, window)

\* Mutant: the frame a second ago is still in the window.
LumaKeptLong(window, t) == SelectSeq(window, LAMBDA entry : entry.time >= t - kSecond)

\* Times do not decrease, so that what is too old is in front.
LumaKept(window, t) == SelectSeq(window, LAMBDA entry : entry.time >= t - (kSecond - 1))

CpbKept(window) == SubSeq(window, Len(window) - Min({Len(window), kCpbFrames - 1}) + 1, Len(window))

AddWindows(s, p, t) ==
  LET luma == p.width * p.height
      current == s.current_luma_size - (Sum(luma_window_) - Sum(LumaKept(luma_window_, t))) + luma
      cpb == s.current_cpb_size - (Sum(cpb_window_) - Sum(CpbKept(cpb_window_))) + p.frame_size
  IN  [s EXCEPT !.start = IF @ = Unset THEN t ELSE @, !.end = t,
         !.luma_picture_size = Larger(@, luma),
         !.luma_picture_breadth = Larger(@, Larger(p.width, p.height)),
         !.current_luma_size = current, !.max_luma_size = Larger(@, current),
         !.current_cpb_size = cpb, !.max_cpb_size = Larger(@, cpb),
         !.compressed = @ + p.frame_size]

AddAltref(s, p) ==
  IF p.altref
  THEN [s EXCEPT !.first_altref = FALSE, !.since_last_altref = 0,
          !.altref_distance = IF s.first_altref THEN @ ELSE Min({@, s.since_last_altref})]
  ELSE [s EXCEPT !.since_last_altref = @ + 1, !.displayed_frames = @ + 1,
          !.uncompressed = @ + (p.width * p.height * p.bit_depth * 3) \div 2]

AddReferences(s, p) ==
  LET refreshed == IF p.key THEN {} ELSE s.refreshed \cup p.refresh
  IN  [s EXCEPT !.refreshed = refreshed, !.max_refreshed = Larger(@, Cardinality(refreshed)),
         !.column_tiles = Larger(@, p.column_tiles)]

AddFrame(p, t) ==
  /\ \E windows \in {AddWindows(stats, p, t)} : \E altrefs \in {AddAltref(windows, p)} :
       stats' = AddReferences(altrefs, p)
  /\ luma_window_' = Append(LumaKept(luma_window_, t), [time |-> t, size |-> p.width * p.height])
  /\ cpb_window_' = Append(CpbKept(cpb_window_), [time |-> t, size |-> p.frame_size])

\* What a decoder makes of a frame: its size is that of the slot it names.
Decoded(f, p, t) ==
  LET slot == IF f.show # 0 THEN f.show ELSE IF f.key \/ IntraOnly(f) THEN 0 ELSE f.from
  IN  [time |-> t, size |-> IF slot = 0 THEN << f.width, f.height >> ELSE refs[slot],
       given |-> slot = 0, bytes |-> f.bytes, key |-> p.key, altref |-> p.altref,
       refresh |-> p.refresh, depth |-> p.bit_depth,
       tiles |-> IF p.key THEN f.column_tiles ELSE 0]

\* PrintVP9Info for one frame of a packet: the first of the next or another of this.
PrintVP9Info ==
  /\ Len(stream) < MaxFrames
  /\ \E f \in Frames, t \in {time + step : step \in Steps} :
     \E p \in {ParseUncompressedHeader(parser, f)} :
       /\ t <= MaxTime
       /\ stream = << >> => f.key
       /\ time' = t /\ parser' = p
       /\ IF Accepted(f)
          THEN /\ AddFrame(p, t)
               /\ \E d \in {Decoded(f, p, t)} :
                    /\ stream' = Append(stream, d)
                    /\ refs' = [s \in Slots |-> IF p.key \/ s \in p.refresh THEN d.size ELSE refs[s]]
          ELSE UNCHANGED << stats, luma_window_, cpb_window_, refs, stream >>

Done == (Len(stream) = MaxFrames \/ time = MaxTime) /\ UNCHANGED vars

Next == PrintVP9Info \/ Done

Spec == Init /\ [][Next]_vars

-----------------------------------------------------------------------------
(* GetLevel. Doubles are fractions here, and infinite or not a number where the
   denominator is zero. *)
FrameDuration == stats.end - stats.start

\* GetAverageBitRate() <= limit, in bytes per second, for the duration and the flag
\* that the caller has set.
BitRateWithin(limit, duration, estimate) ==
  LET base == IF duration = Unset THEN FrameDuration ELSE duration
      estimated == estimate /\ (duration = Unset \/ duration <= FrameDuration)
      others == stats.displayed_frames - 1
  IN  CASE ~ estimated -> base > 0 /\ stats.compressed * kSecond <= limit * base
        [] others = 0  -> FrameDuration > 0
        [] OTHER       -> LET whole == base * others + FrameDuration  \* others times the duration
                              over == IF others > 0 THEN whole ELSE - whole
                          IN  \/ over < 0
                              \/ over > 0 /\ stats.compressed * kSecond * Larger(others, - others) <= limit * over

\* The rows within each limit; a luma rate may be above by max_luma_sample_rate_grace_percent_.
Within(duration, estimate) ==
  LET Rows(Test(_)) == {i \in DOMAIN Table : Test(Table[i])}
  IN  << Rows(LAMBDA row : stats.max_luma_size * 1000 <= row.luma_sample_rate * 1015),
         Rows(LAMBDA row : stats.luma_picture_size <= row.luma_picture_size),
         Rows(LAMBDA row : stats.luma_picture_breadth <= row.luma_picture_breadth),
         Rows(LAMBDA row : BitRateWithin(row.bitrate, duration, estimate)),
         Rows(LAMBDA row : row.cpb_size > 0 /\ stats.max_cpb_size <= row.cpb_size),
         Rows(LAMBDA row : stats.column_tiles <= row.tiles),
         Rows(LAMBDA row : stats.max_refreshed <= row.ref_frames) >>

GetMinimumAltrefDistance == IF stats.altref_distance = NoDistance THEN -1 ELSE stats.altref_distance

\* Mutant: the last search that finds a row decides.
LevelIndexLast(found) == IF found = << >> THEN 0 ELSE Min(Last(found))

\* Each search finds the first row within its limit, and the highest of them counts;
\* a search that finds none says nothing.
LevelIndex(found) == IF found = << >> THEN 0 ELSE Max({Min(rows) : rows \in ToSet(found)})

GetLevel(duration, estimate) ==
  LET index == LevelIndex(SelectSeq(Within(duration, estimate), LAMBDA rows : rows # {}))
      row == Table[index]
  IN  IF \/ index = 0
         \/ GetMinimumAltrefDistance < row.altref_distance
         \/ stats.uncompressed < row.compression_ratio * stats.compressed * 8
      THEN LEVEL_UNKNOWN ELSE row.level

-----------------------------------------------------------------------------
Total(S, Of(_)) == FoldSet(LAMBDA i, sum : sum + Of(i), 0, S)
Luma(i) == stream[i].size[1] * stream[i].size[2]
Bytes(i) == stream[i].bytes
Largest(S) == Max(S \cup {0})
Indices == DOMAIN stream
Altrefs == {i \in Indices : stream[i].altref}

\* Frames that do not give their size have the size of the frame before, which is
\* what ParseUncompressedHeader takes for it.
SizesFollow == \A i \in Indices : i > 1 /\ ~ stream[i].given => stream[i].size = stream[i - 1].size

\* The frames whose references are still kept at frame j.
SinceKey(j) == {i \in 1 .. j : \A k \in i .. j : ~ stream[k].key}

(* The numbers kept frame by frame are those of the stream as a whole: the most
   samples in any second, the most bytes in any kCpbFrames frames, the closest
   alternate references, the most slots refreshed between two key frames
   (Vp9LevelStats::AddFrame), with what Vp9HeaderParser keeps from one header to
   the next. *)
StatsExact ==
  SizesFollow =>
  /\ stats.luma_picture_size = Largest({Luma(i) : i \in Indices})
  /\ stats.luma_picture_breadth = Largest({stream[i].size[k] : i \in Indices, k \in 1 .. 2})
  /\ stats.max_luma_size = Largest({Total({i \in 1 .. j : stream[i].time > stream[j].time - kSecond}, Luma) : j \in Indices})
  /\ stats.max_cpb_size = Largest({Total({i \in 1 .. j : i > j - kCpbFrames}, Bytes) : j \in Indices})
  /\ stats.compressed = Total(Indices, Bytes)
  /\ stats.uncompressed = Total(Indices \ Altrefs, LAMBDA i : (Luma(i) * stream[i].depth * 3) \div 2)
  /\ stats.altref_distance = Min({NoDistance} \cup
       {j - i - 1 : << i, j >> \in {pair \in Altrefs \X Altrefs : pair[1] < pair[2]}})
  /\ stats.max_refreshed = Largest({Cardinality(UNION {stream[i].refresh : i \in SinceKey(j)}) : j \in Indices})
  /\ stats.column_tiles = Largest({stream[i].tiles : i \in Indices})

\* The lowest row a stream keeps to, but for the references.  A row without a CPB size
\* sets no limit to the CPB, and a limit that the stream exceeds in every row none at all.
Lowest(within) ==
  Min({i \in DOMAIN Table : \A k \in 1 .. 6 :
         i \in within[k] \/ within[k] = {} \/ (k = 5 /\ Table[i].cpb_size = 0)})

(* The level is the lowest whose limits a stream keeps to, or unknown if the
   stream does not have that level's distances and compression
   (Vp9LevelStats::GetLevel); a stream with fewer than two alternate references
   is of no level.  A number beyond all limits is left out of account by the code, a
   CPB beyond the largest CPB size among them although the levels above set none.
   Not spoken of are streams with more references than the level allows, since
   that limit falls where the others rise. *)
LevelFits ==
  stream # << >> =>
  \A duration \in Durations, estimate \in BOOLEAN :
  \E row \in {Table[Lowest(Within(duration, estimate))]} :
    stats.max_refreshed <= row.ref_frames =>
    LET unfit == \/ stats.uncompressed < row.compression_ratio * stats.compressed * 8
                 \/ Cardinality(Altrefs) < 2
                 \/ stats.altref_distance < row.altref_distance
    IN  GetLevel(duration, estimate) = IF unfit THEN LEVEL_UNKNOWN ELSE row.level
=============================================================================
