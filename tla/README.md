# libwebm in TLA+

TLA+ models of libwebm, their model checking with TLC and their proofs with
TLAPS. The reference is the C++ code; a doc or a header comment is only quoted
where it disagrees with the code.

## 1. The system

libwebm is a library for WebM (Matroska) files. It has five parts with logic of
their own: a muxer, two parsers, a converter to MPEG-2 transport streams and a
WebVTT reader. Nothing in it has a thread. What is hard is the order in which a
caller's calls arrive, data that arrives in pieces, and values that are fixed at
one time and used at another.

| component | state | operations | hard behaviour |
|---|---|---|---|
| mkvmuxer `Frame`, `Cluster` (`mkvmuxer/mkvmuxer.cc`) | payload size, header written, finalized, frames held back per track | `AddFrame`, `QueueOrWriteFrame`, `DoWriteFrame`, `Finalize` | frames of several tracks are held back and merged; the header is written by the first block |
| mkvmuxer `Segment` | queued audio frames, cluster list, cues, seek head, timestamps per track, flags for the next cluster and the next cue | `AddFrame`, `ForceNewClusterOnNextFrame`, `AddCuePoint`, `Finalize`, settings | audio is queued and flushed by later frames; a cluster is opened at the oldest queued frame; offsets come from the writer or from sums |
| mkvmuxer `Tracks` | list of tracks, written flag | `AddTrack` | explicit and automatic numbers mix |
| mkvmuxer cues before clusters | cue positions, cluster positions | `MoveCuesBeforeClusters` | positions and encoded sizes depend on each other |
| mkvparser `Segment`, `Cluster`, `Block` (`mkvparser/mkvparser.cc`) | array of loaded and preloaded clusters, file position, cluster of unknown size, block entries | `Load`, `LoadCluster`, `ParseNext`, `GetNext`, `FindCluster`, `Cluster::Parse` | a file that grows while it is read: every call may stop for lack of data and start over |
| mkvparser `Cues`, `SeekHead`, `Tracks`... | preloaded and loaded cue points | `LoadCuePoint`, `Find` | loading and searching share an array |
| webm_parser (`webm_parser/src`) | a stack of parsers, each with a state and the bytes it has read; cached metadata | `Feed`, `Init`, `InitAfterSeek`, `Skip` | every parser may be stopped at every byte; elements of unknown size; skipping and seeking |
| m2ts (`m2ts`) | fragments gathered, continuity counter | `WritePesPacket`, `ReceivePacket`, `ParseNextPacket` | fragmentation, start code escaping, padding at the packet's end |
| webvtt (`webvtt`) | one character put back | `GetLine`, `Init`, `Parse` | three line ends, a file that ends anywhere |
| vp9 (`common`) | sliding windows over frames, header fields kept from frame to frame | `ParseUncompressedHeader`, `AddFrame`, `GetLevel` | windows bounded by time and by count |
| WebVTT in WebM (`sample_muxer_metadata.cc`, `vttdemux.cc`) | cues not yet written, by time and track | `Load`, `Write`, `WriteCue` | cues of several files merge between the frames of a video, and have to come apart again |
| other tools, samples, tests | none | | drivers around the libraries |

How they interact. The muxer's caller owns an `IMkvWriter`, to which every
component of the muxer writes; `Segment` asks a `Cluster` to write a frame, adds
a cue point for it from the cluster's counters, and finalizes the cluster when
it opens the next. The parsers read from an `IMkvReader` or a `Reader` that
tells how much of the file there is; mkvparser's caller walks clusters and
blocks by pointer, webm_parser calls its caller back. `Webm2Pes` drives
mkvparser, `VpxPes2Ts` receives the packets of `Webm2Pes`. The two halves, muxer
and parsers, meet only in the file.

What makes each part correct:

* muxer: no accepted frame is lost or written twice; the blocks of a track keep
  their order, the file is in time order; cues, seek head and sizes name what is
  in the file; a finalized cluster is left alone; every call returns.
* mkvparser: what is found does not depend on how the file grows or on the order
  in which clusters were preloaded; the cluster array stays sorted and free of
  duplicates; every loop over a finished file ends.
* webm_parser: the callbacks are those of a parse in one go, however the bytes
  are cut up.
* elements around the frames: the sizes announced are the sizes written, and both
  parsers read what was set.
* m2ts: the frames that come out are the frames that went in.
* webvtt: the cues are those that the text has by its lines, and those that come
  out of a WebM file are those that went in.
* vp9: numbers kept frame by frame are those of the whole stream.

## 2. Modules

| module | what it is |
|---|---|
| `MuxCluster` | `mkvmuxer::Frame` and `mkvmuxer::Cluster`: a cluster is a record, an operation an operator on it |
| `MuxSegment` | `mkvmuxer::Segment`: the state machine; EXTENDS `MuxCluster` |
| `MuxProperties` | what must hold of it |
| `MCMux` | one video and one audio track, for TLC |
| `MuxSegmentProofs` | type correctness; the queue fits its cluster; finalized clusters stay; where clusters, seek head and Segment end are; the cues name the first blocks of their track; blocks are in the order of their track and of time |
| `MuxFitProofs` | a feed that fits loses no frame; no deleted frame is read |
| `ParserFile` | the file mkvparser reads, how far it can be read, and what the code finds when it looks into a cluster |
| `ParserClusters` | `mkvparser::Segment` and `mkvparser::Cluster`: the state machine; EXTENDS `ParserFile` |
| `ClusterList` | abstract specification of loading: the file's clusters become known one by one |
| `ParserProperties` | what must hold of `ParserClusters`; instantiates `ClusterList` |
| `MCParser` | files for TLC, and the configurations that choose among them |
| `ParserProofs` | the position, the clusters kept, and that loading implements `ClusterList`; the array's order, the entries, and where `ParseNext` and `GetNext` lead |
| `WebmParser` | webm_parser: the stack of parsers and the calls that feed it |
| `WebmDocument` | what a document tells a callback that sees it whole, by recursion over its tree; used by TLC only |
| `InOneGo` | abstract specification: the events of a script, each once and in order, and then the end |
| `WebmProperties` | what must hold of `WebmParser` |
| `WebmDelivery` | that `WebmParser` implements `InOneGo`, with the script that `WebmDocument` computes |
| `MCWebm` | documents for TLC |
| `WebmProofs` | the parsers agree with the reader, and positions are told as they are |
| `Elements` | EBML elements with their values and sizes |
| `MuxElements` | mkvmuxer's tracks, colour, projection, encryption, SegmentInfo, chapters, tags: setters, `AddTrack`, the size functions and the write functions; EXTENDS `Elements` |
| `MkvElements`, `WebmElements` | how mkvparser and webm_parser read these elements |
| `ElementProperties`, `MCElements` | what must hold of writing and reading them; composes the three |
| `MuxElementsProofs` | no two tracks have one number |
| `CuesFirst` | `MoveCuesBeforeClusters`; EXTENDS `Elements` |
| `ParserSeek` | mkvparser's `Cues`, `Segment::GetBlock`, `Track::GetFirst`, `GetNext` and `Seek`, on a file whose Cues may have been moved; EXTENDS `CuesFirst` |
| `SeekProperties`, `MCSeek` | what must hold of seeking, and files |
| `SeekProofs` | sums of sequences; the points are true once the Cues are moved; points, seeking and walks find the blocks they should |
| `Lacing` | `BasicBlockParser` of webm_parser fed in pieces, beside `Block::Parse` of mkvparser on the same bytes |
| `LacingProofs` | the frames of a block fill it, and both parsers find the same |
| `PesFormat` | the bytes of PES packets |
| `M2ts` | `Webm2Pes`, `VpxPes2Ts` and `VpxPesParser` around one stream; EXTENDS `PesFormat` |
| `M2tsProperties`, `MCM2ts` | what must hold of them, and frames |
| `M2tsProofs` | the transport packets carry the PES stream |
| `WebVtt` | `LineReader` and the parts of a cue |
| `VttMetadata` | `Parser::Parse`, `SampleMuxerMetadata` and `vttdemux` as one machine; EXTENDS `WebVtt` |
| `VttProperties`, `MCVtt` | what must hold of them, and texts |
| `Vp9LevelStats`, `MCVp9` | `Vp9HeaderParser` and `Vp9LevelStats` under `PrintVP9Info`, and their properties |

### From the code to `MuxSegment`

A public call starts when `pc = "idle"` and runs to its return; the loops inside
it are steps. `pc` says where the call stands, so that the states between two
writes, in which lists, counters and file may disagree, are states of the model:

| `pc` | place in the code |
|---|---|
| `test` | `DoNewClusterProcessing`, before `TestFrame` |
| `flushOlder` | `WriteFramesLessThan`, called by `MakeNewCluster` |
| `close` | `Cluster::Finalize` on the last cluster |
| `offset` | `MaxOffset`, its loop over the clusters |
| `flushAll` | `WriteFramesAll` |
| `write` | the end of `AddGenericFrame` |
| `hold` | the loop of `QueueOrWriteFrame`, with `origin` the place it was called from |
| `done` | `Finalize` returned |
| `undefined` | a deleted frame is read next: the C++ has no behaviour to model |

The variables are the members of `Segment` under short names (the module lists
them with the members' names); `call`, `frame`, `test`, `origin`, `offset`,
`index` and `ret` are the locals of the running call; `calls` and `accepted` are
history. A cluster keeps what it wrote as the list `blocks`. Data is abstracted:
a payload is its length, a timestamp a small number, an EBML size field one byte
long; a block's length still depends on its form (SimpleBlock, BlockGroup with
duration, reference, BlockAdditions or DiscardPadding), because offsets are sums
of them. In chunking mode `written` counts the bytes of all files laid end to
end. Unsigned arithmetic: `FarFromCluster` treats a frame before the cluster as
far ahead of it, as the code's unsigned difference does, and `WithLastDuration`
subtracts modulo `WordSize`.

Two error paths of the code leave a pointer to a deleted frame in a list
(`WriteFramesLessThan`, `mkvmuxer.cc:4136`, and `QueueOrWriteFrame`,
`mkvmuxer.cc:2702`). The next read of it is undefined behaviour; the model stops
in `undefined`, and `UndefinedOnlyIfUnfit` states which feeds can get there.

### From the code to `ParserClusters`

A file is a function from the positions where elements begin to their headers.
An element's ID and size fields together take one unit and are read in full or
not at all: where the code can stop between them it starts over from the same
position, with nothing consumed. The ways in which a number can be encoded
badly, a failing reader and a position near the limits of `long long` are left
out. `avail` is what `IMkvReader::Length` gives; `Grow` raises it between two
calls, never within one, since there is one thread. `Total` and `SegmentStop`
are unknown when the code sees them as negative.

| `pc` | place in the code |
|---|---|
| `headers` | the loop of `ParseHeaders` |
| `load` | the loop of `LoadCluster` around `DoLoadCluster`, also when `ParseNext` calls it |
| `next` | the loop of `ParseNext` around `DoParseNext` |
| `garbage` | an element is read from where none begins |

`mPos` is `m_pos` with its double use: negative, it is the position behind the
header of `m_pUnknownSize`, which `LoadUnknownSize` parses block by block
(`DoLoadClusterUnknownSize`). `clusters` is `m_clusters` with its loaded and its
preloaded part, `count` is `m_clusterCount`. A cluster's record has `m_index`,
`m_pos`, `m_element_size`, whether its timecode is known, and the positions of
its block entries. `Parse` is `Cluster::Parse` with the `Cluster::Load` it
starts with; it finds one block. `HasBlockEntries` is what makes loading and
looking ahead pass over a cluster. What a file's bytes mean where no element
begins cannot be said; the model stops in `garbage`. `api`, `curr` and `result`
name the call, the cluster it was given and the one it returned.

The binary searches are modelled as searches, with the elements they probe,
because `DoParseNext` leaves the last probe in a variable that it goes on to use.

### From the code to `WebmParser`

`stack` holds the parsers that are active, from `DocumentParser` down; only its
top takes steps, as the C++ calls nest. A parser's record has what the parser
keeps between two calls of `Feed`: `state` is its `state_` (`kFirstReadOfChildId`
and `kFinishingReadingChildId` are `firstId` and `restId`, since the code treats
the end of the file differently in them), `child` its `child_metadata_`, `cap`
its `max_size_`, `total` its `total_bytes_read_`, `cached` its
`has_cached_metadata_`. `skip` says that the action for the current child is
`kSkip`, `own` that the action of the element's own begin event is. `begun` is
`begin_done_` or `started_done_`. A parser without children has in `left` what it
has still to read. `ParserFor` gives the parser for a child: its own, `Unknown`
or `Skip`.

`pc` is `idle` between two calls of `Feed` and `feed` in one. `WouldBlock`,
`NotCompleted`, `EndOfFile` and the errors are the ways for `Feed` to return. A
reader can run dry before every unit, and a callback can refuse every event that
it is told of; where a `SkipCallback` stands in for it nothing can be refused. A
parsing error sticks until `DidSeek`. `events` is what the callback has
completed, each event with its kind, its element and the element's position; 0 is
the unknown position of an element around a seek. Void and unknown elements and
`Ebml` have an end event only.

A header is three units, two for the ID, so that `Feed` can stop inside an ID and
behind it; the header of a block is one. Each kind of parser is there once:
Segment, Cluster and BlockGroup with their own begin events, Cues for the
master elements that have none, Timecode, CuePoint, Ebml and BlockDuration for
elements whose inside is left out. A callback always sets the action it is
asked for. Lacing is in `Lacing` and values are in `WebmElements`; IDs and sizes
that are badly encoded are left out.

### From the code to `MuxElements`, `MkvElements` and `WebmElements`

An element is its id, its value as a sequence of numbers, its children and the
size its header declares. Objects of mkvmuxer are records whose fields are named
by the elements they become; `Fields` lists what a `Write` function writes,
`FieldsSize` sums what the matching size function counts, and the two lists are
translated apart, from the two functions. Sizes of integers have all eight cases of
the code; the runs use numbers of up to four bytes. Floats take whole values. A `Parse` function of mkvparser is a set of rules: which
children it knows, which values it takes, what stands if there is none; the last
of a kind wins. A parser of webm_parser names a value parser for each child, and
the structs of `dom_types.h` give the defaults. `ReadFile` gives a file to both
parsers as it was written, with the children of structs in reverse, with Void
elements between them, or with one kind of element emptied.

### From the code to `CuesFirst` and `ParserSeek`

`calls` is the stack of `MoveCuesBeforeClustersHelper`, which calls itself for all
points whenever one has grown; `cues_size` is the sum its calls share. Sizes are
those of the elements, so that a position which passes 2^8 or 2^16, and Cues that
pass a size of 126, are there. The second file is not copied; `ClusterPos` is where it has
its clusters. In `ParserSeek` clusters are loaded in order by `LoadCluster` and
have known sizes; `preloaded` are those that a point led to before. `m_pos`,
`m_count` and `m_preload_count` are the members of `Cues`, with a child taking one
unit; from `file.cut` on a child reaches beyond the Cues' end, and the points in
`file.bad` do not parse. `GetNextEntry` moves the block that the caller holds.

### From the code to `Lacing`

`state` is `state_` of `BasicBlockParser`, the other variables are its members;
`uint_parser_` are the bytes of the number in progress. A byte is chosen when it
is read, and `Feed` may return before each. `Skip` may begin in any state. A byte
has `kByteBits` bits (4 for 8) and a word `kWordBits` (16 for 64), so that numbers
of several bytes and differences that wrap are in reach. `Parse` is `Block::Parse` of
mkvparser; it reads `payload`, what the other read, as a whole.

### From the code to `PesFormat` and `M2ts`

A file is a sequence of bytes. `WritePesPacket` puts a frame's packets into it,
with the start codes of each fragment escaped and the header of a superframe's
frames only where the code writes one. `PacketizeOne` writes one
transport packet. `ParseNextPacket` and `AccumulateFragment` are `VpxPesParser`,
whose `payload` outlives a call that fails. A presentation time is the set of its
bits. `beyond` is the byte that the parser reads behind its data (`raw_data + i >
end_of_input`, `vpxpes_parser.cc`), any value.

### From the code to `WebVtt` and `VttMetadata`

A text is a sequence of characters. WEBVTT, the arrow and the byte order mark are
one character each; a space stands for the tab too; no text has a NUL, which
`ParseTimingsLine` uses as its own mark. `rest` is what has still to be read, with
the character put back in front. `pc` is `load` between two files, `first`,
`timings` and `payload` at the three places where `Parser::Parse` reads a line,
`mux` between two frames of the video, `open` and `demux` in vttdemux. Muxer and
parser between the two are what they are to these programs: blocks in the order
of the calls, and chapters. Every block of the video is copied, and the muxer
refuses none. Hours have two digits.

### From the code to `Vp9LevelStats`

A frame is the fields of its uncompressed header; the code keeps those that a
frame does not give from the frame before, which is `parser`. `PrintVP9Info` is
one frame, the next one of a superframe or the first of the next packet. Doubles
are fractions. `refs` and `stream` are history: what a decoder takes the frames'
sizes for.

## 3. What is checked

### The muxer

Run `mux` checks, over all sequences of up to four `AddFrame` calls with
`ForceNewClusterOnNextFrame` and `Finalize` anywhere between them:

* `TypeOK`;
* `QueueFitsCluster`: a queued audio frame is always within a block's reach of
  the open cluster, so that `WriteFramesLessThan` never meets a frame that its
  cluster refuses because of its time;
* `UndefinedOnlyIfUnfit`: a deleted frame is read only when a frame was invalid,
  out of order, behind a gap larger than a block can bridge, or too far ahead of the
  first cluster with nothing but audio before it. A feed without any of these is
  one that fits (`FeedFits`);
* `TrackOrderKept`, `FileInTimeOrder`: queueing, holding back and merging keep
  each track's order and the order of time;
* `NothingLost`: of a feed that fits an accepted frame is in the file, held back
  or queued, nothing else is, and after a successful `Finalize` all are in the file;
* `CuesExact`, `SeekHeadExact`: positions, block numbers and sizes computed
  while writing name what ended up in the file. With accurate cluster durations
  cues are made early; of those `CuesLead` says, for feeds that fit, that they name
  the cluster, and a number not behind the block;
* `LastBlocksHaveDuration` (action property): with accurate cluster durations and a
  feed in time order or of which no frame was refused, when a frame opens a cluster the
  last block of each track in the one before lasts until exactly that frame, modulo
  `WordSize`, unless its caller gave it a duration;
* `ClosedClustersStay` (action property): a finalized cluster never changes;
* `CallsReturn` (liveness): every call returns, in particular the endless loop of
  `DoNewClusterProcessing`; and (`FinalizeSucceeds`) `Finalize` of a feed that fits
  succeeds, but for chapters, tags and cues together, which the seek head has no room
  for, and for a last cluster whose frame was refused before there was a header.

Run `mux_lost` shows that the code does not do what a comment of it says: `Finalize`
promises to write all frames that are left and returns true, but audio queued before
the first video frame is dropped when it is further from the first cluster than a
block can be.

Three more disagreements with comments were met here and have no run of their own.

* With accurate cluster durations a cue has the number of the block before the one it
  is for, or 0, because the frame is still held back when `blocks_added` is asked
  (`mkvmuxer.h:1542`). `CuesLead` and `PointsFindBlocks` show that mkvparser finds the
  block nevertheless.
* After a gap in time the new cluster takes the time of a queued frame from before
  the gap and refuses the frame that made it. The test result of 2 that would repeat
  the test (`mkvmuxer.cc:3936`) is never given, because `AddGenericFrame` has set
  `force_new_cluster_` for the same reason first.
* Audio may be queued before a video frame of an earlier time is added. If both get
  into one cluster and the next is opened at that earlier time, the audio's duration is
  an unsigned difference below zero. Feeds of the run do this, and
  `LastBlocksHaveDuration` says what becomes of the duration.

Bounds. Four calls (`MaxCalls`) are what it takes for the longest stories:
queue an audio frame, open a cluster with a video frame, queue another, close
the cluster with a video frame that flushes both queues. Times 0, 2 and 5 with
`MaxBlockTimecode = 3` give each relation a pair of frames can have (the same
time, in reach, out of reach, in reach of a frame that is itself in reach). One
audio input needs a BlockGroup (`DiscardPadding`) and has no key flag, so that
references come in. `maxSize` 20 is reached by two blocks. `Scale = 1`: times
are timecodes; `WordSize = 4096` is larger than any sum, so that a wrap would be
seen as a large number. One audio input has a duration of its own. The four
configurations are file mode with chunking, file mode with accurate cluster durations,
and live mode, the three ways the flow of control differs, and file mode with chapters,
which fill the seek head; all have tags and cues.

Fairness. `Spec` has weak fairness of `Step`, the steps of a running call: code
that runs keeps running, it waits for nothing. Nothing obliges the caller to
make another call.

Deadlock is checked: `Terminated` is the only step after `Finalize` and after
undefined behaviour.

### The parser

Run `parser` takes three kinds of files through every order of calls: files without
fault, clusters of unknown size in a stream without an end and in files, and files
with a fault or that lead `ParseNext` astray. `Faultless` and `Ordinary` say of
which files a property speaks; `KeptClusters`, `CursorOnElement` and `EntriesExact`
speak of all.

* `ArrayInOrder`: the array stays sorted by position, without a cluster twice,
  loaded clusters in front and numbered, however cues, looking ahead and loading
  alternate;
* `KeptClusters` (action property): a cluster or block that the caller may have
  a pointer to is never dropped, moved out of its order or made again;
* `CursorOnElement`: in well-typed states `m_pos` is at an element, at the end, or
  stands for the one cluster of unknown size that is being parsed;
* `EntriesExact`: a cluster's entries are the blocks of the file in order, all
  of them once its end is reached, and a size found by parsing is the right one;
* `NextIsSuccessor`: `ParseNext` and `GetNext` return the cluster that follows,
  whether it was loaded, preloaded or unknown, and none only if there is none; and
  no call finds fault with a file that has none, whatever part of it has arrived, but
  for `ParseNext`, which fails on a preloaded cluster of which nothing has been parsed;
* `LoadsAll`: `ParserClusters` implements `ClusterList`: the file's clusters become
  known in their order, and a caller who goes on calling `LoadCluster` gets every
  cluster and is told the end;
* `CallsReturn` (liveness): the loops of a call end.

Where the code does something else than its comments say:

* `ParseNext` reads the ID of a preloaded cluster whose size it does not know without
  the bit that marks its length, and compares it with one that has the bit
  (`mkvparser.cc:2772`): it fails on every such cluster, and `NextIsSuccessor` says that
  it fails on no others. Only a caller who has parsed something of the cluster before
  comes to the next;
* `DoParseNext` reuses `pos` in its search of the preloaded clusters
  (`mkvparser.cc:3012`). If the cluster it looked at has no blocks, the position it
  goes on from is wrong, and `ParseNext` may return the cluster it was given, or
  one twice, or read where no element begins, or go round for ever. `Ordinary`
  excludes these files: in them a cluster that a cue point names, or that is behind
  one, has a size and blocks and is not cut off;
* a cluster of unknown size without blocks at the end of a complete file is never
  passed over (`mkvparser.cc:6994`, against `mkvparser.h:1074`): `LoadCluster` asks
  for more data for ever. `RealClusters` leaves it out of what is promised.

Bounds. The files are of 6 to 40 units and cover: a cluster without blocks in
front of, between and behind others; the three forms of a block; `Cues` between
clusters; a last cluster or block that is cut off; sized and unsized clusters
mixed; a Segment of known and of unknown size; a reader that knows the length of
the file and one that does not. `arrivals`, the lengths at which the caller may
look, are in the long files the ones that end within a header's cluster, behind
a header, within a block and behind it; the short ones grow by every unit.
`LayoutAssumption`, which TLC evaluates on these files, says how elements lie in a
file: one behind the other up to the Segment's end, the children of a cluster
within it, one Timecode before a cluster's blocks; and that cue points name
clusters. A cue point that names an empty cluster which loading has already passed
over makes `FindOrPreloadCluster` put it into the preloaded part out of order; the
muxer writes no such cue.

Fairness. `Spec` has weak fairness of `Step`: a call that runs keeps running.
`LoadsAll` is checked under `LoadingSpec`, which adds that a file that can grow
does and that the caller calls `ParseHeaders` and `LoadCluster` again and again;
strong fairness, because other calls come between and disable them for a while.
That is a condition on the caller, the loop in the samples and in `Segment::Load`
meets it.

Deadlock is checked: `Terminated` is the only step once garbage has been read or
the headers have been found at fault.

### The callback parser

Run `webm` reads documents of one to fifteen elements and checks

* `CountersExact`: in well-typed states every parser of the chain agrees with the
  reader on how far it is, after every return from `Feed` and over headers read for
  another parser; and none has read beyond its end, or that of a parser around it, but
  for the header that the innermost is about to refuse;
* `DeliversInOneGo`: `WebmParser` implements `InOneGo` with the script that
  `WebmDocument` computes for the document: however it is cut up, whatever event
  the callback skips and wherever it is entered, the callback is told what it
  would be told in one go, nothing twice, nothing of what it skips, and in the
  end, if the document is whole, everything;
* `PositionsTrue`: an event's position is that of its element, whatever was cached,
  sought or skipped before.

`element.h:163` calls an element's position that of the first byte of its header.
`DocumentParser` does not keep to that: it overwrites the position in the header that
it takes over from a Segment of unknown size with the reader's
(`webm_parser.cc:174`), which is behind that header. The element that ends such a
Segment is told of a header too far, and so is the position its parser knows. `IsLate`
names these positions; no other parser and no other element has them. `Twice`, two
live streams one behind the other, reaches them with an `Ebml`, a Segment and a
CuePoint, and with a callback that skips the late event; the script of `WebmDocument`
has them too (`EndsLate`).

Run `webm_skip` finds events that go astray: the parser of a skipped child of
unknown size is run with a `SkipCallback`. If that child is the BlockGroup that
begins its Cluster, the Cluster's begin event goes to the `SkipCallback` and all of
the Cluster is skipped.

Bounds. The documents of `webm` have every parser with known and with unknown
size where the code allows it; an element of unknown size ended by its parent's
end, by a successor at its own level, at its parent's, two levels up and behind the
Segment, and by the end of the file; Clusters without blocks; empty and foreign elements; an end
of the file in an ID, in a size, in a header and in a block; and every error that
is modelled. `Skipping` lets the callback skip each event of a document in turn,
and one seek to any element goes with it. Two events that are skipped in one
document, and a second seek, are not tried: `DidSeek` sets up the parser anew, and
what is skipped inside a skipped element is not told of in any case.

The documents of `webm` avoid what `webm_skip` and the hazard at
`master_parser.cc:248` are about: no BlockGroup of unknown size is skipped itself, and
no empty element ends an unsized Cluster at its Segment's end. Both concern
`DeliversInOneGo` alone; the proofs of the other two exclude neither.
`WebmFilesAssumption`, which TLC evaluates on these documents, says how elements lie
in one: another begins, or the file ends, where an element of known size ends, and
behind the header of a master element or one of unknown size. An element may be cut
off by the file's end or reach beyond its parent's, which are errors that the parser
finds. What bytes mean where no element begins is left out; IDs and sizes that are
badly encoded are.

Fairness. Weak fairness of `Feed`: the caller feeds the parser until it is done.
Strong fairness of `Progress`: a reader does not block for ever and a callback
does not refuse for ever. Both are conditions on the environment that a caller who
wants the document to be read has to meet.

Deadlock is checked: `Terminated` is the only step once the document is complete
or has been found at fault and no seek is left.

### The elements around the frames

Run `elements` makes up to four calls of the setters and of `AddTrack`,
`AddChapter`, `AddTag` and the like, writes what was set, and reads it with both
parsers.

* `NumbersUnique`: no two tracks have one number, however explicit and automatic
  numbers mix;
* `MkvReadsBack`: the size in the header of every master is what is written behind it,
  and mkvparser takes what mkvmuxer wrote unless a track does not fit its type, and
  gives back what was set. The exceptions are spelled out: content
  encodings end at the first whose scope is 0, a text without characters comes back
  as none, a tag without simple tags is passed over, and a chapter's UID with its first
  bit set comes back negative (`mkvparser.cc:3532`; `MakeUID` keeps
  to 7 bytes to "avoid problems with 8-byte values", `mkvmuxerutil.cc:617`, but a
  caller may set any number);
* `WebmReadsBack`: webm_parser takes everything and calls back, in order, with each
  field that was written present and the others at their defaults; a default that
  follows another field follows it also when the element is empty.

Bounds: the values cover one, two and more bytes, every field that a default or
another field replaces, and refused values. Four calls reach a track with an
encoding with a key, a colour with mastering metadata, and two tracks beside a
chapter with its display. The elements that are emptied are those with a default of
each sort.

What the modelling found beside the above: an automatic number may become
larger than `kMaxTrackNumber`, which `AddTrack` checks in the requested number only
(`mkvmuxer.cc:1747`); `AddChapter` and `AddTag` return pointers into an array that the next
call moves; a maximum luminance alone makes mastering metadata invalid in mkvmuxer;
a sample rate of 0 is written and then refused; mkvparser refuses a Void element
in Colour, MasteringMetadata and Projection, where webm_parser passes it over; and
one track that it refuses makes it refuse all. `AddTrack` looks for "the lowest
availible track number > 0" (`mkvmuxer.cc:1777`) but begins to look behind the number of
tracks, so that with one track, number 5, the next becomes 2 and not 1.

### Cues first, and seeking

Run `seek` takes files with their Cues behind the clusters, moves the Cues in
front or leaves them, and seeks and walks while points and clusters are loaded.

* `CuesMoved`: every point and the seek head name the place where the cluster they
  named before is in the second file, with every growth taken into account;
* `PointsFindBlocks`: a loaded point leads to a block of its track and time if its
  cluster has some and all of them may be sought, also when its block number is off
  by one. Where only some may be (a key frame beside another frame of its time), the
  search behind a wrong number looks at the first of them alone and gives up;
* `SeekExact`: `VideoTrack::Seek` finds the last key frame up to the time in what is
  loaded. At the time of the track's first key frame it returns that one at once, even
  if others of the same time follow;
* `SeeksAgree`: seeking by Cues and by clusters lead to the same time as far as there
  are points;
* `WalkFollows` (action property): `GetNext` comes to a track's blocks in order, and
  stops short only behind `kMaxWalk` clusters without one or where nothing is loaded;
* `PointsLoad` (liveness): loading points ends, with all of them unless a child of
  the Cues is at fault.

Bounds: `kMaxWalk` is 3 for 100. The files have points for some key frames only,
clusters without video and without blocks, a gap as long as a walk, several frames at
one time, and nine clusters each at positions where a coded position or the Cues' size grows by a byte
while they move. One cluster is preloaded at a time. Fairness: weak, of `LoadsPoint`
and of the recursion: `OutputCues` of `webm_info.cc` (line 1078) calls `LoadCuePoint`
until `DoneParsing`.

Found beside: `Cues::Find` may lead to a point that has no position for the track
although an earlier one has (a TODO at `mkvparser.cc:2065`); an audio track's
`Seek` returns the cluster's first block, not the one at the time; without Cues
`MoveCuesBeforeClusters` overwrites entry 0 of the seek head; its recursion is as
deep as there are points that grow.

### Lacing

Run `lacing` feeds every block of 5 to 11 bytes in every lacing.

* `ParsersAgree`: however the block is cut up, webm_parser delivers the frames that
  mkvparser finds; it takes more only where a frame is empty or a size wrapped;
* `FramesFillBlock`: the frames follow each other to the block's end, and the bytes
  that the calls of `Feed` report are the block's, also when it is skipped midway.

Found beside: with EBML lacing and one frame mkvparser expects a size and
webm_parser none; with fixed lacing webm_parser's positions lack the header's size
(`block_parser.cc:219`, against `dom_types.h:44`); its sizes are unsigned, and a
difference below zero wraps and may pass the check of the sum; it may read lacing
from behind the block before it fails. Bounds: at most five bytes are read as
lacing, byte values include every length of a number, the smallest and the largest.

### m2ts

Run `m2ts` sends up to three frames of nine kinds through PES packets and transport
packets and parses the PES file, whole or cut off.

* `TsCarriesPes`: every transport packet is full, and their payloads one behind the
  other are the PES stream as far as it is packetized;
* `FramesComeBack`: the frames that come out are those that went in, one for one; a
  frame that the stream cannot carry damages no other, and one that is cut off by
  more than a byte does not come out.

`m2ts_times` shows that times do not come back: `SetPtsBits` does not mask what it
shifts (`webm2pes.cc:62`), which mixes up times of 2^22 ticks (46.6 s) and more,
and the parser puts 33 bits into an int.

`Plain` names the frames the stream cannot carry: besides such times those with
three zeros before a 1 or a 3, which the writer escapes and the parser does not unescape, and
those whose first fragment has an escape, since that fragment is copied as it is
(`vpxpes_parser.cc:264`, against `vpxpes_parser.h:157`). The continuity counter of
transport packets starts anew with each frame (`vpxpes2ts.cc:105`). Bounds: a PES
packet has four bytes for 65535 and a transport packet nine for 184, so that
three bytes make one packet, four fill it and five need a fragment, and stuffing of
every length occurs.

### WebVTT

Run `vtt` takes texts of up to three cues, damaged at any one place, with every line
end, alone and in pairs of kinds, through sample muxer and vttdemux.

* `LoadsWhatIsWritten`: a text is loaded exactly if it is one of cues in order of
  time, and the cues are those it has by its lines;
* `BlocksInOrder`: blocks are in order of time over all tracks, and no cue is left
  for later once a frame that does not begin before it is written;
* `CuesComeBack`: what vttdemux writes is, read again, the cues that went in, in a
  text for each track and one for the chapters, and vttdemux refuses a file exactly if
  some cue does not last. Of the times it speaks if `ParseTime` reads their fractions
  as `WriteCueTime` writes them.

These exceptions are what the code does: `ParseTime` does not count the digits
behind the point (`webvttparser.cc:487`), so .050 is half a second, and vttdemux's own
`%03lld` is misread below 100 ms; a cue whose stop is its start is written as a
SimpleBlock, against the comment at `sample_muxer_metadata.cc:373`, and vttdemux gives
up the file at it; a chapter loses its settings. A timings line that is written anew
may become longer than a line may be; no text of the run does so.

Bounds: two frames of video at four times around those of the cues, a line length of
40 for 10000 with a line of 40 and one of 41.

### VP9 levels

Run `vp9` adds every stream of up to five frames of eight kinds.

* `StatsExact`: each number that is kept frame by frame is the stream's, computed
  from the whole: the samples of the fullest second, the bytes of the fullest
  window, the closest alternate references, the slots refreshed between key frames;
* `LevelFits`: the level is the lowest within whose limits the stream is, or unknown
  if it has not the level's distance and compression.

`StatsExact` speaks of streams whose frames, if they take their size from a
reference, have that of the frame before, as the comment at
`vp9_header_parser.cc:102` assumes. A level without a CPB size does not limit the CPB.
`LevelFits` says where `GetLevel` is no judge: a stream with fewer than two alternate
references is always unknown, and a number that is beyond all limits does not count, a
CPB beyond the largest CPB size included (`vp9_level_stats.cc:179`), so that the stream
gets a level it does not keep to, against the comment at `vp9_level_stats.cc:211`. It
leaves out streams with more references than the level allows that the other numbers
ask for, since that limit falls where the others rise (`vp9_level_stats.cc:199`).
A single frame has a bit rate that is not a
number, which no comparison minds. `webm_info` drops the rest of a superframe behind a
header that it cannot read. Bounds: `kCpbFrames` 3 for 4 and `kSecond` 2 times for a
second, both exceeded by five frames over three times; `Table` has four rows of the
shape of the code's fourteen, without a CPB size in the last, which streams of the run
reach, and with a limit on references that falls; bit rates are bytes per second.

## 4. What is proved

The muxer's `Segment` and its `AddTrack`, mkvparser's `Segment`, the Cues that move to
the front, seeking, webm_parser, the lacing of blocks in both parsers and m2ts's transport
packets are proved about: what follows holds for all values of the constants, not only for those of the runs.

| theorem | module | states |
|---|---|---|
| `TypeCorrect` | `MuxSegmentProofs` | `Spec => []TypeOK` |
| `QueueAlwaysFits` | `MuxSegmentProofs` | `Spec => []QueueFitsCluster` |
| `ClosedNeverReopened` | `MuxSegmentProofs` | `Spec => ClosedClustersStay` |
| `SeekHeadTrue` | `MuxSegmentProofs` | `Spec => []SeekHeadExact` |
| `CuesTrue` | `MuxSegmentProofs` | `Spec => []CuesExact` |
| `TrackOrder` | `MuxSegmentProofs` | `Spec => []TrackOrderKept` |
| `FileOrder` | `MuxSegmentProofs` | `Spec => []FileInTimeOrder` |
| `UndefinedOnlyUnfit` | `MuxFitProofs` | `Spec => []UndefinedOnlyIfUnfit` |
| `NothingIsLost` | `MuxFitProofs` | `Spec => []NothingLost` |
| `CursorTrue` | `ParserProofs` | `Spec => []CursorOnElement` |
| `ClustersKept` | `ParserProofs` | `Spec => KeptClusters` |
| `LoadsInOrder` | `ParserProofs` | `Spec => List!SafeSpec` |
| `ArrayOrdered` | `ParserProofs` | `Spec => []ArrayInOrder` |
| `EntriesTrue` | `ParserProofs` | `Spec => []EntriesExact` |
| `NextTrue` | `ParserProofs` | `Spec => []NextIsSuccessor` |
| `CuesTrueWhenMoved` | `SeekProofs` | `Spec => []CuesMoved` |
| `PointsLead` | `SeekProofs` | `Spec => []PointsFindBlocks` |
| `SeekFinds` | `SeekProofs` | `Spec => []SeekExact` |
| `WalkComplete` | `SeekProofs` | `Spec => WalkFollows` |
| `TypeCorrect` | `WebmProofs` | `Spec => []TypeOK` |
| `CountersTrue` | `WebmProofs` | `Spec => []CountersExact` |
| `PositionsTold` | `WebmProofs` | `Spec => []PositionsTrue` |
| `ParsersFindSame` | `LacingProofs` | `Spec => []ParsersAgree` |
| `FramesFill` | `LacingProofs` | `Spec => []FramesFillBlock` |
| `TsCarries` | `M2tsProofs` | `Spec => []TsCarriesPes` |
| `TracksToldApart` | `MuxElementsProofs` | `Spec => []NumbersUnique` |

A proof has one lemma per action, or per group of actions that change the same
part of the state, and a last step of temporal logic. The invariants below were
checked by TLC with the constants of `MCMux`, `MCParser`, `MCSeek`, `MCWebm`, `MCM2ts` and
`MCLacing.cfg` before they were proved.

### The muxer

Assumptions: `ClusterAssumption` and `SegmentAssumption`. Track numbers are positive
and distinct, video and audio disjoint, there is at least one track, and inputs and
settings have the types of `AddFrame`'s arguments and of the settings. Nothing is
assumed of times, sizes, the reach of a block, the order of calls or their number.

`IInv == TypeOK /\ CallState /\ WaitingByTrack`. `TypeOK` is not inductive. A step
at `close` takes the last cluster of the list and one at `write` the track of the
running frame: types survive only if there is a cluster and the frame is one that
was accepted. `CallState` says, for each `pc`, what the call that stands there has
established; `WaitingByTrack` says that the queue holds frames of the segment's
tracks and that a cluster's held back list of a track holds frames of that track.

`QueueInv` extends `QueueFitsCluster` to the places inside a call. While the old
cluster is being flushed and closed its queued frames still fit it; from the moment
it is closed until the new one has taken them the queue is unconstrained and the
property does not speak; once `WriteFramesAll` has emptied the queue it fits again.
The step that matters is `QueueFrame`: its guard is exactly that the frame is in
reach of the cluster.

`OpenInv`: at most the last cluster is open, and where the code writes to the last
cluster or opens another it is, or is about to be, finalized.

`PlaceInv` has no sum over the clusters, which would need an induction: each cluster
begins where the one before it ends (`ClustersChained`), the writer is at the end of
the last (`WrittenExact`), and the loop of `MaxOffset` has come to the end of the
cluster in front of its index (`OffsetExact`). `Shift` is the difference between the
code's positions and the offsets in the payload, which is not zero in a live stream
in chunks. With `HeaderFirst`, and `SeekExact` for the entries from where they are
set to the end of `Finalize`, this gives `SeekHeadTrue`.

`CuesInv` is about settings without accurate durations: no frame is held back, the
flag `new_cuepoint_` is set only while the last cluster has no block of the cues'
track and no cue (`CueDue`), and every cue is that of one cluster and of its first
block of the track. A new cue differs from all others because clusters have
different positions, which `ClustersChained` says.

`OrderInv`: along the file, then the frames held back, then the queue, the ids of a
track's frames rise. `QueueFrom` leaves out the queue's front while it is in a
cluster's list too, between the two halves of `QueueOrWriteFrame`. For times frames
of different tracks have to be compared: with a feed in time order the ids order
the times, and a frame that is queued has a larger id than any that is written or
held back. After undefined behaviour only what is in the file still counts.

`FedInv == PlacedInv /\ TakenInv /\ FitInv` is for feeds that fit. `TakenInv` still
holds of every feed: the queue is the end of what was accepted; until there is a
cluster it is all of it; after `WriteFramesLessThan` at most one frame that is not
later than the new one stays queued. `FitInv` is `FeedFits => FitFacts`, and
`FitFacts` says for each place of a call that the frame, the frame before it and
what waits can be in the cluster that is or will be open. The difficulty is that
`accepted` grows only when the call succeeds, so that in its middle `FeedFits` speaks
of the feed so far. `Joins(f)` therefore says that the feed would still fit if f were
accepted now; a frame that does not join may be refused, one that joins may not, and
no frame that was accepted is refused by a cluster later. Both theorems follow.

### The parser

Assumptions: `FilesAssumption` and `LayoutAssumption`, which say what a file is (see
the bounds of run `parser`). Clusters of known and of unknown size, without blocks or
cut off, are among these files, and so are Segments without a size and without an
end. `ArrayOrdered` and `NextTrue` speak of `Ordinary` files, as the properties do;
the other theorems of all.

`LoadInv == ArrayInv /\ CallInv` adds to types and position that every cluster of the
array is in a state that parsing can leave it in (`Parsed`), and that exactly the
clusters with blocks in front of the position are loaded (`LoadedSoFar`). A step of
loading then makes the next one known, or none, which is `LoadsInOrder`:
`List!SafeSpec` is `LoadsAll` without its liveness.

`OrderInv` of the parser adds, for an ordinary file, that what is preloaded is at or
behind a cue point (`CueReached`), where no cluster is without blocks, and that
`DoParseNext` is behind a preloaded cluster (`WalksBehind`). It rests on what the
binary searches find. `Search` is a recursive function on the window that is left;
`SearchDefined` and `SearchFinds` are proved by induction on the window's length,
with the property as a set of numbers (`NatSetInduction`), since the library's
induction theorems take an operator.

`AllExact` says of every cluster what `EntriesExact` says, without its last conjunct,
which follows: in its place it has that a cluster whose size was found by parsing
has been parsed to its end.

`NextInv`: the headers are marked as found exactly when the position has passed
them, a call that loads for `ParseNext` began at the last loaded cluster, and the
walk of `DoParseNext` has passed over no cluster with blocks (`WalksFrom`). `Fails` says
that a call has failed only as `FailsUnparsed` allows: a cluster that is loaded and has a
size in the file knows its size, so that the branch that fails is for the others.

### Cues first, and seeking

Assumptions. `NullAssumption`: no number is a null pointer. `FinalizedAssumption`: the
points are records of numbers, and the seek head has the first cluster's position, as
`SeekHeadTrue` says of the muxer. `ClustersAssumption`: positions rise from cluster to
cluster (`ClustersChained`) and times do not fall, no block is before its cluster's time,
and the blocks of a track are in the order of their times, which is what a feed in time
order becomes (`FileOrder`; a frame older than the last written is refused,
`mkvmuxer.cc:3502`); a point's number is that of a block in its cluster, since
`AddCuePoint` takes it from `blocks_added()`. A number of 0 is left out of the file and
read as 1. The binary search over the clusters' times, too, needs them in order.
`KidsAssumption`: the Cues have all points, among other children. `WalkAssumption` and
`TypesAssumption` are types. Nothing is assumed of sizes, of the growth of positions, of
key frames, of the order of different tracks, of children that do not parse or of the
lengths of the walk.

`PointsInv` is about moving the Cues. The recursion ends when no call is left, and
what has to be known in its middle is `Owed(calls, i)`: what the calls on the stack will
still add to point i, each that has not passed it by its own amount. For every point,
its position and what it is owed make its old position and the size that the Cues have
now (`Moving`). A step pays a point what its call owes it; if the Cues grow by that, the
new call owes the growth to every point. `cues_size` is the sum of the points' sizes, so
that `Growth` is the growth of the whole element, with its header. The sizes rise with
the numbers (`SizesOfNumbers`), hence no growth is negative. That the recursion ends
is not needed for `CuesMoved`, and is left to TLC.

Sums are `SumOf`, a recursive function on a sequence's indices. Induction over data is
out of the prover's reach as such; here it is induction on the length, with the
property as a set of numbers (`NatSetInduction`). `SumAppend` and `SumChange` say what a
sum becomes when an element is added or changed.

`SeekInv` adds that a file is not read while it changes (`LoadedInv`), that no more
points are loaded than the children in front of `m_pos` have, and that the caller holds
a block of the file or none. The rest are facts about the searches, one lemma
for each: `FirstIs`, `EntryAtIs`, `SeekIs`, `EntryOfPointIs`, `NextIs` say what `GetFirst`,
the two `GetEntry`, `Seek` and `GetNext` return. `SeekVideo` combines them: a cluster
behind the one in which `Seek` finds its frame begins behind the time or has no
candidate up to it, and a cluster in front has none that is later.

### The callback parser

Assumption: `WebmFilesAssumption` (see the bounds of run `webm`). Nothing is assumed of
sizes, of how elements nest, of where a document is cut into pieces, of what the
callback skips or refuses, or of where and how often the caller seeks.

`WebmInv` is about the stack. `CountersExact` is not inductive: a parser is made from a
header that its parent has read long before, or was handed by a child that refused it.

* `ChainInv`: only the innermost parser is anywhere but in a child's body; what holds
  them all is the document and, if there is a master element below it, a Segment.
* `AnchorInv`: every parser knows the element that begins at `Origin`, the reader's
  position less what it has counted and less its header: where it begins, its size and
  its kind. Those that were set up around a seek know none, and have no size. A
  position that came with a header is right as long as every parser on the stack
  counts each unit that is read (`Read`), a refused header included, and none is made
  or dropped within one.
* `TopInv`: what the innermost parser knows of the header it is in, by how far it is in
  it (`AtHeader`), also when another has read it (`Held`); a cached header is that of
  an element that is none of its children; a parser without children counts down
  what it counts up (`Leaf`); and what it has accepted or refused fits (`Fits`).
* `CapInv`: of two parsers the inner has no more left to read than the outer
  (`Within`). With `Fits` for the innermost alone it bounds all of them: the header that
  crosses the end of a parser crosses that of the innermost first.
* `SeekInv`: while `did_seek_` is set there is no master element yet, and no header is
  late. It is why `Surround` may set up parsers below the document, and why a late
  position is never one that a seek has led to.

`PositionsTrue` follows from `AnchorInv` and `Held`, which every event is told from.

### The lacing of blocks

Assumptions: `LacingAssumption`, that a byte has more than one bit and a block more bytes
than its header; `WordAssumption`, that a word is wider than a number of as many bytes as
a byte has bits by a byte at least (64 against 56 and 8), that a block's size is such a number,
which is how it is coded, and that no block has lacing of 2^56 bytes. Nothing is assumed of
the bytes, of where the calls of `Feed` stop, or of whether the lacing fits the block.

`FillInv` counts. Before the frames are read, what the calls have reported is the header with
the lacing. `Planned` are the sizes of all frames, whether they were delivered, are being
read or wait; `lace_sizes_` loses what is read of each, and the two sums differ by what has
been reported since (`FramesCounted`). The difficulty is `ValidateSize`, whose sum is a word:
that the planned frames fill the block is true only if none is larger than it. Then
there are too few of them to wrap (`NoOverflow`), since their number is one more than a byte;
one that is larger is never delivered.

`AgreeInv` speaks of all blocks that begin with the bytes read so far (`Blocks`), since
mkvparser has the whole block before it and webm_parser may still read lacing
when it has left the block. `InStep` says where mkvparser is: it has taken the same sizes
and has before it the bytes from where the size in progress begins (`Before`). If the lacing
passes the block's end, mkvparser refuses the block. With Xiph's lacing both have equal
sizes. With EBML's they need not: mkvparser's are signed and refused in the end if one is
not positive, webm_parser's are words and wrap. `SizesAgree` says that they are equal if
those of one parser are all within the block; a difference keeps this
(`AgreeMore`), because a size that would have to wrap to come back within the block
would take a difference wider than 56 bits. `SameFrames` follows where the last size is
made. `XiphSizes` and `EbmlSizes` are recursive functions on the number of sizes, as `Sum`, `Number`
and `TwoTo` are on theirs; what each step does is proved by induction on that number, with the
property as a set (`NatSetInduction`).

### The transport packets

Assumptions: `PayloadSizeAssumption`, that a fragment and its headers fit the 16 bits of
a packet's length; `TsPayloadAssumption`, that a transport packet has room for the two
bytes of an adaptation field and one more; `FramesAssumption`, that frames are bytes and
a time is a set of bits. Nothing is assumed of what the bytes are, of the frames' sizes or
number, or of whether they can be carried (`Plain`).

`TsInv`: the packet that `VpxPes2Ts` holds is the end of the PES file, and what it has
still to packetize (`bytesToPacketize`) is the end of that packet. Hence the payloads so
far are the file without this end, and a transport packet appends the bytes that come
next. What has to be seen at each packet is that the payload's size and the adaptation
field fill it exactly: `PayloadSizeFits` is about the two cases in which the code makes
room for the field, which is two bytes long even where one would do.

The properties speak of the concatenation of a sequence of payloads, `Concat`, which is a
recursive function on the sequence's indices; `ConcatAppend` is proved by induction on
its length. Most of the lemmas give types: everything that `WritePesPacket` puts together,
escaped fragments and superframe headers included, is a sequence of bytes, without which
nothing could be said of its length.

### Track numbers

Assumptions: `NumberAssumption`, that `kMaxTrackNumber` is a number; `SettersAssumption`,
that no caller sets a track's number by hand once it is added (`Track::set_number` is
public, and nothing checks it). Nothing is assumed of the number or the order of the
tracks.

`TracksInv` is `NumbersUnique` and that every track has a number. The step that matters
is an automatic number. The code counts up from the number of tracks plus one until
no track has the number; `FreeNumber` chooses among as many candidates as there are tracks,
and one more. `OneIsFree` shows by counting that n tracks cannot have all n + 1 of them:
so the loop ends, and within these candidates. `FreeNumberIsFree` follows, which says that
the number chosen is one that no track has. The theorem is about `Spec` of `MuxElements`, the
muxer's calls alone; run `elements` adds reading, which leaves the tracks as they are.

### What stays with TLC

* Liveness: `CallsReturn` of both, the progress that `LoadsAll` promises under
  `LoadingSpec`, `PointsLoad`, and what `DeliversInOneGo` says of the end.
* The rest of `DeliversInOneGo`: the script is computed by recursion over the
  document's tree.
* `SeeksAgree`. It needs every point to be at a key frame and the first key frame of a
  video to have one. The muxer does not see to that: it makes a point for the first
  block of a cluster, which is no key frame where a cluster ends by its size or duration.
* `LastBlocksHaveDuration`, `CuesLead` and `FinalizeSucceeds`, so far.
* What recurses over trees, blocks and texts: `WebmDocument`, `WebmElements`,
  `ElementProperties`, `VttMetadata` and the modules that extend them.
* So far, `FramesComeBack`, `StatsExact` and `LevelFits`.

## 5. What is not modelled, and why

* Writers and readers that fail, and memory that runs out: the error paths are many
  and lead out of every function.
* `AddCuePoint` called by the caller, settings
  changed after the first frame (chunking, cues): each is a small extension.
* `Segment::FindCluster`, `Cluster::GetLast` and the walks over blocks of clusters
  of unknown size; what the code does between an element's ID and its size.
* webm_parser's reader classes: `BufferReader`, `FileReader` and `IstreamReader`
  copy bytes. Two events skipped in one document, and a second seek.
* Bytes of IDs and coded sizes, byte order, and the bits of a VP9 header.
* common utilities (`file_util`, `hdr_util`, `indent`, `libwebm_util`,
  `webm_endian`): stateless conversions and file I/O.
* The samples and tools as far as they parse options and print; `dumpvtt`.
* Tests, fuzzers, build files.

`PROJECT.json` lists every component with its status, the source lines of every
definition, the hazards of the code with the properties that cover them, and for
every property a mutant of the model that breaks it.

## 6. Plan

1. The numbers that `StatsExact` speaks of, as sums over the windows.
2. An abstract specification of the muxer as an ordered log of accepted frames, the
   file being its prefix; `TrackOrder`, `FileOrder` and `NothingIsLost` are its parts.
3. Failing writers in the muxer.
