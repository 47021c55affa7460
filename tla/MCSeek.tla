------------------------------- MODULE MCSeek -------------------------------
(* Files for TLC.                                                          *)
EXTENDS SeekProperties

Block(track, time, key) == [ track |-> track, time |-> time, key |-> key ]
V(time) == Block(1, time, FALSE)
K(time) == Block(1, time, TRUE)
A(time) == Block(2, time, TRUE)

Cluster(pos, time, blocks) == [ pos |-> pos, time |-> time, blocks |-> blocks ]
Point(track, time, pos, number) ==
  [ track |-> track, time |-> time, cluster_pos |-> pos, block_number |-> number ]

\* The Cues are behind the last cluster.
File(clusters, points, kids, cut, bad) ==
  [ clusters |-> clusters, points |-> points, kids |-> kids, cut |-> cut, bad |-> bad,
    seek_head |-> [ id \in {"Info", "Cluster", "Cues"} |->
                      CASE id = "Info" -> 30 [] id = "Cluster" -> clusters[1].pos
                        [] OTHER -> Last(clusters).pos + 20 ] ]
AllPoints(points) == [ i \in DOMAIN points |-> "CuePoint" ]
Written(clusters, points) == File(clusters, points, AllPoints(points), Len(points) + 1, {})

\* Key frames with and without a point, clusters without video or without blocks.
Mixed ==
  << Cluster(60, 0, << V(0), A(0), K(1), V(2) >>), Cluster(80, 2, << A(2), K(3), V(4), K(5) >>),
     Cluster(100, 5, << >>), Cluster(120, 6, << A(6), A(7) >>), Cluster(140, 8, << V(8), K(9), A(9) >>) >>
MixedPoints(off) == << Point(1, 1, 60, 3 + off), Point(1, 3, 80, 2 + off), Point(2, 6, 120, 1), Point(1, 9, 140, 2) >>

\* Three audio clusters in a row: a walk of the video gives up.
Gap ==
  << Cluster(60, 0, << K(0), A(0) >>), Cluster(80, 1, << A(1) >>), Cluster(100, 2, << A(2) >>),
     Cluster(120, 3, << A(3) >>), Cluster(140, 4, << K(4) >>) >>
GapPoints == << Point(1, 0, 60, 1), Point(1, 4, 140, 1) >>

\* Frames at one time, of which the point counts the second.
Ties ==
  << Cluster(60, 0, << K(0), K(0), V(1), A(1) >>), Cluster(80, 4, << K(4), K(4), A(4), V(5), K(5), K(5) >>),
     Cluster(100, 5, << K(5), A(8), K(8), V(8) >>) >>
TiesPoints == << Point(1, 0, 60, 2), Point(1, 4, 80, 2), Point(1, 5, 100, 1), Point(1, 8, 100, 2) >>

\* A cluster for each point, from where on their positions take more bytes.
Growing(from, by, n) ==
  Written([ c \in 1 .. n |-> Cluster(from + by * c, c, << K(c) >>) ],
          [ c \in 1 .. n |-> Point(1, c, from + by * c, 1) ])

MCFiles ==
  { Written(Mixed, MixedPoints(off)) : off \in {0, -1} }
    \cup { File(Mixed, MixedPoints(0), << "CuePoint", "Void", "CuePoint", "CuePoint", "CuePoint", "Void" >>, cut, bad) :
             cut \in {3, 7}, bad \in {{}, {2}, {1}} }
    \cup { Written(Gap, GapPoints), Written(Gap, << >>), Written(Ties, TiesPoints) }
    \cup { Growing(80, 6, 9), Growing(110, 6, 9), Growing(125, 1, 9), Growing(65380, 12, 9) }
MCTypes == 1 :> 1 @@ 2 :> 2
=============================================================================
