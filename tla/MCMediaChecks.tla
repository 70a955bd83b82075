--------------------------- MODULE MCMediaChecks ---------------------------
EXTENDS MediaChecks, TLC

\* A fit stream for mov, and those that differ from it in one thing.
Picture == [type |-> "video", codec |-> "h264", width |-> 1920, height |-> 1080,
            rate |-> <<30, 1>>, avg |-> <<30, 1>>, tagged |-> FALSE]
Sound   == [type |-> "audio", codec |-> "aac", width |-> 0, height |-> 0,
            rate |-> <<0, 0>>, avg |-> <<0, 0>>, tagged |-> FALSE]

Pictures ==
  {Picture}
    \cup {[Picture EXCEPT !.codec = c] : c \in {"vp9", "mpeg4", "dnxhd", "vp8", "wmv3"}}
    \cup {[Picture EXCEPT !.width = w] : w \in {0, 15, 16, 7680, 7681}}
    \cup {[Picture EXCEPT !.height = h] : h \in {0, 15, 16, 4320, 4321}}
    \cup {[Picture EXCEPT !.rate = r] : r \in {<<0, 0>>, <<1, 2>>, <<120, 1>>, <<121, 1>>,
                                               <<1000, 1>>, <<90000, 1>>}}
    \cup {[Picture EXCEPT !.rate = <<90000, 1>>, !.avg = a] :
            a \in {<<0, 0>>, <<1, 2>>, <<121, 1>>, <<90000, 1>>}}
    \cup {[Picture EXCEPT !.tagged = TRUE]}

Others == {Sound, [Sound EXCEPT !.codec = "vorbis"], [Sound EXCEPT !.codec = "pcm_s16le"],
           [Sound EXCEPT !.codec = "ac3"], [Sound EXCEPT !.type = "subtitle"],
           [Sound EXCEPT !.type = "subtitle", !.tagged = TRUE]}

\* No stream, one, or a picture and another.
MCStreamSets == {{}} \cup {{s} : s \in Pictures \cup Others}
                     \cup {{s, t} : s \in Pictures, t \in {Picture} \cup Others}

MCSizes     == {49, 50, 500, 501}
MCMimes     == {"video/mp4", "application/octet-stream"}
MCDurations == {None, 0, 1, 100, 101, 1005, 1006, 29999, 30001, 8640001}
=============================================================================
