---------------------------- MODULE MediaChecks ----------------------------
(***************************************************************************)
(* What a file must be to pass the pipeline: the decisions of                *)
(* validation.py, scan.py, video_analyzer.py and thumbnail.py over what the  *)
(* tools they call answer.  An execution asks the tools in the order of      *)
(* _process_with_queue; each may answer anything, fail or time out.          *)
(* VideoQueue has StepPasses, StepFails and Raise for the three ways a step  *)
(* ends here, and everything that goes on beside it.                         *)
(*                                                                           *)
(* Sizes are in MB, durations in hundredths of a second, a frame rate is the *)
(* fraction ffprobe prints.  A stream is [type, codec, width, height, rate,  *)
(* avg, tagged]; its order among the others does not matter.                 *)
(***************************************************************************)
EXTENDS Integers, Sequences

CONSTANTS Sizes,       \* sizes of uploads
          Mimes,       \* types libmagic may find
          StreamSets,  \* sets of streams ffprobe may report
          Durations    \* durations it may report, None among them

None == -1

\* What ffprobe prints: a fraction has no sign in its denominator.
Streams == [type : STRING, codec : STRING, width : Int, height : Int,
            rate : Int \X Nat, avg : Int \X Nat, tagged : BOOLEAN]

ASSUME ChecksAssumption ==
  /\ Sizes \subseteq Nat
  /\ StreamSets \subseteq SUBSET Streams
  /\ Durations \subseteq Int

MIN_FILE_SIZE == 50
MAX_FILE_SIZE == 500
ALLOWED_EXTENSIONS == {"mp4", "webm", "mkv", "avi", "mov", "mpeg", "wmv"}
ALLOWED_MIMES == {"video/mp4", "video/webm", "video/x-matroska", "video/avi", "video/x-msvideo",
                  "video/quicktime", "video/mpeg", "video/x-ms-wmv"}

ALLOWED_VIDEO_CODECS == {"h264", "hevc", "vp9", "av1", "mpeg4", "png", "prores", "dnxhd",
                         "mpeg2video"}
ALLOWED_AUDIO_CODECS == {"aac", "mp3", "opus", "vorbis", "pcm_s16le"}
MAX_RESOLUTION == <<7680, 4320>>
MIN_RESOLUTION == <<16, 16>>
MAX_FRAME_RATE == 120
MIN_FRAME_RATE == 1
CONTAINER_CODEC_MAP ==
  [mp4  |-> {"h264", "hevc", "aac", "mp3", "png", "prores", "mpeg2video"},
   webm |-> {"vp9", "vp8", "opus", "vorbis"},
   mkv  |-> {"h264", "hevc", "vp9", "av1", "aac", "opus", "vorbis", "mp3"},
   avi  |-> {"mpeg4", "mp3", "pcm_s16le"},
   mov  |-> {"h264", "hevc", "aac", "mp3", "pcm_s16le", "png", "prores"}]
ALLOWED_CONTAINERS == {"mp4", "webm", "mkv", "avi", "mov"}

\* The names ffprobe prints for the demuxer of a file of each kind.
FormatName ==
  [mp4  |-> <<"mov", "mp4", "m4a">>, mov |-> <<"mov", "mp4", "m4a">>,
   webm |-> <<"matroska", "webm">>,  mkv |-> <<"matroska", "webm">>,
   avi  |-> <<"avi">>, mpeg |-> <<"mpeg">>, wmv |-> <<"asf">>]

VARIABLES ext,       \* extension of the upload, which is also what it is
          step,      \* the check that comes next
          outcome,   \* "open", "refused", "raised" or "stored"
          size, mime,
          scan,      \* what the scanner said: clamd's entries, or one exception or exit
          note,      \* clamav_result: "clean", "virus" or "skipped"
          streams, duration,
          seek,      \* position of the frame ffmpeg is asked for
          thumb      \* has_thumbnail, "unknown" until it is

answers == <<size, mime, scan, note, streams, duration, seek, thumb>>
vars    == <<ext, step, outcome, size, mime, scan, note, streams, duration, seek, thumb>>

\* clamd: an entry is a status, or a text where a pair was expected.
Entries         == {"OK", "FOUND", "ERROR", "text"}
ClamdAnswers    == {<< >>, <<"toolong">>, <<"raises">>} \cup {<<e>> : e \in Entries}
                     \cup (Entries \X Entries)
ClamscanAnswers == {"missing", "timeout", "raises", "exit0", "exit1", "exit2", "exit3"}

TypeOK ==
  /\ ext \in ALLOWED_EXTENSIONS
  /\ step \in {"size", "mime", "clamav", "clamscan", "probe", "format", "thumbnail", "end"}
  /\ outcome \in {"open", "refused", "raised", "stored"}
  /\ (outcome = "open") <=> (step # "end")
  /\ size \in Sizes \cup {None}
  /\ mime \in Mimes \cup {"none"}
  /\ scan \in ClamdAnswers \cup {<<a>> : a \in ClamscanAnswers}
  /\ note \in {"none", "clean", "virus", "skipped"}
  /\ streams \in StreamSets \cup {{}}
  /\ duration \in Durations \cup {None}
  /\ seek \in Nat
  /\ thumb \in {"unknown", "yes", "no"}

Init ==
  /\ ext \in ALLOWED_EXTENSIONS
  /\ step = "size" /\ outcome = "open"
  /\ size = None /\ mime = "none"
  /\ scan = << >> /\ note = "none"
  /\ streams = {} /\ duration = None
  /\ seek = 0 /\ thumb = "unknown"

-----------------------------------------------------------------------------
\* Mutant: a check that fails returns without saying so.
Decide_forgets(ok, next) ==
  /\ step' = IF ok THEN next ELSE "end"
  /\ UNCHANGED <<outcome, ext>>

\* A check that passed leads to the next, one that did not refuses the file.
Decide(ok, next) ==
  /\ step' = IF ok THEN next ELSE "end"
  /\ outcome' = IF ok THEN "open" ELSE "refused"
  /\ UNCHANGED ext

\* getsize, libmagic or ffprobe raises, times out, or finds nothing to read; the scan
\* never does.
ToolRaises ==
  /\ step \in {"size", "mime", "probe", "format"}
  /\ step' = "end" /\ outcome' = "raised"
  /\ UNCHANGED <<ext, answers>>

ValidateFileSize ==
  /\ step = "size"
  /\ size' \in Sizes
  /\ Decide(size' \in MIN_FILE_SIZE..MAX_FILE_SIZE, "mime")
  /\ UNCHANGED <<mime, scan, note, streams, duration, seek, thumb>>

ValidateMimeType ==
  /\ step = "mime"
  /\ mime' \in Mimes
  /\ Decide(mime' \in ALLOWED_MIMES, "clamav")
  /\ UNCHANGED <<size, scan, note, streams, duration, seek, thumb>>

-----------------------------------------------------------------------------
\* The scan.

\* The first entry that is not OK decides; an exception counts as an error.
ClamdNote(a) ==
  LET bad   == {i \in 1..Len(a) : a[i] # "OK"}
      first == CHOOSE i \in bad : \A j \in bad : i <= j
  IN  IF bad = {} THEN "clean"
      ELSE IF a[first] \in {"FOUND", "text"} THEN "virus" ELSE "skipped"

\* Mutant: every exit of clamscan but 0 is a virus.
ClamscanNote_nonzero(a) ==
  IF a = "exit0" THEN "clean"
  ELSE IF a \in {"exit1", "exit2", "exit3"} THEN "virus" ELSE "skipped"

ClamscanNote(a) == IF a = "exit0" THEN "clean" ELSE IF a = "exit1" THEN "virus" ELSE "skipped"

\* No client, or its connection is lost: clamscan is asked instead.
NoClamd ==
  /\ step = "clamav"
  /\ step' = "clamscan"
  /\ UNCHANGED <<ext, outcome, answers>>

ScanWithClamd ==
  /\ step = "clamav"
  /\ scan' \in ClamdAnswers
  /\ note' = ClamdNote(scan')
  /\ Decide(note' # "virus", "probe")
  /\ UNCHANGED <<size, mime, streams, duration, seek, thumb>>

ScanWithClamscan ==
  /\ step = "clamscan"
  /\ \E a \in ClamscanAnswers : scan' = <<a>> /\ note' = ClamscanNote(a)
  /\ Decide(note' # "virus", "probe")
  /\ UNCHANGED <<size, mime, streams, duration, seek, thumb>>

-----------------------------------------------------------------------------
\* The analysis.

OfType(ss, t) == {s \in ss : s.type = t}

\* A rate that cannot be read, or has no denominator, is 0.
Fps(r) == IF r[2] = 0 THEN <<0, 1>> ELSE r

\* Mutant: the average rate is never asked.
ExtractFps_noFallback(vs) == Fps(vs.rate)

ExtractFps(vs) ==
  LET fps == Fps(vs.rate)
  IN  IF fps[1] <= 0 \/ fps[1] > 1000 * fps[2] THEN Fps(vs.avg) ELSE fps

Compatible(c) ==
  IF c \in DOMAIN CONTAINER_CODEC_MAP THEN CONTAINER_CODEC_MAP[c] ELSE {}

\* Mutant: a frame is too large only when both sides are.
VideoErrors_bothSides(vs, c) ==
  LET fps   == ExtractFps(vs)
      wrong == [codec |-> vs.codec \notin ALLOWED_VIDEO_CODECS,
                large |-> vs.width > MAX_RESOLUTION[1] /\ vs.height > MAX_RESOLUTION[2],
                small |-> vs.width < MIN_RESOLUTION[1] \/ vs.height < MIN_RESOLUTION[2],
                fast  |-> fps[1] > MAX_FRAME_RATE * fps[2],
                slow  |-> fps[1] > 0 /\ fps[1] < MIN_FRAME_RATE * fps[2],
                fits  |-> vs.codec \notin Compatible(c)]
  IN  {e \in DOMAIN wrong : wrong[e]}

VideoErrors(vs, c) ==
  LET fps   == ExtractFps(vs)
      wrong == [codec |-> vs.codec \notin ALLOWED_VIDEO_CODECS,
                large |-> vs.width > MAX_RESOLUTION[1] \/ vs.height > MAX_RESOLUTION[2],
                small |-> vs.width < MIN_RESOLUTION[1] \/ vs.height < MIN_RESOLUTION[2],
                fast  |-> fps[1] > MAX_FRAME_RATE * fps[2],
                slow  |-> fps[1] > 0 /\ fps[1] < MIN_FRAME_RATE * fps[2],
                fits  |-> vs.codec \notin Compatible(c)]
  IN  {e \in DOMAIN wrong : wrong[e]}

AudioErrors(as, c) ==
  LET wrong == [codec |-> as.codec \notin ALLOWED_AUDIO_CODECS,
                fits  |-> as.codec \notin Compatible(c)]
  IN  {e \in DOMAIN wrong : wrong[e]}

AnalysisErrors(ss, c) ==
  (UNION {VideoErrors(s, c) : s \in OfType(ss, "video")})
    \cup (UNION {AudioErrors(s, c) : s \in OfType(ss, "audio")})
    \cup {e \in {"metadata"} : \E s \in ss : s.tagged}
    \cup {e \in {"container"} : c \notin ALLOWED_CONTAINERS}

\* The first call of ffprobe.
ProbeStreams ==
  /\ step = "probe"
  /\ streams' \in StreamSets \ {{}}
  /\ duration' \in Durations
  /\ step' = "format"
  /\ UNCHANGED <<ext, outcome, size, mime, scan, note, seek, thumb>>

\* The second, for the container; only then are the streams looked at.
AnalyzeVideo ==
  /\ step = "format"
  /\ OfType(streams, "video") # {}
  /\ Decide(AnalysisErrors(streams, Head(FormatName[ext])) = {}, "thumbnail")
  /\ UNCHANGED answers

\* Mutant: a frame at the end instead of near the beginning.
PickTimestamp_end(d) ==
  IF d = None \/ d <= 0 THEN {100} ELSE {IF d < 100 THEN 100 ELSE IF d < 3000 THEN d ELSE 3000}

\* Rounded to hundredths, a half either way.
PickTimestamp(d) ==
  IF d = None \/ d <= 0 THEN {100}
  ELSE {IF t < 100 THEN 100 ELSE IF t > 3000 THEN 3000 ELSE t :
          t \in {(d + 4) \div 10, (d + 5) \div 10}}

\* Whatever becomes of the thumbnail, the video is stored.
GenerateThumbnail ==
  /\ step = "thumbnail"
  /\ seek' \in PickTimestamp(duration)
  /\ thumb' \in {"yes", "no"}
  /\ step' = "end" /\ outcome' = "stored"
  /\ UNCHANGED <<ext, size, mime, scan, note, streams, duration>>

-----------------------------------------------------------------------------
Next ==
  \/ ToolRaises \/ ValidateFileSize \/ ValidateMimeType
  \/ NoClamd \/ ScanWithClamd \/ ScanWithClamscan
  \/ ProbeStreams \/ AnalyzeVideo \/ GenerateThumbnail

Spec == Init /\ [][Next]_vars

-----------------------------------------------------------------------------
\* Properties.

\* What a container is meant to hold, said without the order of the checks: a picture,
\* every stream in a codec of the container, sides and rates within the limits.  A rate
\* counts when it is in (0, 1000], the average where the other does not count.
Counts(r) == r[2] > 0 /\ r[1] > 0 /\ r[1] <= 1000 * r[2]
InRange(r) == MIN_FRAME_RATE * r[2] <= r[1] /\ r[1] <= MAX_FRAME_RATE * r[2]

Fit(ss, c) ==
  /\ c \in ALLOWED_CONTAINERS
  /\ OfType(ss, "video") # {}
  /\ \A s \in ss : ~s.tagged
  /\ \A s \in OfType(ss, "audio") : s.codec \in Compatible(c) \cap ALLOWED_AUDIO_CODECS
  /\ \A s \in OfType(ss, "video") :
       /\ s.codec \in Compatible(c) \cap ALLOWED_VIDEO_CODECS
       /\ s.width \in MIN_RESOLUTION[1]..MAX_RESOLUTION[1]
       /\ s.height \in MIN_RESOLUTION[2]..MAX_RESOLUTION[2]
       /\ Counts(s.rate) => InRange(s.rate)
       /\ ~Counts(s.rate) /\ s.avg[1] > 0 /\ s.avg[2] > 0 => InRange(s.avg)

\* What is stored is a video of the promised size and type in which no scanner found a
\* virus, and every stream of it is fit for the container ffprobe saw.
StoredIsFit ==
  outcome = "stored" =>
    /\ size \in MIN_FILE_SIZE..MAX_FILE_SIZE /\ mime \in ALLOWED_MIMES
    /\ note # "virus"
    /\ Fit(streams, Head(FormatName[ext]))

\* A file is refused only for its size, its type, a virus, or for being unfit.
RefusedIsUnfit ==
  outcome = "refused" =>
    \/ size \notin MIN_FILE_SIZE..MAX_FILE_SIZE
    \/ mime \notin ALLOWED_MIMES
    \/ note = "virus"
    \/ ~Fit(streams, Head(FormatName[ext]))

\* scan.py:41: nothing blocks a file but a virus that was found.  And clamav_result
\* does not call a file clean that no scanner looked at to the end.
BlockedOnlyByVirus ==
  /\ note = "virus" <=> /\ outcome = "refused" /\ scan # << >>
                        /\ \E i \in 1..Len(scan) : /\ scan[i] \in {"FOUND", "text", "exit1"}
                                                   /\ \A j \in 1..(i - 1) : scan[j] = "OK"
  /\ note = "clean" => scan = <<"exit0">> \/ \A i \in 1..Len(scan) : scan[i] = "OK"

\* The frame of the thumbnail is in the first thirty seconds, and before the end of any
\* video longer than a second.
SeekInside ==
  outcome = "stored" => seek \in 100..3000 /\ (duration > 100 => seek < duration)

\* index.html:148 and app.js:20 offer MP4, WebM, MKV, AVI, MOV, MPEG and WMV: a file of one
\* of these kinds is not refused when its streams are what video_analyzer.py lists for the
\* kind.  It lists nothing for MPEG and WMV, so that none of those can pass; nothing is asked
\* of those two.
AdvertisedFormatsPass ==
  outcome = "refused" /\ streams # {} => ~Fit(streams, ext)
=============================================================================
