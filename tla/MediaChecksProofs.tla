------------------------- MODULE MediaChecksProofs -------------------------
(***************************************************************************)
(* The invariants of MediaChecks, for any sizes, types, streams and          *)
(* durations.  The errors of the analysis and the fitness of a file are two  *)
(* different sayings of one condition; that they agree is the lemma          *)
(* AnalysisDecides, and the invariants follow the checks from one to the     *)
(* next.                                                                     *)
(***************************************************************************)
EXTENDS MediaChecks, TLAPS

-----------------------------------------------------------------------------
\* The analysis.

\* What Fit asks of the rates of a picture.
RateFits(s) ==
  /\ Counts(s.rate) => InRange(s.rate)
  /\ ~Counts(s.rate) /\ s.avg[1] > 0 /\ s.avg[2] > 0 => InRange(s.avg)

\* What VideoErrors says of them.
RateWrong(s) ==
  LET fps == ExtractFps(s)
  IN  fps[1] > MAX_FRAME_RATE * fps[2] \/ (fps[1] > 0 /\ fps[1] < MIN_FRAME_RATE * fps[2])

\* extract_fps and its fall back to the average agree with the rate that counts.
LEMMA RateDecides ==
  ASSUME NEW s \in Streams
  PROVE  ~RateWrong(s) <=> RateFits(s)
  <1>1. /\ s.rate = <<s.rate[1], s.rate[2]>> /\ s.rate[1] \in Int /\ s.rate[2] \in Nat
        /\ s.avg = <<s.avg[1], s.avg[2]>> /\ s.avg[1] \in Int /\ s.avg[2] \in Nat
    BY DEF Streams
  <1>2. CASE Counts(s.rate)
    <2>1. ExtractFps(s) = s.rate
      BY <1>1, <1>2 DEF ExtractFps, Fps, Counts
    <2> QED
      BY <1>1, <1>2, <2>1 DEF RateWrong, RateFits, Counts, InRange, MAX_FRAME_RATE, MIN_FRAME_RATE
  <1>3. CASE ~Counts(s.rate)
    <2>1. ExtractFps(s) = Fps(s.avg)
      <3>1. CASE s.rate[2] = 0
        BY <1>1, <3>1 DEF ExtractFps, Fps
      <3>2. CASE s.rate[2] # 0
        BY <1>1, <1>3, <3>2 DEF ExtractFps, Fps, Counts
      <3> QED
        BY <3>1, <3>2
    <2>2. CASE s.avg[2] = 0
      BY <1>1, <1>3, <2>1, <2>2 DEF Fps, RateWrong, RateFits, MAX_FRAME_RATE, MIN_FRAME_RATE
    <2>3. CASE s.avg[2] # 0
      BY <1>1, <1>3, <2>1, <2>3 DEF Fps, RateWrong, RateFits, InRange, MAX_FRAME_RATE, MIN_FRAME_RATE
    <2> QED
      BY <2>2, <2>3
  <1> QED
    BY <1>2, <1>3

\* What Fit asks of a picture.
VideoFits(s, c) ==
  /\ s.codec \in Compatible(c) \cap ALLOWED_VIDEO_CODECS
  /\ s.width \in MIN_RESOLUTION[1]..MAX_RESOLUTION[1]
  /\ s.height \in MIN_RESOLUTION[2]..MAX_RESOLUTION[2]
  /\ RateFits(s)

\* A picture has no error exactly when it is fit.
LEMMA VideoDecides ==
  ASSUME NEW s \in Streams, NEW c
  PROVE  VideoErrors(s, c) = {} <=> VideoFits(s, c)
  <1>1. s.width \in Int /\ s.height \in Int
    BY DEF Streams
  <1>2. VideoErrors(s, c) = {} <=>
          /\ s.codec \in ALLOWED_VIDEO_CODECS
          /\ ~(s.width > MAX_RESOLUTION[1] \/ s.height > MAX_RESOLUTION[2])
          /\ ~(s.width < MIN_RESOLUTION[1] \/ s.height < MIN_RESOLUTION[2])
          /\ ~RateWrong(s)
          /\ s.codec \in Compatible(c)
    <2> DEFINE fps == ExtractFps(s)
               wrong == [codec |-> s.codec \notin ALLOWED_VIDEO_CODECS,
                large |-> s.width > MAX_RESOLUTION[1] \/ s.height > MAX_RESOLUTION[2],
                small |-> s.width < MIN_RESOLUTION[1] \/ s.height < MIN_RESOLUTION[2],
                fast  |-> fps[1] > MAX_FRAME_RATE * fps[2],
                slow  |-> fps[1] > 0 /\ fps[1] < MIN_FRAME_RATE * fps[2],
                fits  |-> s.codec \notin Compatible(c)]
    <2>1. VideoErrors(s, c) = {e \in DOMAIN wrong : wrong[e]}
      BY DEF VideoErrors
    <2>2. DOMAIN wrong = {"codec", "large", "small", "fast", "slow", "fits"}
      OBVIOUS
    <2>3. /\ wrong["codec"] = (s.codec \notin ALLOWED_VIDEO_CODECS)
          /\ wrong["large"] = (s.width > MAX_RESOLUTION[1] \/ s.height > MAX_RESOLUTION[2])
          /\ wrong["small"] = (s.width < MIN_RESOLUTION[1] \/ s.height < MIN_RESOLUTION[2])
          /\ wrong["fast"] = (fps[1] > MAX_FRAME_RATE * fps[2])
          /\ wrong["slow"] = (fps[1] > 0 /\ fps[1] < MIN_FRAME_RATE * fps[2])
          /\ wrong["fits"] = (s.codec \notin Compatible(c))
      OBVIOUS
    <2>4. RateWrong(s) <=> wrong["fast"] \/ wrong["slow"]
      BY <2>3 DEF RateWrong
    <2> HIDE DEF wrong, fps
    <2> QED
      BY <2>1, <2>2, <2>3, <2>4
  <1>3. /\ ~(s.width > MAX_RESOLUTION[1] \/ s.height > MAX_RESOLUTION[2])
        /\ ~(s.width < MIN_RESOLUTION[1] \/ s.height < MIN_RESOLUTION[2])
        <=> /\ s.width \in MIN_RESOLUTION[1]..MAX_RESOLUTION[1]
            /\ s.height \in MIN_RESOLUTION[2]..MAX_RESOLUTION[2]
    BY <1>1 DEF MAX_RESOLUTION, MIN_RESOLUTION
  <1> QED
    BY <1>2, <1>3, RateDecides DEF VideoFits

\* So has a sound.
LEMMA AudioDecides ==
  ASSUME NEW s, NEW c
  PROVE  AudioErrors(s, c) = {} <=> s.codec \in Compatible(c) \cap ALLOWED_AUDIO_CODECS
  <1> DEFINE wrong == [codec |-> s.codec \notin ALLOWED_AUDIO_CODECS,
                       fits  |-> s.codec \notin Compatible(c)]
  <1>1. AudioErrors(s, c) = {e \in DOMAIN wrong : wrong[e]}
    BY DEF AudioErrors
  <1>2. /\ DOMAIN wrong = {"codec", "fits"}
        /\ wrong["codec"] = (s.codec \notin ALLOWED_AUDIO_CODECS)
        /\ wrong["fits"] = (s.codec \notin Compatible(c))
    OBVIOUS
  <1> HIDE DEF wrong
  <1> QED
    BY <1>1, <1>2

\* The errors of analyze_video, put together, refuse exactly the files that are not fit.
LEMMA AnalysisDecides ==
  ASSUME NEW ss \in SUBSET Streams, NEW c
  PROVE  OfType(ss, "video") # {} /\ AnalysisErrors(ss, c) = {} <=> Fit(ss, c)
  <1>1. AnalysisErrors(ss, c) = {} <=>
          /\ \A s \in OfType(ss, "video") : VideoErrors(s, c) = {}
          /\ \A s \in OfType(ss, "audio") : AudioErrors(s, c) = {}
          /\ \A s \in ss : ~s.tagged
          /\ c \in ALLOWED_CONTAINERS
    <2> DEFINE V == UNION {VideoErrors(s, c) : s \in OfType(ss, "video")}
               A == UNION {AudioErrors(s, c) : s \in OfType(ss, "audio")}
               M == {e \in {"metadata"} : \E s \in ss : s.tagged}
               C == {e \in {"container"} : c \notin ALLOWED_CONTAINERS}
    <2>1. V = {} <=> \A s \in OfType(ss, "video") : VideoErrors(s, c) = {}
      OBVIOUS
    <2>2. A = {} <=> \A s \in OfType(ss, "audio") : AudioErrors(s, c) = {}
      OBVIOUS
    <2>3. M = {} <=> \A s \in ss : ~s.tagged
      OBVIOUS
    <2>4. C = {} <=> c \in ALLOWED_CONTAINERS
      OBVIOUS
    <2>5. AnalysisErrors(ss, c) = V \cup A \cup M \cup C
      BY DEF AnalysisErrors
    <2> HIDE DEF V, A, M, C
    <2> QED
      BY <2>1, <2>2, <2>3, <2>4, <2>5
  <1>2. \A s \in OfType(ss, "video") : VideoErrors(s, c) = {} <=> VideoFits(s, c)
    BY VideoDecides DEF OfType
  <1>3. \A s \in OfType(ss, "audio") :
          AudioErrors(s, c) = {} <=> s.codec \in Compatible(c) \cap ALLOWED_AUDIO_CODECS
    BY AudioDecides
  <1>4. Fit(ss, c) <=>
          /\ c \in ALLOWED_CONTAINERS
          /\ OfType(ss, "video") # {}
          /\ \A s \in ss : ~s.tagged
          /\ \A s \in OfType(ss, "audio") : s.codec \in Compatible(c) \cap ALLOWED_AUDIO_CODECS
          /\ \A s \in OfType(ss, "video") : VideoFits(s, c)
    BY DEF Fit, VideoFits, RateFits
  <1> QED
    BY <1>1, <1>2, <1>3, <1>4

-----------------------------------------------------------------------------
\* Types.

\* clamav_result has one of three values, whatever the scanner answers.
LEMMA NoteTypes ==
  /\ \A a \in ClamdAnswers : ClamdNote(a) \in {"clean", "virus", "skipped"}
  /\ \A a \in ClamscanAnswers : ClamscanNote(a) \in {"clean", "virus", "skipped"}
  BY DEF ClamdNote, ClamscanNote

\* A tenth of the duration, kept between one second and thirty.
LEMMA SeekBounds ==
  ASSUME NEW d \in Int, NEW t \in PickTimestamp(d)
  PROVE  t \in 100..3000 /\ (d > 100 => t < d)
  <1>1. CASE d = None \/ d <= 0
    BY <1>1 DEF PickTimestamp, None
  <1>2. CASE ~(d = None \/ d <= 0)
    <2>1. PICK u \in {(d + 4) \div 10, (d + 5) \div 10} :
            t = IF u < 100 THEN 100 ELSE IF u > 3000 THEN 3000 ELSE u
      BY <1>2 DEF PickTimestamp
    <2>2. u \in Int /\ 10 * u <= d + 5
      BY <1>2, <2>1, SMTT(30)
    <2> QED
      BY <1>2, <2>1, <2>2
  <1> QED
    BY <1>1, <1>2

\* Every variable keeps its type, and an execution is decided exactly when no check is
\* left: for any sizes, types, sets of streams and durations the tools may report.
THEOREM ChecksTypeCorrect == Spec => []TypeOK
  <1>1. Init => TypeOK
    BY DEF Init, TypeOK, None, ClamdAnswers
  <1>2. TypeOK /\ [Next]_vars => TypeOK'
    <2> SUFFICES ASSUME TypeOK, [Next]_vars PROVE TypeOK'
      OBVIOUS
    <2> USE DEF TypeOK, answers
    <2>1. CASE ToolRaises
      BY <2>1 DEF ToolRaises
    <2>2. CASE ValidateFileSize
      BY <2>2 DEF ValidateFileSize, Decide
    <2>3. CASE ValidateMimeType
      BY <2>3 DEF ValidateMimeType, Decide
    <2>4. CASE NoClamd
      BY <2>4 DEF NoClamd
    <2>5. CASE ScanWithClamd
      BY <2>5, NoteTypes DEF ScanWithClamd, Decide
    <2>6. CASE ScanWithClamscan
      BY <2>6, NoteTypes DEF ScanWithClamscan, Decide
    <2>7. CASE ProbeStreams
      BY <2>7 DEF ProbeStreams
    <2>8. CASE AnalyzeVideo
      BY <2>8 DEF AnalyzeVideo, Decide
    <2>9. CASE GenerateThumbnail
      <3>1. seek' \in Nat
        <4>1. duration \in Int
          BY ChecksAssumption DEF None
        <4>2. seek' \in PickTimestamp(duration)
          BY <2>9 DEF GenerateThumbnail
        <4>3. seek' \in 100..3000
          BY <4>1, <4>2, SeekBounds
        <4> QED
          BY <4>3
      <3> QED
        BY <2>9, <3>1 DEF GenerateThumbnail
    <2>10. CASE UNCHANGED vars
      BY <2>10 DEF vars
    <2> QED
      BY <2>1, <2>2, <2>3, <2>4, <2>5, <2>6, <2>7, <2>8, <2>9, <2>10 DEF Next
  <1> QED
    BY <1>1, <1>2, PTL DEF Spec

-----------------------------------------------------------------------------
\* Stored and refused.

\* What the checks behind an execution have established, and what its end rests on:
\* StoredIsFit says nothing of a file before it is stored, so it is not inductive.
FileDecided ==
  /\ step \notin {"size", "end"} \/ outcome = "stored" => size \in MIN_FILE_SIZE..MAX_FILE_SIZE
  /\ step \notin {"size", "mime", "end"} \/ outcome = "stored" => mime \in ALLOWED_MIMES
  /\ outcome \in {"open", "stored"} => note # "virus"
  /\ step = "thumbnail" \/ outcome = "stored" => Fit(streams, Head(FormatName[ext]))
  /\ RefusedIsUnfit

\* It holds in every state: each check extends it to the stage it leads to.
LEMMA FileDecidedInv == Spec => []FileDecided
  <1>1. Init => FileDecided
    BY DEF Init, FileDecided, RefusedIsUnfit
  <1>2. TypeOK /\ FileDecided /\ [Next]_vars => FileDecided'
    <2> SUFFICES ASSUME TypeOK, FileDecided, [Next]_vars PROVE FileDecided'
      OBVIOUS
    <2> USE DEF FileDecided, RefusedIsUnfit, answers
    <2>a. /\ outcome \in {"open", "refused", "raised", "stored"}
          /\ (outcome = "open") <=> (step # "end")
          /\ step \in {"size", "mime", "clamav", "clamscan", "probe", "format", "thumbnail", "end"}
      BY DEF TypeOK
    <2>1. CASE ToolRaises
      BY <2>1, <2>a DEF ToolRaises
    <2>2. CASE ValidateFileSize
      BY <2>2, <2>a DEF ValidateFileSize, Decide
    <2>3. CASE ValidateMimeType
      BY <2>3, <2>a DEF ValidateMimeType, Decide
    <2>4. CASE NoClamd
      BY <2>4, <2>a DEF NoClamd
    <2>5. CASE ScanWithClamd
      BY <2>5, <2>a, NoteTypes DEF ScanWithClamd, Decide
    <2>6. CASE ScanWithClamscan
      BY <2>6, <2>a, NoteTypes DEF ScanWithClamscan, Decide
    <2>7. CASE ProbeStreams
      BY <2>7, <2>a DEF ProbeStreams
    <2>8. CASE AnalyzeVideo
      <3>1. streams \in SUBSET Streams
        BY ChecksAssumption DEF TypeOK
      <3>2. AnalysisErrors(streams, Head(FormatName[ext])) = {}
              <=> Fit(streams, Head(FormatName[ext]))
        BY <2>8, <3>1, AnalysisDecides DEF AnalyzeVideo
      <3> QED
        BY <2>8, <2>a, <3>2 DEF AnalyzeVideo, Decide
    <2>9. CASE GenerateThumbnail
      BY <2>9, <2>a DEF GenerateThumbnail
    <2>10. CASE UNCHANGED vars
      BY <2>10 DEF vars
    <2> QED
      BY <2>1, <2>2, <2>3, <2>4, <2>5, <2>6, <2>7, <2>8, <2>9, <2>10 DEF Next
  <1> QED
    BY <1>1, <1>2, ChecksTypeCorrect, PTL DEF Spec

\* What _process_with_queue stores passed validation.py, is no virus to scan.py, and has
\* only streams that video_analyzer.py is meant to admit.
THEOREM OnlyFitStored == Spec => []StoredIsFit
  <1>1. FileDecided => StoredIsFit
    BY DEF FileDecided, StoredIsFit
  <1> QED
    BY <1>1, FileDecidedInv, PTL

\* Conversely, no check of the pipeline refuses a file that is fit, of the right size and
\* type, and free of viruses.
THEOREM OnlyUnfitRefused == Spec => []RefusedIsUnfit
  <1>1. FileDecided => RefusedIsUnfit
    BY DEF FileDecided
  <1> QED
    BY <1>1, FileDecidedInv, PTL

-----------------------------------------------------------------------------
\* The scan.

\* A virus is the first thing the scanner has to say.
Blocking(a) ==
  \E i \in 1..Len(a) : /\ a[i] \in {"FOUND", "text", "exit1"}
                       /\ \A j \in 1..(i - 1) : a[j] = "OK"

\* The loop of scan.py over the entries of clamd: CHOOSE names the entry it stops at.
LEMMA ClamdDecides ==
  ASSUME NEW a \in ClamdAnswers
  PROVE  /\ ClamdNote(a) = "virus" <=> Blocking(a)
         /\ ClamdNote(a) = "clean" => \A i \in 1..Len(a) : a[i] = "OK"
  <1> DEFINE bad == {i \in 1..Len(a) : a[i] # "OK"}
             first == CHOOSE i \in bad : \A j \in bad : i <= j
  <1>1. Len(a) \in 0..2 /\ \A i \in 1..Len(a) : a[i] # "exit1"
    BY DEF ClamdAnswers, Entries
  <1>2. CASE bad = {}
    BY <1>2, <1>1 DEF ClamdNote, Blocking
  <1>3. CASE bad # {}
    <2>1. \E i \in bad : \A j \in bad : i <= j
      BY <1>1, <1>3
    <2>2. first \in bad /\ \A j \in bad : first <= j
      BY <2>1
    <2>3. ClamdNote(a) = IF a[first] \in {"FOUND", "text"} THEN "virus" ELSE "skipped"
      BY <1>3 DEF ClamdNote
    <2> HIDE DEF first
    <2>4. \A i \in 1..Len(a) : a[i] # "OK" /\ (\A j \in 1..(i - 1) : a[j] = "OK") => i = first
      <3> SUFFICES ASSUME NEW i \in 1..Len(a), a[i] # "OK",
                          \A j \in 1..(i - 1) : a[j] = "OK", i # first
                   PROVE  FALSE
        OBVIOUS
      <3>1. first <= i /\ first \in 1..(i - 1) /\ a[first] # "OK"
        BY <1>1, <2>2
      <3> QED
        BY <3>1
    <2>5. \A j \in 1..(first - 1) : a[j] = "OK"
      BY <1>1, <2>2
    <2>6. Blocking(a) <=> a[first] \in {"FOUND", "text"}
      BY <1>1, <2>2, <2>4, <2>5 DEF Blocking
    <2> QED
      BY <2>3, <2>6
  <1> QED
    BY <1>2, <1>3

\* The exits of clamscan.
LEMMA ClamscanDecides ==
  ASSUME NEW a \in ClamscanAnswers
  PROVE  /\ ClamscanNote(a) = "virus" <=> Blocking(<<a>>)
         /\ ClamscanNote(a) = "clean" => a = "exit0"
  <1>1. Blocking(<<a>>) <=> a \in {"FOUND", "text", "exit1"}
    BY DEF Blocking
  <1> QED
    BY <1>1 DEF ClamscanAnswers, ClamscanNote

\* BlockedOnlyByVirus, and that nothing is said before the scan.
ScanDecided ==
  /\ step \in {"size", "mime", "clamav", "clamscan"} => scan = << >> /\ note = "none"
  /\ note = "virus" <=> Blocking(scan)
  /\ note = "virus" => outcome = "refused"
  /\ note = "clean" => scan = <<"exit0">> \/ \A i \in 1..Len(scan) : scan[i] = "OK"

\* scan.py refuses a file when a virus was found, and only then; it calls clean only what
\* was looked at to the end.
THEOREM VirusBlocks == Spec => []BlockedOnlyByVirus
  <1>1. Init => ScanDecided
    BY DEF Init, ScanDecided, Blocking
  <1>2. TypeOK /\ ScanDecided /\ [Next]_vars => ScanDecided'
    <2> SUFFICES ASSUME TypeOK, ScanDecided, [Next]_vars PROVE ScanDecided'
      OBVIOUS
    <2>a. (outcome = "open") <=> (step # "end")
      BY DEF TypeOK
    <2>1. CASE UNCHANGED <<scan, note>> /\ step # "end" /\
               (step' \in {"size", "mime", "clamav", "clamscan"}
                 => step \in {"size", "mime", "clamav", "clamscan"})
      <3>1. Blocking(scan)' = Blocking(scan)
        BY <2>1 DEF Blocking
      <3> QED
        BY <2>1, <2>a, <3>1 DEF ScanDecided
    <2>2. CASE ToolRaises \/ ValidateFileSize \/ ValidateMimeType \/ NoClamd
      BY <2>1, <2>2 DEF ToolRaises, ValidateFileSize, ValidateMimeType, NoClamd, Decide, answers
    <2>3. CASE ProbeStreams \/ AnalyzeVideo \/ GenerateThumbnail
      BY <2>1, <2>3 DEF ProbeStreams, AnalyzeVideo, GenerateThumbnail, Decide, answers
    <2>4. CASE ScanWithClamd
      <3>1. scan' \in ClamdAnswers /\ note' = ClamdNote(scan') /\ step' \in {"probe", "end"}
            /\ (note' = "virus" => outcome' = "refused")
        BY <2>4 DEF ScanWithClamd, Decide
      <3>2. note' = "virus" <=> Blocking(scan)'
        BY <3>1, ClamdDecides DEF Blocking
      <3>3. note' = "clean" => \A i \in 1..Len(scan') : scan'[i] = "OK"
        BY <3>1, ClamdDecides
      <3> QED
        BY <3>1, <3>2, <3>3 DEF ScanDecided
    <2>5. CASE ScanWithClamscan
      <3>1. PICK a \in ClamscanAnswers : scan' = <<a>> /\ note' = ClamscanNote(a)
        BY <2>5 DEF ScanWithClamscan
      <3>2. step' \in {"probe", "end"} /\ (note' = "virus" => outcome' = "refused")
        BY <2>5 DEF ScanWithClamscan, Decide
      <3>3. note' = "virus" <=> Blocking(scan)'
        BY <3>1, ClamscanDecides DEF Blocking
      <3> QED
        BY <3>1, <3>2, <3>3, ClamscanDecides DEF ScanDecided
    <2>6. CASE UNCHANGED vars
      BY <2>6 DEF vars, ScanDecided, Blocking
    <2> QED
      BY <2>2, <2>3, <2>4, <2>5, <2>6 DEF Next
  <1>3. ScanDecided => BlockedOnlyByVirus
    <2>1. Blocking(scan) => scan # << >>
      BY DEF Blocking
    <2> QED
      BY <2>1 DEF ScanDecided, BlockedOnlyByVirus, Blocking
  <1> QED
    BY <1>1, <1>2, <1>3, ChecksTypeCorrect, PTL DEF Spec

-----------------------------------------------------------------------------
\* The thumbnail.

\* generate_thumbnail asks ffmpeg for a frame that exists, however long the video.
THEOREM SeekStaysInside == Spec => []SeekInside
  <1>1. Init => SeekInside
    BY DEF Init, SeekInside
  <1>2. TypeOK /\ SeekInside /\ [Next]_vars => SeekInside'
    <2> SUFFICES ASSUME TypeOK, SeekInside, [Next]_vars PROVE SeekInside'
      OBVIOUS
    <2>1. CASE GenerateThumbnail
      <3>1. duration \in Int
        BY ChecksAssumption DEF None, TypeOK
      <3>2. seek' \in PickTimestamp(duration) /\ duration' = duration
        BY <2>1 DEF GenerateThumbnail
      <3>3. seek' \in 100..3000 /\ (duration > 100 => seek' < duration)
        BY <3>1, <3>2, SeekBounds
      <3> QED
        BY <3>2, <3>3 DEF SeekInside
    <2>2. CASE ToolRaises \/ ValidateFileSize \/ ValidateMimeType \/ NoClamd
               \/ ScanWithClamd \/ ScanWithClamscan \/ ProbeStreams \/ AnalyzeVideo
      BY <2>2 DEF SeekInside, ToolRaises, ValidateFileSize, ValidateMimeType, NoClamd,
                  ScanWithClamd, ScanWithClamscan, ProbeStreams, AnalyzeVideo, Decide, TypeOK
    <2>3. CASE UNCHANGED vars
      BY <2>3 DEF vars, SeekInside
    <2> QED
      BY <2>1, <2>2, <2>3 DEF Next
  <1> QED
    BY <1>1, <1>2, ChecksTypeCorrect, PTL DEF Spec
=============================================================================
