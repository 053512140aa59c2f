----------------------------- MODULE Subtitles -----------------------------
(***************************************************************************)
(* The subtitle job of the assistant bot (telegram-assistant/youtube-subs): *)
(* from the address of a video to a video with Persian subtitles.  Programs *)
(* and services fail, time out, answer in part or too much; the job tries   *)
(* again where the source does, and gives up with an error where it does.   *)
(*                                                                          *)
(* A row of a transcript is [start, end, len]: tenths of a second, and the  *)
(* number of characters of its text, 0 when it is blank.  The clock is one  *)
(* bit: `late', less than eight seconds are left of the job's time.         *)
(***************************************************************************)
EXTENDS Board

CONSTANTS Transcripts,    \* what a captions file or a transcription may hold
          MaxChars,       \* characters of one question to the model: 4500
          MaxSpan         \* time one question covers: 8 minutes

VARIABLE video            \* the job: where it is, its clock, tries, segments

Tries == 3
Formats == 3              \* ways to ask for a download, and for a transcription

-----------------------------------------------------------------------------
(* Segments *)

Earlier(a, b) == a.start < b.start \/ (a.start = b.start /\ a.end < b.end)

\* normalizeSegments: blank rows go, the rest in order of time; a row that does not
\* end after it starts lasts 0.4 s.
NormalizeSegments(rows) ==
  LET s == SortedBy(SelectSeq(rows, LAMBDA r : r.len > 0), Earlier)
      start(r) == IF r.start > 0 THEN r.start ELSE 0
  IN  [i \in DOMAIN s |-> [index |-> i, start |-> start(s[i]), len |-> s[i].len,
                           end |-> IF s[i].end > start(s[i]) THEN s[i].end ELSE start(s[i]) + 4]]

\* chunkSegments: a segment is never cut; a chunk ends where the next segment would
\* make it too long.
ChunkSegments(segments) ==
  LET add(at, s) ==
        LET full == \/ at.chars + s.len > MaxChars
                    \/ s.end - Head(at.cur).start > MaxSpan
        IN  IF at.cur # <<>> /\ full
            THEN [done |-> Append(at.done, at.cur), cur |-> << s >>, chars |-> s.len]
            ELSE [at EXCEPT !.cur = Append(@, s), !.chars = @ + s.len]
      end == FoldLeft(add, [done |-> <<>>, cur |-> <<>>, chars |-> 0], segments)
  IN  IF end.cur = <<>> THEN end.done ELSE Append(end.done, end.cur)

\* parseTranscriptBody: timed pieces, else the plain text cut in equal ones.
Pieces(rows) == SelectSeq(rows, LAMBDA r : r.len > 0 /\ r.end > r.start)

-----------------------------------------------------------------------------
(* The job *)

NoVideo == [step |-> "none"]
Steps == {"duration", "download", "captions", "audio", "audio2", "transcribe", "translate", "again",
          "srt", "burn", "made", "failed"}
NewVideo == [step |-> "duration", late |-> FALSE, try |-> 1, form |-> 1,
             segments |-> <<>>, chunk |-> 1, got |-> {}, translated |-> {}]

At(step) == video.step = step
Goto(step) == video' = [video EXCEPT !.step = step, !.try = 1, !.form = 1]
Fails == video' = [video EXCEPT !.step = "failed", !.segments = <<>>, !.got = {}, !.translated = {}]

\* cap and the check before a chunk: nothing is begun when less than eight seconds
\* are left.  Further tries of what was begun are not stopped.
Begins == video.step \in {"duration", "download", "captions", "audio", "transcribe", "translate", "burn"}
          /\ video.try = 1 /\ video.form = 1
InTime == Begins => ~video.late
TimePasses ==
  /\ video.step \in Steps \ {"made", "failed"} /\ ~video.late
  /\ video' = [video EXCEPT !.late = TRUE]
TooLate == ~InTime /\ Fails

\* readYoutubeDurationSec and assertDuration: an unknown duration is good enough.
ReadDuration == At("duration") /\ InTime /\ (Goto("download") \/ Fails)

\* downloadYoutubeVideo: three ways one after the other; only a file that is too
\* large, or no time, ends it at once.
Download ==
  /\ At("download") /\ InTime
  /\ \/ Goto("captions")
     \/ Fails
     \/ video.try < Formats /\ video' = [video EXCEPT !.try = @ + 1]

\* downloadEnglishCaptions: fewer than two segments are not used.
Captions ==
  /\ At("captions") /\ InTime
  /\ \/ \E rows \in Transcripts :
          LET segments == NormalizeSegments(rows)
          IN  IF Len(segments) >= 2
              THEN video' = [video EXCEPT !.step = "translate", !.segments = segments, !.try = 1, !.form = 1]
              ELSE Goto("audio")
     \/ Goto("audio")

\* extractAudio: mp3, and when that program fails m4a.
ExtractAudio ==
  /\ video.step \in {"audio", "audio2"} /\ InTime
  /\ \/ Goto("transcribe")
     \/ Fails
     \/ At("audio") /\ Goto("audio2")

\* transcribeWithGapGpt: each form of the question is tried again after an error
\* that may pass; one that does not pass leads to the next form, a refused key
\* or a timeout to the end.
Transcribe ==
  /\ At("transcribe") /\ InTime
  /\ \/ \E rows \in Transcripts :
          LET segments == NormalizeSegments(Pieces(rows))
          IN  IF segments = <<>> THEN Fails
              ELSE video' = [video EXCEPT !.step = "translate", !.segments = segments, !.try = 1, !.form = 1]
     \/ video.try < Tries /\ video' = [video EXCEPT !.try = @ + 1]
     \/ video.form < Formats /\ video' = [video EXCEPT !.form = @ + 1, !.try = 1]
     \/ Fails

Chunks == ChunkSegments(video.segments)
Chunk == { Chunks[video.chunk][i].index : i \in DOMAIN Chunks[video.chunk] }
Ids == { video.segments[i].index : i \in DOMAIN video.segments }

\* The last chunk leads to the file, any other to the next one.
ChunkDone(answers) ==
  video' = [video EXCEPT !.translated = @ \cup answers, !.chunk = @ + 1, !.try = 1, !.got = {},
                         !.step = IF video.chunk = Len(Chunks) THEN "srt" ELSE "translate"]

\* translateAll: an answer may hold any ids, those of other chunks too, and all of
\* them are taken over.
Translate ==
  /\ At("translate") /\ InTime
  /\ \/ \E answer \in SUBSET Ids :
          IF Chunk \subseteq answer THEN ChunkDone(answer)
          ELSE video' = [video EXCEPT !.step = "again", !.got = answer, !.try = 1]
     \/ video.try < Tries /\ video' = [video EXCEPT !.try = @ + 1]
     \/ Fails

\* Mutant: what is still missing after the second question is let through.
AskOnlyOnce ==
  /\ At("again")
  /\ \/ \E answer \in SUBSET Ids : ChunkDone(video.got \cup answer)
     \/ Fails

\* What is missing is asked for once more, and then must be there: only the answers
\* about this chunk count, not what an earlier one gave unasked.
AskAgain ==
  /\ At("again")
  /\ \/ \E answer \in SUBSET Ids : Chunk \subseteq video.got \cup answer /\ ChunkDone(video.got \cup answer)
     \/ Fails

\* buildPersianSrt: throws on a blank cue and on one that does not last.
CanBuild(segments, translated) ==
  segments # <<>> /\ \A i \in DOMAIN segments :
    segments[i].index \in translated /\ segments[i].start < segments[i].end
BuildSrt ==
  /\ At("srt")
  /\ IF CanBuild(video.segments, video.translated) THEN Goto("burn") ELSE Fails

\* ffmpeg; a video too large to send fails.
Burn == At("burn") /\ InTime /\ (Goto("made") \/ Fails)

NextVideo ==
  TimePasses \/ TooLate \/ ReadDuration \/ Download \/ Captions \/ ExtractAudio \/ Transcribe
  \/ Translate \/ AskAgain \/ BuildSrt \/ Burn
=============================================================================
