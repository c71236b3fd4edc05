---------------------------- MODULE VoiceActivity ----------------------------
(***************************************************************************)
(* Voice activity detection: handleAudioTrack of the VoiceBotService cuts  *)
(* the audio of one participant into utterances for speech recognition and *)
(* detects barge-in while the bot speaks.  One action per audio frame; the *)
(* loop body has no await.                                                 *)
(*                                                                         *)
(* A frame is its number.  Its loudness is its class against the adaptive  *)
(* thresholds of that moment: "loud" (voice above                          *)
(* BARGE_IN_DECIBEL_THRESHOLD), "strong" (voice above                      *)
(* STRONG_VOICE_THRESHOLD), "voice", "weak" (a transition) or "silent".    *)
(* Lengths are counted in frames.                                          *)
(***************************************************************************)
EXTENDS Integers, Sequences, FiniteSets, SequencesExt

CONSTANTS
  MaxFrames,         \* bound: frames of the track
  PreBufferFrames,   \* PRE_BUFFER_FRAMES
  SilenceThreshold,  \* SILENCE_THRESHOLD
  MinVoiceFrames,    \* MIN_VOICE_FRAMES
  MinLength,         \* MIN_AUDIO_LENGTH
  MaxLength          \* MAX_AUDIO_LENGTH

VARIABLES
  frame,            \* number of the last frame
  isCalibrating, isRecording, voiceCount, silenceCount, preBuffer, audioBuffer,
  bot,              \* what the bot does: "quiet", "busy" (isPublishing before it speaks),
                    \* "grace" (the first 500 ms of speech) or "speaking"
  shouldInterrupt,
  floor,            \* activeUserId lets this participant interrupt
  cooling,          \* lastSttTimeByUser is less than STT_COOLDOWN_MS ago
  handed,           \* utterances given to processAndRespond
  loudRun           \* history: loud frames in a row while the bot speaks, after the grace

audio == <<isRecording, voiceCount, silenceCount, preBuffer, audioBuffer>>
around == <<bot, floor, cooling>>
vars == <<frame, isCalibrating, audio, around, shouldInterrupt, handed, loudRun>>

Voiced == {"loud", "strong", "voice"}
Loudness == Voiced \cup {"weak", "silent"}

Init ==
  /\ frame = 0
  /\ isCalibrating = TRUE
  /\ isRecording = FALSE
  /\ voiceCount = 0
  /\ silenceCount = 0
  /\ preBuffer = <<>>
  /\ audioBuffer = <<>>
  /\ bot = "quiet"
  /\ shouldInterrupt = FALSE
  /\ floor \in BOOLEAN
  /\ cooling = FALSE
  /\ handed = <<>>
  /\ loudRun = 0

-----------------------------------------------------------------------------
Arrives ==
  /\ frame < MaxFrames
  /\ frame' = frame + 1

\* The first three seconds only measure the background noise.
Calibrate ==
  /\ isCalibrating
  /\ Arrives
  /\ UNCHANGED <<isCalibrating, audio, around, shouldInterrupt, handed, loudRun>>

\* While the bot is about to speak, or has just begun, frames are dropped.
Skip ==
  /\ bot \in {"busy", "grace"}
  /\ Arrives
  /\ isCalibrating' = FALSE
  /\ UNCHANGED <<audio, around, shouldInterrupt, handed, loudRun>>

\* While it speaks a frame can only interrupt it; it is dropped as well, so voiceCount stays
\* what it was before the bot began.
BargesIn(loudness) ==
  /\ loudness = "loud"
  /\ voiceCount >= MinVoiceFrames
  /\ floor

DetectBargeIn(loudness) ==
  /\ bot = "speaking"
  /\ Arrives
  /\ isCalibrating' = FALSE
  /\ shouldInterrupt' = (shouldInterrupt \/ BargesIn(loudness))
  /\ loudRun' = IF loudness = "loud" THEN loudRun + 1 ELSE 0
  /\ UNCHANGED <<audio, around, handed>>

\* The frames kept from before the recording: the last PreBufferFrames.
PreBufferedOneMore ==
  LET kept == Append(preBuffer, frame')
  IN  IF Len(kept) > PreBufferFrames + 1 THEN Tail(kept) ELSE kept
PreBuffered ==
  LET kept == Append(preBuffer, frame')
  IN  IF Len(kept) > PreBufferFrames THEN Tail(kept) ELSE kept

StartsRecording(voices) == ~isRecording /\ voices >= 2

\* The buffers and counters after a frame of this loudness.
Heard(loudness) ==
  LET voices == voiceCount + 1
      starts == StartsRecording(voices)
  IN  CASE loudness \in Voiced ->
             [recording |-> isRecording \/ starts,
              voices    |-> voices,
              silences  |-> IF loudness = "voice" THEN silenceCount ELSE 0,
              pre       |-> IF starts THEN <<>> ELSE preBuffer,
              buffer    |-> Append(audioBuffer \o (IF starts THEN preBuffer ELSE <<>>), frame')]
        [] loudness = "weak" ->
             [recording |-> isRecording,
              voices    |-> voiceCount,
              silences  |-> silenceCount + 1,
              pre       |-> IF isRecording THEN preBuffer ELSE PreBuffered,
              buffer    |-> IF isRecording THEN Append(audioBuffer, frame') ELSE audioBuffer]
        [] loudness = "silent" ->
             [recording |-> isRecording,
              voices    |-> 0,
              silences  |-> silenceCount + 1,
              pre       |-> IF isRecording THEN preBuffer ELSE PreBuffered,
              buffer    |-> audioBuffer]

\* The utterance is over: long enough and followed by silence, or too long.
ShouldProcess(heard) ==
  \/ heard.silences > SilenceThreshold /\ Len(heard.buffer) > MinLength
  \/ Len(heard.buffer) > MaxLength

\* Everything the next utterance starts with.
ResetKeepingPreBuffer(heard) ==
  [recording |-> FALSE, voices |-> 0, silences |-> 0, pre |-> heard.pre, buffer |-> <<>>]

Reset(heard) == [recording |-> FALSE, voices |-> 0, silences |-> 0, pre |-> <<>>, buffer |-> <<>>]

Becomes(heard) ==
  /\ isRecording' = heard.recording
  /\ voiceCount' = heard.voices
  /\ silenceCount' = heard.silences
  /\ preBuffer' = heard.pre
  /\ audioBuffer' = heard.buffer

\* A frame the detector listens to.  An utterance that is over is handed on, unless it is
\* too faint on the whole or the participant's last one is less than 1.2 s old: then it is
\* discarded.
Listen(loudness) ==
  /\ bot = "quiet"
  /\ Arrives
  /\ isCalibrating' = FALSE
  /\ LET heard == Heard(loudness)
     IN  IF ShouldProcess(heard)
         THEN /\ Becomes(Reset(heard))
              /\ \E faint \in BOOLEAN :
                   IF faint \/ cooling
                   THEN UNCHANGED <<handed, cooling>>
                   ELSE /\ handed' = Append(handed, heard.buffer)
                        /\ cooling' = TRUE
         ELSE /\ Becomes(heard)
              /\ UNCHANGED <<handed, cooling>>
  /\ UNCHANGED <<bot, floor, shouldInterrupt, loudRun>>

-----------------------------------------------------------------------------
(* The rest of the bot, as far as the loop looks at it.                    *)

\* A response starts publishing; its shouldInterrupt is reset.
BotPublishes ==
  /\ bot = "quiet"
  /\ bot' = "busy"
  /\ loudRun' = 0
  /\ shouldInterrupt' = FALSE
  /\ UNCHANGED <<frame, isCalibrating, audio, floor, cooling, handed>>

BotSpeaks ==
  /\ \/ bot = "busy" /\ bot' = "grace"
     \/ bot = "grace" /\ bot' = "speaking"
  /\ UNCHANGED <<frame, isCalibrating, audio, floor, cooling, shouldInterrupt, handed, loudRun>>

\* AI_MUTE interrupts the bot as well.
AiMute ==
  /\ shouldInterrupt' = TRUE
  /\ UNCHANGED <<frame, isCalibrating, audio, around, handed, loudRun>>

\* The response is over, or the 60 second timeout of isPublishing resets it.
BotStops ==
  /\ bot # "quiet"
  /\ bot' = "quiet"
  /\ UNCHANGED <<frame, isCalibrating, audio, floor, cooling, shouldInterrupt, handed, loudRun>>

CooldownOver ==
  /\ cooling
  /\ cooling' = FALSE
  /\ UNCHANGED <<frame, isCalibrating, audio, bot, floor, shouldInterrupt, handed, loudRun>>

Next ==
  \/ Calibrate \/ Skip
  \/ \E loudness \in Loudness : DetectBargeIn(loudness) \/ Listen(loudness)
  \/ BotPublishes \/ BotSpeaks \/ AiMute \/ BotStops \/ CooldownOver

Spec == Init /\ [][Next]_vars

-----------------------------------------------------------------------------
\* The buffers hold frames of the track and stay within their limits.
TypeOK ==
  /\ frame \in 0..MaxFrames /\ loudRun \in 0..MaxFrames
  /\ voiceCount \in 0..MaxFrames /\ silenceCount \in 0..MaxFrames
  /\ ToSet(preBuffer) \cup ToSet(audioBuffer) \subseteq 1..frame
  /\ Len(preBuffer) <= PreBufferFrames
  /\ Len(audioBuffer) <= MaxLength

\* What was recorded for one utterance is never heard again in a later one: every frame is
\* handed on at most once, and all frames of an utterance come after those of the ones
\* before it and before those still buffered.
UtterancesDoNotOverlap ==
  LET pieces == Append(handed, preBuffer \o audioBuffer)
  IN  /\ \A i \in DOMAIN pieces : IsInjective(pieces[i])
      /\ \A i, j \in DOMAIN pieces :
           i < j => \A a \in ToSet(pieces[i]), b \in ToSet(pieces[j]) : a < b

\* "Barge-in is detected" while the bot speaks (voice-bot.service.ts:2357, 2373): a
\* participant with the floor who has been loud for more than MIN_VOICE_FRAMES frames in a
\* row, after the grace period, has interrupted it.
BargeInIsHeard ==
  bot = "speaking" /\ floor /\ loudRun > MinVoiceFrames => shouldInterrupt

\* "Put all frames of the pre-buffer in front of audioBuffer" (voice-bot.service.ts:2393):
\* an utterance has its frames in the order they were spoken.
AudioInOrder ==
  \A i \in DOMAIN handed : \A a, b \in DOMAIN handed[i] : a < b => handed[i][a] < handed[i][b]
=============================================================================
