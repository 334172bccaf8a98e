--------------------------- MODULE WavReaderProofs ---------------------------
(***************************************************************************)
(* Proofs about WavReader, for every file and every sequence of calls,     *)
(* with no bound on what they ask for but MaxAsk.  The stream is at the    *)
(* frame that frames_pos says, or there is no whole frame ahead of it: a   *)
(* read that ran into the end of the file has consumed part of a frame,    *)
(* which frames_pos does not count.                                        *)
(***************************************************************************)
EXTENDS WavReader, TLAPS

FrameBytes == file.frame_bytes

\* Where in the stream the frame at frames_pos is.
Where == frames_pos * FrameBytes

StreamInv ==
    in_step => \/ stream = Where
               \/ stream >= Where /\ file.present < Where + FrameBytes

LastInv ==
    /\ ReadsReturnTheFramesAtPosition
    /\ NoReadReturnsMetadata
    /\ ShortReadsMeanTheEnd

Inv == TypeOK /\ StreamInv /\ LastInv

-----------------------------------------------------------------------------
(* Arithmetic.                                                             *)

LEMMA DivFacts ==
    ASSUME NEW b \in Nat, NEW f \in Nat \ {0}
    PROVE  b \div f \in Nat /\ (b \div f) * f <= b /\ b < (b \div f) * f + f
OBVIOUS

LEMMA ModFacts ==
    ASSUME NEW b \in Nat, NEW f \in Nat \ {0}
    PROVE  b % f \in Nat /\ b % f <= b
OBVIOUS

LEMMA Cancel ==
    ASSUME NEW a \in Nat, NEW b \in Nat, NEW f \in Nat \ {0}
    PROVE  /\ a * f <= b * f => a <= b
           /\ a * f < b * f + f => a <= b
OBVIOUS

LEMMA TimesFacts ==
    ASSUME NEW a \in Nat, NEW b \in Nat, NEW f \in Nat
    PROVE  /\ a * f \in Nat
           /\ (a + b) * f = a * f + b * f
           /\ (a + 1) * f = a * f + f
           /\ a <= b => a * f <= b * f
           /\ a # 0 => f <= a * f
OBVIOUS

LEMMA Divides ==
    ASSUME NEW f \in Nat \ {0}, NEW s \in Nat \ {0}, f % s = 0
    PROVE  s <= f
OBVIOUS

-----------------------------------------------------------------------------
(* What there is to read.                                                  *)

LEMMA FileFacts ==
    ASSUME file \in Files
    PROVE  /\ file.declared \in Nat /\ file.unknown \in BOOLEAN
           /\ file.frame_bytes \in Nat /\ file.sample_bytes \in Nat
           /\ file.present \in Nat
           /\ file.sample_bytes # 0 =>
                file.frame_bytes # 0 /\ file.sample_bytes <= file.frame_bytes
<1>1. file \in File /\ (file.sample_bytes # 0 =>
        file.frame_bytes # 0 /\ file.frame_bytes % file.sample_bytes = 0)
  BY FilesAssumption
<1>2. /\ file.declared \in Nat /\ file.unknown \in BOOLEAN
      /\ file.frame_bytes \in Nat /\ file.sample_bytes \in Nat /\ file.present \in Nat
  BY <1>1 DEF File
<1>3. file.sample_bytes # 0 => file.sample_bytes <= file.frame_bytes
  BY <1>1, <1>2, Divides
<1> QED
  BY <1>1, <1>2, <1>3

LEMMA FramesFacts ==
    ASSUME file \in Files, file.frame_bytes # 0, NEW n \in Nat
    PROVE  /\ Frames(n) \in Nat
           /\ Frames(n) * FrameBytes <= n /\ n < Frames(n) * FrameBytes + FrameBytes
BY FileFacts, DivFacts DEF Frames, FrameBytes

LEMMA TotalFacts ==
    ASSUME TypeOK
    PROVE  TotalFrames \in Nat /\ Remaining \in Nat
<1>1. TotalFrames \in Nat
  BY FileFacts, FramesFacts DEF TypeOK, TotalFrames, Frames
<1> QED
  BY <1>1 DEF TypeOK, Remaining, SatSub

LEMMA AheadFacts ==
    ASSUME TypeOK
    PROVE  /\ Ahead \in Nat /\ file.present <= stream + Ahead
           /\ Ahead # 0 => stream + Ahead = file.present
BY FileFacts DEF TypeOK, Ahead, SatSub

-----------------------------------------------------------------------------

\* A call that returns frames: those there are, up to those declared.
LEMMA ReadStep ==
    ASSUME Inv, file.frame_bytes # 0,
           NEW method \in Methods, NEW asked \in Nat, NEW frames \in Nat,
           UNCHANGED <<file, in_step>>, frames_pos' = frames_pos + frames, stream' \in Nat,
           Returned(method, "ok", asked, frames),
           ~file.unknown => frames <= Remaining,
           frames * FrameBytes <= Ahead,
           \/ stream' = stream + frames * FrameBytes
           \/ /\ stream' >= stream + frames * FrameBytes
              /\ file.present < stream + frames * FrameBytes + FrameBytes,
           frames < asked =>
              \/ frames = Remaining /\ ~file.unknown
              \/ file.unknown /\ method # "read_raw_all"
              \/ file.present < stream + frames * FrameBytes + FrameBytes
    PROVE  Inv'
<1> DEFINE bytes == frames * FrameBytes
           end   == frames_pos + frames
<1>1. /\ file \in Files /\ frames_pos \in Nat /\ stream \in Nat /\ in_step \in BOOLEAN
      /\ ~file.unknown => frames_pos <= TotalFrames
      /\ TotalFrames \in Nat
      /\ FrameBytes \in Nat /\ FrameBytes # 0
      /\ file.present \in Nat /\ file.declared \in Nat /\ file.unknown \in BOOLEAN
  BY FileFacts, TotalFacts DEF Inv, TypeOK, FrameBytes
<1>2. /\ Where \in Nat /\ bytes \in Nat /\ end \in Nat
      /\ end * FrameBytes = Where + bytes
      /\ (end + 1) * FrameBytes = Where + bytes + FrameBytes
      /\ frames = 0 => bytes = 0
      /\ frames # 0 => FrameBytes <= bytes
  <2>1. Where \in Nat /\ bytes \in Nat /\ end \in Nat
    BY <1>1, TimesFacts DEF Where
  <2>2. end * FrameBytes = Where + bytes
    BY <1>1, TimesFacts DEF Where
  <2>3. (end + 1) * FrameBytes = end * FrameBytes + FrameBytes
    BY <1>1, <2>1, TimesFacts
  <2>4. (frames = 0 => bytes = 0) /\ (frames # 0 => FrameBytes <= bytes)
    BY <1>1, TimesFacts
  <2> QED
    BY <2>1, <2>2, <2>3, <2>4
<1>3. /\ last'.method = method /\ last'.outcome = "ok" /\ last'.asked = asked
      /\ last'.frames = frames /\ last'.position = frames_pos /\ last'.from = stream
      /\ last'.in_step = in_step
      /\ file' = file /\ in_step' = in_step
      /\ last' = [method |-> method, outcome |-> "ok", asked |-> asked, frames |-> frames,
                  position |-> frames_pos, from |-> stream, in_step |-> in_step]
  BY DEF Returned
<1>4. frames # 0 => stream + bytes <= file.present
  BY <1>1, <1>2, AheadFacts DEF Inv
<1> HIDE DEF bytes, end
<1>5. ~file.unknown => end <= TotalFrames /\ (frames = Remaining => end = TotalFrames)
  BY <1>1 DEF Remaining, SatSub, end
<1>6. in_step => stream = Where \/ (stream >= Where /\ file.present < Where + FrameBytes)
  BY DEF Inv, StreamInv
<1>7. in_step /\ frames # 0 => stream = Where
  BY <1>1, <1>2, <1>4, <1>6
<1>8. /\ stream' = stream + bytes
         \/ (stream' >= stream + bytes /\ file.present < stream + bytes + FrameBytes)
      /\ frames < asked =>
            \/ frames = Remaining /\ ~file.unknown
            \/ file.unknown /\ method # "read_raw_all"
            \/ file.present < stream + bytes + FrameBytes
      /\ frames_pos' = end
  BY DEF bytes, end
<1>9. /\ EndOfAudio \in Nat /\ EndOfAudio <= file.present
      /\ ~file.unknown => EndOfAudio <= file.declared
      /\ file.unknown => EndOfAudio = file.present
      /\ EndOfAudio = file.present \/ (~file.unknown /\ EndOfAudio = file.declared)
  BY <1>1 DEF EndOfAudio, Least
<1>10. TypeOK'
  <2>1. TotalFrames' = TotalFrames
    BY DEF TotalFrames, Frames
  <2>2. last' \in Read
    BY <1>1, <1>3 DEF Read
  <2> QED
    BY <1>1, <1>2, <1>3, <1>5, <1>8, <2>1, <2>2 DEF TypeOK
<1>11. StreamInv'
  <2>1. Where' = Where + bytes /\ FrameBytes' = FrameBytes
    BY <1>2, <1>3, <1>8 DEF Where, FrameBytes
  <2>2. CASE frames = 0
    BY <1>1, <1>2, <1>3, <1>6, <1>8, <2>1, <2>2 DEF StreamInv
  <2>3. CASE frames # 0
    BY <1>1, <1>2, <1>3, <1>7, <1>8, <2>1, <2>3 DEF StreamInv
  <2> QED
    BY <2>2, <2>3
<1>12. ReadsReturnTheFramesAtPosition'
  BY <1>3, <1>7 DEF ReadsReturnTheFramesAtPosition, Where, FrameBytes
<1>13. (EndOfAudio' = EndOfAudio) /\ (FrameBytes' = FrameBytes)
  BY <1>3 DEF EndOfAudio, FrameBytes
<1>14. NoReadReturnsMetadata'
  <2>1. ASSUME in_step, frames # 0
        PROVE  stream + bytes <= EndOfAudio
    <3>1. ASSUME ~file.unknown
          PROVE  stream + bytes <= file.declared
      <4>1. end * FrameBytes <= TotalFrames * FrameBytes
        BY <1>1, <1>2, <1>5, <3>1, TimesFacts
      <4>2. TotalFrames * FrameBytes <= file.declared
        BY <1>1, FramesFacts DEF TotalFrames
      <4>3. TotalFrames * FrameBytes \in Nat
        BY <1>1, TimesFacts
      <4> QED
        BY <1>1, <1>2, <1>7, <2>1, <4>1, <4>2, <4>3
    <3> QED
      BY <1>4, <1>9, <2>1, <3>1
  <2> QED
    BY <1>3, <1>13, <2>1 DEF NoReadReturnsMetadata, bytes, FrameBytes
<1>15. ShortReadsMeanTheEnd'
  <2>1. ASSUME in_step, frames < asked, ~file.unknown \/ method = "read_raw_all"
        PROVE  (end + 1) * FrameBytes > EndOfAudio
    <3>1. CASE frames = Remaining /\ ~file.unknown
      <4>1. file.declared < TotalFrames * FrameBytes + FrameBytes
        BY <1>1, FramesFacts DEF TotalFrames
      <4>2. (end + 1) * FrameBytes = TotalFrames * FrameBytes + FrameBytes
        BY <1>1, <1>5, <3>1, TimesFacts
      <4>3. TotalFrames * FrameBytes \in Nat
        BY <1>1, TimesFacts
      <4> QED
        BY <1>1, <1>9, <3>1, <4>1, <4>2, <4>3
    <3>2. CASE file.present < stream + bytes + FrameBytes
      <4>1. file.present < Where + bytes + FrameBytes
        <5>1. CASE frames = 0
          BY <1>1, <1>2, <1>6, <2>1, <3>2, <5>1
        <5>2. CASE frames # 0
          BY <1>7, <2>1, <3>2, <5>2
        <5> QED
          BY <5>1, <5>2
      <4> QED
        BY <1>1, <1>2, <1>9, <4>1
    <3> QED
      BY <1>8, <2>1, <3>1, <3>2
  <2> QED
    BY <1>3, <1>13, <2>1 DEF ShortReadsMeanTheEnd, end, FrameBytes
<1> QED
  BY <1>10, <1>11, <1>12, <1>14, <1>15 DEF Inv, LastInv

\* A call that fails, and leaves the stream anywhere.
LEMMA FailedStep ==
    ASSUME Inv, NEW method \in Methods, NEW asked \in Nat,
           NEW outcome \in {"eof", "failed"},
           UNCHANGED <<file, frames_pos>>, in_step' = FALSE, stream' \in Nat,
           Returned(method, outcome, asked, 0)
    PROVE  Inv'
<1>1. /\ file \in Files /\ frames_pos \in Nat /\ stream \in Nat /\ in_step \in BOOLEAN
      /\ ~file.unknown => frames_pos <= TotalFrames
  BY DEF Inv, TypeOK
<1>2. /\ last'.outcome = outcome /\ last'.frames = 0
      /\ last' = [method |-> method, outcome |-> outcome, asked |-> asked, frames |-> 0,
                  position |-> frames_pos, from |-> stream, in_step |-> in_step]
  BY DEF Returned
<1>3. TypeOK'
  <2>1. last' \in Read
    BY <1>1, <1>2 DEF Read
  <2>2. TotalFrames' = TotalFrames
    BY DEF TotalFrames, Frames
  <2> QED
    BY <1>1, <2>1, <2>2 DEF TypeOK
<1>4. StreamInv'
  BY DEF StreamInv
<1>5. LastInv'
  BY <1>2 DEF LastInv, ReadsReturnTheFramesAtPosition, NoReadReturnsMetadata,
              ShortReadsMeanTheEnd
<1> QED
  BY <1>3, <1>4, <1>5 DEF Inv

-----------------------------------------------------------------------------
(* The calls.                                                              *)

LEMMA ReadFloatsInv ==
    ASSUME Inv, NEW method \in {"read_into_float", "read_all_to_float"},
           NEW asked \in Nat, NEW want \in Nat,
           want <= Remaining, want < asked => want = Remaining,
           ReadFloats(method, asked, want)
    PROVE  Inv'
<1>1. /\ file \in Files /\ stream \in Nat /\ file.present \in Nat
      /\ file.sample_bytes \in Nat /\ file.sample_bytes # 0 /\ file.unknown \in BOOLEAN
      /\ FrameBytes \in Nat /\ FrameBytes # 0 /\ file.sample_bytes <= FrameBytes
      /\ Ahead \in Nat
  BY FileFacts, AheadFacts DEF Inv, TypeOK, ReadFloats, FrameBytes
<1>2. method \in Methods /\ method # "read_raw_all"
  BY DEF Methods
<1>3. CASE FloatsRead(method, asked, want)
  <2> DEFINE frames == Least(want, Frames(Ahead))
             end    == stream + frames * file.frame_bytes
  <2>1. /\ frames < want => file.present < end + file.sample_bytes
        /\ frames_pos' = frames_pos + frames
        /\ stream' \in IF frames < want THEN {end, Greatest(file.present, end)} ELSE {end}
        /\ Returned(method, "ok", asked, frames)
        /\ UNCHANGED <<file, in_step>>
    BY <1>3 DEF FloatsRead
  <2>2. /\ frames \in Nat /\ frames <= want /\ (frames = want \/ frames < want)
        /\ frames * FrameBytes <= Ahead
        /\ frames * FrameBytes \in Nat
    <3>1. Frames(Ahead) \in Nat /\ Frames(Ahead) * FrameBytes <= Ahead
      BY <1>1, FramesFacts DEF FrameBytes
    <3>2. frames \in Nat /\ frames <= want /\ frames <= Frames(Ahead)
            /\ (frames = want \/ frames < want)
      BY <3>1 DEF Least
    <3> HIDE DEF frames
    <3>3. /\ frames * FrameBytes <= Frames(Ahead) * FrameBytes
          /\ frames * FrameBytes \in Nat /\ Frames(Ahead) * FrameBytes \in Nat
      BY <1>1, <3>1, <3>2, TimesFacts
    <3> QED
      BY <1>1, <3>1, <3>2, <3>3
  <2>3. end = stream + frames * FrameBytes
    BY DEF FrameBytes
  <2> HIDE DEF frames, end
  <2>4. /\ end \in Nat /\ stream' \in Nat
        /\ frames < want => file.present < end + FrameBytes
        /\ stream' = end \/ (stream' >= end /\ file.present < end + FrameBytes)
    BY <1>1, <2>1, <2>2, <2>3 DEF Greatest
  <2>5. /\ ~file.unknown => frames <= Remaining
        /\ frames < asked => \/ frames = Remaining /\ ~file.unknown
                             \/ file.unknown /\ method # "read_raw_all"
                             \/ file.present < end + FrameBytes
    BY <1>1, <1>2, <2>2, <2>4, TotalFacts DEF Inv
  <2> QED
    BY <1>1, <1>2, <2>1, <2>2, <2>3, <2>4, <2>5, ReadStep DEF FrameBytes
<1>4. CASE FloatsCutOff(method, asked, want)
  <2> DEFINE left == Ahead % file.frame_bytes
  <2>1. /\ stream' \in {file.present - (left % file.sample_bytes), file.present}
        /\ Returned(method, "eof", asked, 0) /\ in_step' = FALSE
        /\ UNCHANGED <<file, frames_pos>>
    BY <1>4 DEF FloatsCutOff
  <2>2. left \in Nat /\ left <= Ahead
    BY <1>1, ModFacts DEF FrameBytes
  <2> HIDE DEF left
  <2>3. left % file.sample_bytes \in Nat /\ left % file.sample_bytes <= left
    BY <1>1, <2>2, ModFacts
  <2>4. Ahead <= file.present
    BY <1>1 DEF Ahead, SatSub
  <2>5. stream' \in Nat
    BY <1>1, <2>1, <2>2, <2>3, <2>4
  <2> QED
    BY <1>2, <2>1, <2>5, FailedStep
<1>5. CASE FloatsFail(method, asked, want)
  <2>1. /\ stream' \in Nat
        /\ Returned(method, "failed", asked, 0) /\ in_step' = FALSE
        /\ UNCHANGED <<file, frames_pos>>
    BY <1>1, <1>5 DEF FloatsFail
  <2> QED
    BY <1>2, <2>1, FailedStep
<1> QED
  BY <1>3, <1>4, <1>5 DEF ReadFloats

\* The limit is a number of frames, or, for read_raw_all on a file of unknown
\* length, more than there is.
LEMMA ReadBytesInv ==
    ASSUME Inv, NEW method \in {"read_raw_interleaved", "read_raw_all"},
           NEW asked \in Nat, NEW limit \in Nat, NEW want \in Nat,
           \/ /\ limit = want * FrameBytes
              /\ want <= Remaining /\ (want < asked => want = Remaining)
              /\ method = "read_raw_all" => ~file.unknown
           \/ limit = Everything /\ file.unknown,
           ReadBytes(method, asked, limit)
    PROVE  Inv'
<1>1. /\ file \in Files /\ stream \in Nat /\ file.present \in Nat
      /\ file.unknown \in BOOLEAN
      /\ FrameBytes \in Nat /\ FrameBytes # 0 /\ file.frame_bytes # 0
      /\ Ahead \in Nat /\ file.present <= stream + Ahead /\ Ahead <= file.present
  BY FileFacts, AheadFacts DEF Inv, TypeOK, ReadBytes, FrameBytes, Ahead, SatSub
<1>2. method \in Methods
  BY DEF Methods
<1>3. CASE BytesRead(method, asked, limit)
  <2> DEFINE n      == Least(limit, Ahead)
             frames == Frames(n)
  <2>1. /\ stream' = stream + n /\ frames_pos' = frames_pos + frames
        /\ Returned(method, "ok", asked, frames)
        /\ UNCHANGED <<file, in_step>>
    BY <1>3 DEF BytesRead
  <2>2. n \in Nat /\ n <= limit /\ n <= Ahead /\ (n = limit \/ n = Ahead)
    BY <1>1 DEF Least
  <2>3. frames \in Nat /\ frames * FrameBytes <= n /\ n < frames * FrameBytes + FrameBytes
    BY <1>1, <2>2, FramesFacts
  <2> HIDE DEF n, frames
  <2>4. frames * FrameBytes \in Nat /\ frames * FrameBytes <= Ahead
    BY <1>1, <2>2, <2>3, TimesFacts
  <2>5. n = Ahead => file.present < stream + frames * FrameBytes + FrameBytes
    BY <1>1, <2>2, <2>3, <2>4
  <2>6. ASSUME limit = want * FrameBytes
        PROVE  frames <= want /\ (n = limit => frames = want)
    <3>1. want * FrameBytes \in Nat
      BY <1>1, TimesFacts
    <3>2. frames <= want
      BY <1>1, <2>2, <2>3, <2>4, <2>6, <3>1, Cancel
    <3>3. n = limit => want <= frames
      BY <1>1, <2>2, <2>3, <2>6, Cancel
    <3> QED
      BY <2>3, <3>2, <3>3
  <2>7. limit = Everything => n = Ahead
    BY <1>1, <2>2 DEF Everything
  <2>8. \/ stream' = stream + frames * FrameBytes
        \/ /\ stream' >= stream + frames * FrameBytes
           /\ file.present < stream + frames * FrameBytes + FrameBytes
    <3>1. CASE n = Ahead
      BY <1>1, <2>1, <2>2, <2>3, <2>4, <2>5, <3>1
    <3>2. CASE n # Ahead
      BY <2>1, <2>2, <2>6, <2>7, <3>2
    <3> QED
      BY <3>1, <3>2
  <2>9. ~file.unknown => frames <= Remaining
    BY <1>1, <2>3, <2>6, TotalFacts DEF Inv
  <2>10. frames < asked => \/ frames = Remaining /\ ~file.unknown
                           \/ file.unknown /\ method # "read_raw_all"
                           \/ file.present < stream + frames * FrameBytes + FrameBytes
    <3>1. CASE n = Ahead
      BY <2>5, <3>1
    <3>2. CASE n # Ahead
      BY <1>1, <2>2, <2>6, <2>7, <3>2
    <3> QED
      BY <3>1, <3>2
  <2>11. stream' \in Nat
    BY <1>1, <2>1, <2>2
  <2> QED
    BY <1>1, <1>2, <2>1, <2>3, <2>4, <2>8, <2>9, <2>10, <2>11, ReadStep
<1>4. CASE BytesFail(method, asked, limit)
  <2>1. /\ stream' \in Nat
        /\ Returned(method, "failed", asked, 0) /\ in_step' = FALSE
        /\ UNCHANGED <<file, frames_pos>>
    BY <1>1, <1>4 DEF BytesFail
  <2> QED
    BY <1>2, <2>1, FailedStep
<1> QED
  BY <1>3, <1>4 DEF ReadBytes

\* A seek puts the stream at the frame it counts to.
LEMMA SeekInv ==
    ASSUME Inv, NEW frame \in Nat, SeekToFrame(frame)
    PROVE  Inv'
<1>1. /\ file \in Files /\ FrameBytes \in Nat /\ TotalFrames \in Nat
  BY FileFacts, TotalFacts DEF Inv, TypeOK, FrameBytes
<1>2. /\ stream' = frames_pos' * FrameBytes /\ frames_pos' = Least(frame, TotalFrames)
      /\ in_step' = TRUE /\ UNCHANGED <<file, last>>
  BY DEF SeekToFrame, FrameBytes
<1>3. frames_pos' \in Nat /\ frames_pos' <= TotalFrames
  BY <1>1, <1>2 DEF Least
<1>4. stream' \in Nat
  BY <1>1, <1>2, <1>3, TimesFacts
<1>5. TypeOK'
  <2>1. TotalFrames' = TotalFrames
    BY <1>2 DEF TotalFrames, Frames
  <2> QED
    BY <1>2, <1>3, <1>4, <2>1 DEF Inv, TypeOK
<1>6. StreamInv'
  BY <1>2 DEF StreamInv, Where, FrameBytes
<1>7. LastInv'
  BY <1>2 DEF Inv, LastInv, ReadsReturnTheFramesAtPosition, NoReadReturnsMetadata,
              ShortReadsMeanTheEnd, EndOfAudio
<1> QED
  BY <1>5, <1>6, <1>7 DEF Inv

LEMMA InitInv == Init => Inv
<1> SUFFICES ASSUME Init PROVE Inv
  OBVIOUS
<1>1. /\ file \in Files /\ FrameBytes \in Nat /\ TotalFrames \in Nat
  <2>1. file \in Files
    BY DEF Init
  <2> QED
    BY <2>1, FileFacts, FramesFacts DEF FrameBytes, TotalFrames, Frames
<1>2. /\ last.frames = 0 /\ last.asked = 0
      /\ last = [method |-> "none", outcome |-> "ok", asked |-> 0, frames |-> 0,
                 position |-> 0, from |-> 0, in_step |-> TRUE]
  BY DEF Init
<1>3. TypeOK
  <2>1. last \in Read
    BY <1>2 DEF Read
  <2> QED
    BY <1>1, <2>1 DEF Init, TypeOK
<1>4. StreamInv
  BY <1>1 DEF Init, StreamInv, Where
<1>5. LastInv
  BY <1>2 DEF LastInv, ReadsReturnTheFramesAtPosition, NoReadReturnsMetadata,
              ShortReadsMeanTheEnd
<1> QED
  BY <1>3, <1>4, <1>5 DEF Inv

LEMMA NextInv == Inv /\ [Next]_vars => Inv'
<1> SUFFICES ASSUME Inv, [Next]_vars PROVE Inv'
  OBVIOUS
<1>1. /\ Remaining \in Nat /\ FrameBytes \in Nat /\ file.present \in Nat
      /\ file.unknown \in BOOLEAN /\ MaxAsk \in Nat
  BY TotalFacts, FileFacts, BoundAssumption DEF Inv, TypeOK, FrameBytes
<1>2. Everything \in Nat
  BY <1>1 DEF Everything
<1>3. CASE UNCHANGED vars
  BY <1>3 DEF vars, Inv, TypeOK, TotalFrames, Frames, StreamInv, Where, FrameBytes,
              LastInv, ReadsReturnTheFramesAtPosition, NoReadReturnsMetadata,
              ShortReadsMeanTheEnd, EndOfAudio
<1>4. ASSUME NEW frames \in 0 .. MaxAsk, ReadIntoFloat(frames)
      PROVE  Inv'
  <2>1. /\ frames \in Nat
        /\ Least(frames, Remaining) \in Nat /\ Least(frames, Remaining) <= Remaining
        /\ Least(frames, Remaining) < frames => Least(frames, Remaining) = Remaining
    BY <1>1 DEF Least
  <2> QED
    BY <1>4, <2>1, ReadFloatsInv DEF ReadIntoFloat
<1>5. CASE ReadAllToFloat
  BY <1>1, <1>2, <1>5, ReadFloatsInv DEF ReadAllToFloat
<1>6. ASSUME NEW frames \in 0 .. MaxAsk, ReadRawInterleaved(frames)
      PROVE  Inv'
  <2> DEFINE want == Least(frames, Remaining)
  <2>1. /\ frames \in Nat /\ want \in Nat /\ want <= Remaining
        /\ want < frames => want = Remaining
    BY <1>1 DEF Least
  <2>2. ReadBytes("read_raw_interleaved", frames, want * FrameBytes)
    BY <1>6 DEF ReadRawInterleaved, FrameBytes
  <2> HIDE DEF want
  <2>3. want * FrameBytes \in Nat
    BY <1>1, <2>1, TimesFacts
  <2> QED
    BY <2>1, <2>2, <2>3, ReadBytesInv
<1>7. CASE ReadRawAll
  <2>1. CASE file.unknown
    <3>1. ReadBytes("read_raw_all", Everything, Everything)
      BY <1>7, <2>1 DEF ReadRawAll, RawLimit
    <3> QED
      BY <1>2, <2>1, <3>1, ReadBytesInv
  <2>2. CASE ~file.unknown
    <3>1. ReadBytes("read_raw_all", Everything, Remaining * FrameBytes)
      BY <1>7, <2>2 DEF ReadRawAll, RawLimit, FrameBytes
    <3>2. Remaining * FrameBytes \in Nat
      BY <1>1, TimesFacts
    <3> QED
      BY <1>1, <1>2, <2>2, <3>1, <3>2, ReadBytesInv
  <2> QED
    BY <2>1, <2>2
<1>8. ASSUME NEW frame \in 0 .. MaxAsk, SeekToFrame(frame)
      PROVE  Inv'
  BY <1>1, <1>8, SeekInv
<1> QED
  BY <1>3, <1>4, <1>5, <1>6, <1>7, <1>8 DEF Next

LEMMA Invariance == Spec => []Inv
BY InitInv, NextInv, PTL DEF Spec

-----------------------------------------------------------------------------

\* Every variable keeps its type, and the position of a file of known length
\* stays within it.
THEOREM ReaderTypeCorrect == Spec => []TypeOK
BY Invariance, PTL DEF Inv

\* A read returns the frames at position(), whatever was read and sought
\* before it.
THEOREM ReadsAreAtPosition == Spec => []ReadsReturnTheFramesAtPosition
BY Invariance, PTL DEF Inv, LastInv

\* No read returns bytes behind the declared audio.
THEOREM NoMetadataIsRead == Spec => []NoReadReturnsMetadata
BY Invariance, PTL DEF Inv, LastInv

\* A short read means that no whole frame is left.
THEOREM ShortReadsAreLast == Spec => []ShortReadsMeanTheEnd
BY Invariance, PTL DEF Inv, LastInv
=============================================================================
