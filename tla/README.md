# A TLA+ model of waveadapter

waveadapter (`src/`) is a Rust library that reads and writes WAV files. It is
single-threaded; what makes it hard is bookkeeping. A writer keeps three
counters, an output stream and a header that is patched later, and moves each
with separate statements; a reader keeps a frame position and a byte stream and
walks through a file that may say anything about itself. This directory holds
TLA+ models of those state machines, TLC runs on small instances, and proofs
checked by TLAPS for every instance.

## The system

| Component | Source | State | Operations |
|---|---|---|---|
| Builder and header writer | `src/writer.rs` 139-590, `src/header.rs` 1119-1189 | a running position, the offsets of the size fields | open (RIFF, streaming, RF64), one chunk after another |
| WavWriter | `src/writer.rs` 674-1273 | `data_bytes`, `data_pos`, `trailing_bytes`, the stream, the header on disk | write floats, write bytes, seek, truncate, write a chunk, refresh the header, finalize, into_inner |
| Header parser | `src/header.rs` 357-436, 880-1117 | next location, end of scan, ds64 sizes, what was found | one loop over the chunks |
| WavReader | `src/reader.rs` | `frames_pos`, the stream | two float reads, two raw reads, seek |
| FmtChunk, SampleFormat, WavSpec | `src/header.rs` 50-132, 445-875, `src/format.rs` | none | build, encode, decode, classify |
| Typed metadata | `src/metadata.rs` | the tags, entries, points or fields of one chunk | decode a body, edit, encode it again |
| Whole-file helpers | `src/highlevel.rs` | none | fixed sequences of the above |
| Sample conversion | `src/dispatch.rs`, external crate | none | one sample to bytes and back |

The builder checks a request, writes the header and hands the writer the
header's length and the offsets of the fields to patch. The writer calls
nothing but its output stream (`Write`, `Seek`, `Truncate`). `WavReader::new`
calls the parser, seeks to the audio, and from then on calls nothing but its
input stream. A caller joins the two sides: what the parser returns (`fmt`,
`fact`, the chunks before and after the audio) is what the builder and
`write_chunk` accept.

What makes each correct:

- **header writer**: every offset it hands out is that of the field it names,
  although the position is computed from what chunks should occupy, and odd
  lengths occur in four places; refused headers leave no file.
- **writer**: the stream stands where `data_pos` says; the counters account for
  every byte of the file; a finalized header is exact; a header on disk never
  claims more than the file holds; the 32-bit limit is enforced at its boundary
  and not past it.
- **parser**: ends on every file, reads no more than the file, never hands out
  audio as metadata or a chunk it owns, and is not re-pointed by a later chunk.
- **reader**: reads return the frames at `position()`; no read returns bytes
  behind the audio; a short read means the end.
- **typed metadata**: what is written is read back; only the first read of a
  foreign body loses anything; a text fits back into the field it came from.
- **all of it together**: a file is read as it was written, at any time of its
  life at which a kill may leave it, and a copy of a file reads as the file did.

The hard behaviours are long sequences of legal calls, boundaries (odd lengths,
the 32-bit limit, saturation), calls that fail half way, and a process killed
between two writes. `PROJECT.json` lists each hazard at its line.

## The modules

**ByteFile** holds the operators the others share. A file is a sequence of
cells, a cell being one byte: an audio byte is a model value, a byte of a chunk
is a record naming the chunk and its place in it, so that a chunk that was cut
or overwritten can be told from a whole one.

**AudioTrack** is what a writer promises, without files: a track of audio bytes
with a cursor, trimming and zero filling, and after it a tail of whole chunks
that freezes the track.

**WavWriter** is the writer after its header was written. An action is a call
of a public method, run to its end on an output that does not fail; a refused
call changes nothing and is a guard that does not hold (every refusal in this
part of the code comes before the first statement that changes anything), and so
does a trim at or past the end of the audio, which succeeds with nothing to do. The
file is kept apart from what the writer believes: `body`, `pos` and `hdr` are
what is on disk, `data_bytes`, `data_pos` and `trailing_bytes` the fields of the
struct. `cfg` is what the header writer leaves behind: container, streaming or
not, header length, frame size, who supplies the sample count and where it is.
`Spec` has a
free caller. `DisciplinedSpec` has a caller that starts trailing chunks with the
cursor at the end of the audio; the code does not enforce that, and the run
`v_chunk_overwrites` shows why it matters. The discipline is a guard the models
add, never one the code has, and only the properties of that specification
depend on it.

**WavRecovery** extends WavWriter with outputs that fail and processes that
are killed. A call is a list of steps (`io`), one per call to the output, and
`Take...` takes the next one: a flush, a seek, audio, a part of a chunk, a size
field, the shortening of the file. What the struct notes for a step
(`data_pos`, `data_bytes`, `trailing_bytes`) is noted with it, as the statements
behind each `?` do. `Fail` makes the next step fail instead and ends the call
where it stands, a write having emitted a part of its bytes; `finalize` and
`into_inner` take the writer with them. A kill needs no action: a killed
process takes no further step, so an invariant speaks of every file a kill can
leave. The remaining variables are history: the audio as the successful calls
made it, the bytes a failed write has overwritten, the audio the last refresh
described. The output is unbuffered; a `BufWriter` delivers in order and flushes
when it seeks, so a kill leaves a file of a few steps earlier, which is a
reachable state as well. The caller is careful, in two ways the code does not
demand: it starts chunks at the end of the audio, and after a failed call it
writes nothing until a seek, or a trim that shortens the file, has succeeded
(`adrift`). A trim with nothing to cut off is no way back: the code returns `Ok`
before its first call to the output, so the stream stays where the failure left
it, inside the header if that was an `update_header`. `StartTrim` has both
cases. The second also meets a caller that repeats a trim whose last step, the
seek, has failed: the file is short already, and the repeated call does nothing.
After a failure behind the audio, where seeks are refused, the caller adds no
more chunks; it can only refresh the header or finish.

**Formats** is the fmt chunk between a caller's spec, the bytes of a file and
the sample format: `for_spec`, `to_bytes`, `from_bytes`, `sample_format`,
`frame_bytes`, `channel_mask` and `WavParams::spec` as operators, and the life
of a chunk that is built, filled in by hand or found in a file, and then
written and read again and again.

**HeaderWriter** is `write_header`, an action per chunk. The file is the number
of bytes emitted and the set of fields in them, each with its place, its width
and the number in it. `header_len` is the code's running position, computed as
the code computes it; `emitted` grows by what is written.

**HeaderWalk** is `read_wav_header`, an action per kind of loop iteration. The
file is not a variable: the walk never looks at a place twice, so what is there
is chosen when it is read, which gives every file. `bodies` records what was
read into memory. The ids are the ones the code tells apart, plus one that is
no id; RF64 and BW64 are treated alike, as in the code.

**WavReader** is the reader on a header that was parsed. A file is the declared
length, whether it is the placeholder, the sizes of frames and samples, and the
bytes that are present. The stream may fail in any read; `in_step` records
whether one has since the last seek, `last` what the last read returned. When a
file ends inside a sample, `read_exact` does not say where it leaves the
stream, so the model takes both.

**RoundTrip** composes the two sides. It extends HeaderWriter, whose actions
write the header; a writer records audio behind it, attaches chunks and patches
sizes, one field per step, until it is finished or killed; then the actions of
HeaderWalk, taken by INSTANCE, are applied to the chunk header that the file has
at `next`. Where the file has none, in the audio or between chunks, the walk
may see anything (`Looks`; the run has eight such headers, the proofs any set).
Audio is recorded as long as a patched RIFF size can describe it
(`FitsCapacity`), and no file is as long as a `u64` can say. At last the file is
copied: what was read becomes the request of a second writer, which is driven as
the documentation says to rewrite a file, and its file is read as well. A file
that was killed between the two size patches (`Torn`) is not copied, since
whatever its audio looks like may be among what was read. The caller ends the
audio before the first chunk and no call fails; what happens otherwise is the
subject of WavWriter and WavRecovery.

**Metadata** is `metadata.rs`: the decoders and encoders of the five kinds of
bodies as operators on bytes, the two text encodings included, and the life of
a chunk that is found in a file, read, edited by the methods of `InfoList` or
filled in by hand, written, and read again. Text is as wide as in the code:
UTF-8 is decoded and encoded byte by byte. Every other field has half its width
(a u32 is a number of two bytes, an id two letters, a cue point 12 bytes), which
keeps each size's parity and each boundary between fields. A decoder that gives
up returns `None` as in the code, and a body that is cut off ends the loop. The
loops of the code are recursive functions of the place they have got to
(`CharsFrom`, `SubChunksFrom`, `FieldAt`). `IsValue` says what a caller can hold:
strings of chars, numbers of their width, and no text, list or data whose length
the `as u32` of its encoder would cut.

The MC modules give the constants values. The proofs are in WavWriterProofs
(with the lemmas about ByteFile), WavRecoveryProofs, which builds on it,
HeaderWriterProofs, RoundTripProofs, which builds on that, HeaderWalkProofs,
WavReaderProofs, FormatsProofs and MetadataProofs.

## The runs

| Run | Question | Bounds |
|---|---|---|
| `writer_disciplined` | do stream, cursor and capacity checks agree, is the file what the counters and the header say, does the writer implement AudioTrack? | 10 writers, 4 writes, 6 bytes of audio, 20 of chunks |
| `round_trip` | do the writer and the parser agree on every header, and on every file it can begin, finished, killed or copied? | 7 fmts, 9 facts, 6 lists of leading chunks, 3 containers; 2 bytes of audio, 2 chunks behind it |
| `header_walk` | does the walk end, bounded and undeceived, on any file? | 51 bytes, that is up to 4 chunks |
| `reader` | do reads return the frames at the position? | 36 files, up to 3 frames asked for |
| `recovery` | what do failed calls and kills leave behind, and does a seek put the writer right? | 3 writers, 3 bytes of audio, one odd chunk, writes torn after at most 1 byte |
| `formats` | is what was asked for what is read, for every format and mask, and what becomes of foreign chunks? | 810 specs, 6 codes, 8 frame sizes, 4 forms of extension, 6 lengths of bodies |
| `metadata` | is what is written read back, and does only a first read lose anything? | 9 texts, lists of up to 2 sub-chunks of 9 bodies, each whole, lying or unpadded, text fields of 4 and 3 bytes, up to 2 records and a part; 1 edit, 2 writes |
| `v_chunk_overwrites` | does a chunk never replace audio? It does | as `writer_disciplined`, with 9 writers and any caller |
| `v_finalize_fails` | can every writer be finalized? It cannot | as `writer_disciplined`, with 9 writers |
| `v_partial_frame` | does read_all_to_float drop a partial frame? Not one cut behind its first sample | as `reader` |
| `v_stream_chunk_lost` | does a chunk attached to a stream come back? It does not | as `round_trip`, with one chunk |
| `v_text_shifts` | is a text that was read the same when written and read again? Not always | as `metadata` |

Why the bounds are enough:

- `u32::MAX` is scaled down so that the limit lies within the bounds. In the
  writer it is 55: headers of 44, 58 and 60 bytes leave room for 19, 5 and 3
  bytes of audio. So the limit is reached in the middle of a frame and at a
  frame, by a write, by a seek and by chunks, and `MaxData` (6) lies beyond it
  for the RIFF writers with leading chunks. An 8-bit writer reaches it through
  its chunks, and the tenth writer, whose header is 64 bytes long, is past it
  before any audio.
- the audio is long enough for a seek back, an overwrite inside it, one across
  its end, a gap and a trim on each side of the cursor; `MaxTail` (20) takes two
  chunks, one of odd size, after odd audio.
- a walk over four chunks has room for `ds64`, `fmt `, `data` and one more in
  any order, and for any of them twice. Field positions in `ds64` and
  `FmtChunk::CORE_SIZE` are scaled down with the lengths.
- in `recovery` the limit is 62: a header of 58 bytes, two bytes of audio and
  the chunk fill the file to the last byte, where the RIFF size is the number that
  also stands for one not yet known; with three bytes of audio the refresh is
  refused in the middle of a call. A torn write of one byte out of several is what
  matters: more torn bytes are a longer rest that a later write covers or not.
  One frame and one byte beyond it are enough for a seek back, an overwrite, a
  filled gap over torn bytes, a trim and a refresh between any two of them.
- in `formats` a frame has at most 24 bytes and a second at most 96, so the
  checks of the frame size and of the byte rate each refuse specs the other lets
  through (those of channels and rate are implied by them); masks
  name no, one, two or three speakers for up to four channels. Bit depths,
  container widths and codes are the real ones; of the GUIDs there are the four
  with a name and one of all the others.
- in `round_trip` the six lists of leading chunks hold none, an even, an odd one,
  both orders, and each of the two refusals; two bytes of audio and two chunks
  suffice for odd audio before a chunk, a chunk behind a chunk, a refresh
  between any two of them and a kill between any two patches. `u32::MAX` (300)
  lies beyond every file, so that it is seen only as a marker, a placeholder
  or a length too long; its boundary is the subject of `writer_disciplined`.
- in `metadata` the texts are empty, ASCII, Latin-1, UTF-8 of two and three
  bytes, Latin-1 that is also UTF-8, with a NUL inside, too long for either
  field, and such that the field ends inside a character. A loop over
  sub-chunks or records has no memory but its place, so two pieces, each of
  which may be short, lie, or lack its pad, give every way one can misplace the
  next. Two writes are a first and a second pass.
- a reader's files end inside and between frames, before and after the declared
  end, in the first and in the second sample of a frame.

Bounds in guards are the constants `MaxFrame`, `MaxData` and `MaxTail` of
WavWriter, `MaxTorn` of WavRecovery, `MaxAudio` and `MaxAttached` of RoundTrip
and `MaxEdits` and `MaxWrites` of Metadata; `MaxAsk` of WavReader bounds what a
caller asks for. Nothing else cuts behaviours off. `CHECK_DEADLOCK FALSE` appears where the system may really
stop: a consumed writer, a finished walk, a copy that was read, a reader of a
file whose frames have no size, a refused chunk, a chunk written often enough.

**Fairness.** Only HeaderWalk has any: `WF_vars(Next)`, the loop runs as long
as it can, which holds for a function that nothing blocks. It is needed for
`WalkEnds`. The writer and the reader are driven by a caller nobody can demand
a call from, so their specifications are safety only.

## The findings

Five runs end in a counterexample, each against a sentence of the
documentation or a comment; `PROJECT.json` quotes them.

1. `write_chunk` writes at the stream's position. After a backward seek that is
   in the audio: the chunk replaces audio, and the finalized sizes exceed the
   file.
2. `write_chunk` makes no capacity check, so finalize can fail on a file that
   was only ever driven through the writer. (Leading chunks can do the same:
   each is checked by itself, `src/writer.rs:282`, and never their total. No
   audio is accepted behind such a header, which `AudioAloneAlwaysFits` says.)
3. `read_all_to_float` fails on a file cut behind the first sample of a frame.
4. A chunk attached to a streaming RIFF writer is accepted, and is read as
   audio: the data size of a stream never closes.
5. The bytes `C3 83 C2 A9` are UTF-8 for two characters that are both in
   Latin-1; they are written as `C3 A9`, which is UTF-8 for one. A text can
   change once more each time it passes, which the fuzz target's assertion rules
   out. `LossesHappenOnce` states what does hold: nothing but such a text changes
   after the first read.

Four more disagreements are met in the models and have no run of their own. A
forward seek fills with zero bytes, which is full scale in U8 and not silence in
A-law and mu-law, where the doc promises silence (`src/writer.rs:1065`). And the
parser hands out a chunk named `RIFF`, which the writer refuses
(`src/writer.rs:135`), although what it hands out can be passed straight back
(`README.md:211`). The third was met by a proof: `write_chunk` accepts any four
bytes for an id (`src/writer.rs:139`), and the parser ends its walk at one behind
the audio that is not printable (`src/header.rs:432`), so that such a chunk and
those behind it are written and not read. `RoundTripAssumption` leaves such ids
out of what is attached. And `read_all_to_float` of a stream of unknown length
stops after the frames the placeholder stands for, 4 GB of them, where its doc has
it read "until the end of the data" (`src/reader.rs:176`), as `read_raw_all` does;
`ShortReadsMeanTheEnd` leaves this one read out.

## The proofs

For `WavWriter`, from the assumptions named in that module (a header of at
least 44 bytes, of any length beyond that; RF64 and seekable RIFF outputs can
seek; zero is not one of the caller's audio bytes, and
neither is a cell of a chunk).

`Inv` is inductive for `Spec`:

    Inv == TypeOK /\ StreamAtCursor /\ StreamInBody /\ DataFits

`StreamAtCursor` is the property that matters, and alone it is not inductive.
It says nothing once a chunk was written, when the stream may stand anywhere in
the audio; `StreamInBody` says it still stands inside the file, without which a
write would leave a hole and `body` would not be a sequence of cells. And a
write in front of the end is checked against the larger of the extent and the
write's end, so that the extent already fits has to be known: `DataFits`, which says so
of every file that has audio. One without any may have a header that is too long by
itself; then no byte, and not even an empty write, passes the check. From
`Inv` follow `TypeCorrect`, `StreamFollowsCursor`, `AudioAloneFits` and
`RemainingFramesExact`. The last needs division: `WholeFrames` says that n
frames fit a number of bytes exactly if n is at most the quotient.

`DInv` is inductive for `DisciplinedSpec`:

    DInv == Inv /\ FileIsExactlyDescribed /\ FinalizedSizesAreExact

The first chunk starts at the end of the audio by the discipline, every later
one where the previous one ended, so `Put` appends (`PutAtEnd`) and the length
of the file is the sum of the counters. From it follow `FileExactlyDescribed`,
`FinalizedSizesExact`, and `OnlyTrimsUncover`, the action property: a refresh
writes sizes the file holds, and every other step leaves the header alone and
the file no shorter, except a trim.

`TailWalkable` adds to `DInv` that the file is audio and filling
while nothing trails it, so that nothing in the audio looks like the first byte
of a chunk. A chunk that is appended then begins exactly where the walk has got
to (`WalkAppended`): at the padded end of the audio, or at the old end of the
file, which is why only the first one is preceded by a pad.

`WriterImplementsTrack` is the refinement. The mapping is that of
the run. While nothing trails the audio, the track is the whole file
(`FileIsAudio`) and the actions map one to one; a chunk leaves the part in front
of `data_bytes` alone and extends the part behind it (`AppendedBehind`); a
refresh of the header is a stutter, and every way a writer is consumed is
`Close`. The only invariant it needs beyond `DInv` is that the bound `MaxData`
holds, because the track's cursor moves within it.

For `WavRecovery`, from the same assumptions as `WavWriter` and its own about the
bounds, for every choice of headers, writes and chunks, every step that fails and
every state a kill may leave. The inductive invariant is

    IOInv == IOType /\ Extents /\ Pending /\ StreamRight /\ SizesNest
             /\ AudioIsWhatSucceeded

`Pending` is what a call cut into steps needs and a call in one step does not:
the steps still to take are those the call would plan now, or the last of them.
A filling seek in the middle is at the end of the audio with the filling left; a
trim that has shortened the file has its seek left, to the lesser of the cursor
and the new end; a refresh has taken k steps of `Plan`, and `Fresh(k)` says which
size fields those have brought up to date. So a step finds the writer where the
plan supposed it, and a failure, which ends the call there, leaves a state the
invariant already describes. `Extents` says that what the counters claim is in
the file whatever has failed, since each is moved only behind the `?` of its
write. `SizesNest` adds to `KilledFilesAreConsistent` that a data size on disk is
never more than `data_bytes`, or a patch of the RIFF size alone could leave
the old data size outside it. The three theorems
`KilledFilesConsistent`, `SeeksPutTheStreamRight` and `AudioWhatSucceeded` are
read off `IOInv`. They rest on the caller's discipline as it is stated above: a
call that succeeds ends the drift only if it moved the stream.

The proof corrected a property. A RIFF file filled to the last byte has the size
`u32::MAX`, which is also the placeholder, so "the data size is known" does not
imply that the RIFF size differs from the placeholder; the sizes nest all the
same, and that is what the property says now. The run was given a limit that
a file meets exactly.

`CallsImplementWriter` is the second refinement: WavWriter, where
a call is one step, is implemented by the calls of WavRecovery until one fails.
The mapping takes the writer to be where it was when the call began (`settled`),
so every step but the last of a call is a stutter. What the last step must show is
that the whole is what the action does at once, and that is `CallInv`: beside
`IOInv`, `Begun` says for each call which checks it has passed and what its steps
have changed since `settled`. A write, a seek that fills and a chunk rest on the
lemmas that pieces written one behind the other are those written at once (for a
chunk and the pad in front of it, `PadThenCells`); a refresh has patched the first
sizes of its plan and no other; into_inner has changed nothing. With it, what is
proved of WavWriter's calls holds between the calls of WavRecovery.

For `Formats`, from the types of what goes in (`InputsAssumption`) and no bound
on anything. `NumbersFit` is the type invariant: what `for_format` does not refuse
fits the widths of its fields, the two products included (`ForFormatTypes`), and
a body of any length reads as a chunk (`BytesTypes`). `FramesDeclared`: a format is found only for a whole number of
bytes per sample (`FormatHasItsWidth`), and an exact quotient multiplied again is
the number divided (`ExactQuotient`), so converting by samples and stepping by
frames agree. The invariant `CountedInv` says that the fields hold what their
widths allow, which for a built chunk is what `for_format` has checked.
`AskedIsRead`: the inductive invariant `BuiltInv` says that a life that began
with a spec holds the chunk built for it and no other. That is preserved because
decoding inverts encoding on built chunks (`BuiltRereads`); that the chunk is
looked up as the format asked for is `BuiltFormat`, by way of the two tables
(`PlainFormFound`, `ExtensibleFormFound`), which name each format once.
`SpecReproduces` joins the two: the spec of a chunk with a format asks for the
frames the chunk declares, and those fit their fields, so that only the mask or
the byte rate is left to refuse; otherwise the chunk built for it is looked up as
the same format by `BuiltFormat`. `RewritesKeep`: cutting an extension to the
length it has changes nothing (`StretchedTwice`), so one rewrite reaches a body
that every later one repeats, and its fields are those of the body found
(`BodyRewrites`, `RewrittenInv`).

For `HeaderWriter`, from the types of what a caller asks for and `U32Max >= 28`
(the body of a `ds64` chunk). `Inv` has five parts. `FieldsInv`: every field lies
in the bytes emitted. `StageInv`: the position counts those bytes, and which
stages there are for which container. `SizesInv`: where the late sizes are. This
is what makes the property inductive, and it differs by container: in RIFF the
first size is written before its offset is recorded, in RF64 both offsets are
recorded behind the `ds64` chunk that holds them. `CountsInv` says the same of
the count, and `UnsetInv` that nothing else was left unset. All of it rests on
the lemma `Emitting`: appending a chunk moves no field, and adds only fields that
name the chunk and lie behind the old end. A leading chunk disturbs nothing
because its id is not reserved.

For `HeaderWalk`, for every file, table and limit, from `LengthsAssumption` and
`IdsAssumption`. The walk saturates, and the proof found the assumption that
makes this sound: a file is shorter than `u64::MAX` bytes, or else a saturated
sum would look like a place inside it. `Inv` adds to each property what makes it
inductive: every body read lies before `next` (so that a new one overlaps none,
`ReadsInv`), the audio that was found ends before `next` unless it ran out
of the file (`AudioInv`), and a scan that is bounded by the RIFF size stays so,
since a `ds64` that would move that size is read before the audio or not at all
(`RiffInv`).

For `WavReader`, for every file, frame size and sequence of calls: `StreamInv`
says that the stream stands at `frames_pos` frames, or that no whole frame lies
ahead, as long as `in_step` holds. The second case is what a partial frame at the
end of the file leaves behind; without it the first is not inductive. `LastInv`
carries what the three properties say of the last read.

For `RoundTrip`, from `RoundTripAssumption` (what is attached has a printable id,
`u64::MAX` is beyond `u32::MAX`) and HeaderWriter's two assumptions: for every
request, every amount of audio, every chunk, whatever audio looks like, and a
kill before any patch. `FinishedReadBack`, `KilledStayReadable`,
`HandedOutWereAttached` and `CopiesReadAlike` are read off the inductive
invariant `Inv /\ RInv`, the first being HeaderWriter's:

    RInv == HeaderInv /\ WriterInv /\ ReadInv /\ CopyInv

None of the four properties says anything before the walk is over, and what the
walk has found is about the whole file; so the invariant describes the file, and
then how much of it the walk has seen.

- `HeaderInv`: there is a list of places at which the chunks of the header begin,
  each where the one before it ends (`Laid`); every field is the size of one of
  these chunks or one of the numbers its container has (`Accounted`); the offsets
  are those of fields. `HeaderNext` shows it action by action. The existence of
  the list is what replaces induction over the chunks: an action appends one
  place (`LayChunk`).
- `WriterInv`: the chunks that were attached are such a row behind the padded
  audio, all with ids the parser hands out. The patches that are in the file are
  the first k of `PatchList`, the rest still to be written (`Patching`), which is
  what a kill finds; the two sizes agree with one another (`Agree`), the RIFF size
  ending with the audio or with a chunk, unless the file is `Torn`.
- `ReadInv`: the walk is at the k-th place of the header (`InHeader`), having kept
  the bodies of those before it and no others; or it is past the header and has
  seen the first j chunks behind the audio (`InTail`), where the scan ends with the
  file or, in a file that was killed, with one of its chunks. That a walk never
  looks at audio follows: at every place it comes to there is exactly one chunk
  header (`OneWritten`), or the scan is over.
- `CopyInv`: the request made of what was read is not refused, and the copy has no
  more audio and chunks than its source, the chunks being the first ones of it.
  That a copy reads as its source is then what `FinishedReadBack` says of the
  copy.

The ids and sizes that are handed out are ordered by their places (`InOrder`);
`InOrderIs` shows by counting that a list whose places grow is its own order.

The proof corrected the model in three places. RoundTrip took any amount of
audio, while the code refuses what a RIFF size could not describe; a chunk of
bytes that are no id ended the walk; and a torn file was copied with whatever its
audio looked like. The run had noticed none of it: its limit was far beyond its
files, its ids were all printable, and what its audio looked like was no chunk or
one the writer accepts. It now looks like a reserved one too.

For `Metadata`, from the types of what goes in (`BoundsAssumption`,
`MetadataAssumption`): for any chunks that are found, any values and texts a
caller makes, and any widths of the text fields; the only limits are those of the
code's u32s, a chunk that is found and a text that is written being no longer
than their size fields can say. The inductive invariant is

    Inv == /\ TypeOK
           /\ Readable(kind, FromChunk(kind, chunk))
           /\ stage = "read" /\ edits = 0 => value = FromChunk(kind, chunk)
           /\ written # None => chunk = ToChunk(kind, written[1])
           /\ written # None /\ reread => Decoded(kind, written[1])

`Readable` says that what the chunk would be read as is nothing or a value that
is `Decoded`: no NUL is in its texts, and each fits its field when it is
encoded. `TypeOK` alone is not inductive, since it does not say that a chunk is
read as text and fits its sizes, and `LossesHappenOnce` is about a value that
was read, edited, written and read again, of which `value` holds only the last;
the two implications about `written` carry what the earlier steps have shown.
From `Inv` follow `TypeCorrect`, `NothingElseIsLost`, `SecondPassIsStable` and
`ReadTextFits`. TLC has checked `Inv` on the run's instance.

They rest on what encoders and decoders do to each other, and these are loops.
The library's induction takes an operator, so `Induct` states it over a set of
numbers, and `Recursion` shows by it that a recursive function whose equation looks
only further on is what that equation says (for `FieldAt`, `FieldAtIs`, looking
back). With them:

- text: a char is read back from its bytes and no other bytes make it
  (`CharAtUtf8`, `CharAtIs`), so UTF-8 decodes what it encodes (`Utf8IsReadBack`)
  and encodes what it decoded (`Utf8IsWrittenBack`). What fits is a prefix that
  ends between characters (`EncodeTextIs`), and reading back loses what `CutOf`
  allows (`TextIsReadBack`) and nothing if the text was read (`TextIsStable`).
  A text read from n bytes takes no more than n (`DecodedFits`).
- sub-chunks: each round of the loop consumes one sub-chunk with its pad
  (`SubChunksFromIs`), so that a row of them is read as it was written
  (`SubChunksAreReadBack`), whatever their number and parity.
- records and fields: parts of equal length lie at multiples of it
  (`UniformParts`), the text fields at the sums of their widths (`FieldsAreThere`).
- each kind: what is found is readable (`InfoFound`, `BextFound` ...) and what is
  written is read back (`InfoWritten`, `BextWritten` ...).

The proof corrected `WrittenIsReadBack`: its exception was for text whose encoding
is ambiguous, whether or not that encoding is Latin-1. UTF-8 that is cut between
two characters is UTF-8 all the same, so only Latin-1 needs the exception, and
that is what the property says now.

Model-checked only: `WalkEnds`, which is liveness. Every other property of a
passing run is a theorem. That the walk over a written
file comes to an end in RoundTrip is not stated: it is `WalkEnds` of HeaderWalk.

## Not modelled

- Sample conversion and error texts: pure functions on data the state machines
  do not look at. HeaderWriter and HeaderWalk do not look into a fmt chunk
  either; what is in one is the subject of Formats.
- The whole-file helpers of `highlevel.rs`. Each is a straight line of calls
  modelled here, stops at the first that fails, and keeps no state. What they
  add is the file: it is created, and so emptied, before the spec is checked.
- What a reader makes of audio in a file killed between the patch of the RIFF
  size and that of the data size (`Torn` in RoundTrip). The audio between the old
  data size and the new one then lies inside the RIFF form and behind the data
  chunk, where the walk may take it for chunks. The sizes nest
  (`KilledFilesAreConsistent`) and the file can be read
  (`KilledFilesStayReadable`); `ChunksHandedOutWereAttached` excludes it, and it is
  not copied.
- Frames in RoundTrip: a frame has one byte there, and a fmt chunk of this crate
  is never rejected. Formats has both.
- A size field written in part, and an output that reorders its writes.
- Targets with a 32-bit `usize`, on which frame counts are clamped.
- A read error inside the header walk, which ends it, and running out of memory.
- The counters' own overflow at 2^64 bytes.

## Plan

Done: ByteFile, AudioTrack, WavWriter, WavRecovery, HeaderWriter, HeaderWalk,
WavReader, Formats, RoundTrip, Metadata; proofs of every safety property, action
property and refinement of the runs on all of them.

1. The sizes of a copy in another container: a RIFF file rewritten as RF64.
2. An abstract specification of a whole file, chunks and audio as a sequence of
   parts, that RoundTrip's writer and parser both refine.
3. Metadata inside RoundTrip: what is attached as a typed chunk is decoded from
   the chunk that is handed out. Each half is proved, their composition is not
   stated.
