---------------------------- MODULE VideoSession ----------------------------
(***************************************************************************)
(* The readers and writers of src/video as the pipelines use them: open    *)
(* the reader, open the writer, read a frame and write it until the video  *)
(* ends, flush, close.  The calls of the program on FFmpeg are actions; an *)
(* FFmpeg codec is a value of CodecContract.                               *)
(*   rgb    video_reader.c with RGB24 frames, video_writer.c               *)
(*   nv12   video_reader.c with NV12 frames, no output                     *)
(*   cuda   video_hw_reader.cpp and video_hw_writer.cpp                    *)
(* A pipeline reads in one thread and writes in another; reader and writer *)
(* share nothing, so one frame after the other shows all they do.          *)
(***************************************************************************)
EXTENDS Integers, Sequences, FiniteSets, CodecContract

CONSTANTS LongestVideo,     (* the bound on the video frames of the file     *)
          OtherPackets,     (* the bound on the packets of other streams     *)
          Faults            (* the calls that may fail                       *)

ASSUME SessionAssumption ==
    /\ LongestVideo \in Nat /\ OtherPackets \in Nat
    /\ Faults \subseteq {"open", "demux", "send", "receive", "convert", "prepare",
                         "encode", "packet", "mux", "flush"}

VARIABLES
    kind,               (* rgb, nv12 or cuda                                 *)
    video,              (* the frames in the file                            *)
    limit,              (* after how many frames the caller stops, 0 never   *)
    pc,                 (* the next call                                     *)
    opening,            (* the call an open is at                            *)
    held,               (* the FFmpeg objects that exist: <<handle, object>> *)
    unread,             (* the first video frame not demuxed yet             *)
    others,             (* packets of other streams still to come            *)
    decoder,            (* reader->codec_ctx                                 *)
    decoderFlushed,     (* reader->decoder_flushed                           *)
    nextIndex,          (* reader->next_frame_index                          *)
    delivered,          (* the frames read returned, with their index        *)
    encoder,            (* writer->codec_ctx                                 *)
    nextPts,            (* writer->next_pts                                  *)
    flushing,           (* write_available_packets is called by the flush    *)
    submitted,          (* writer->submitted_frames                          *)
    file,               (* the packets in the output: frame and pts          *)
    outcome             (* of the reading: none, end, error; of the session  *)

input == <<kind, video, limit>>
reading == <<unread, others, decoder, decoderFlushed, nextIndex, delivered>>
writing == <<encoder, nextPts, flushing, submitted, file>>
vars == <<input, pc, opening, held, reading, writing, outcome>>

Kinds == {"rgb", "nv12", "cuda"}
Hardware == kind = "cuda"
HasWriter == kind # "nv12"

(* The calls of an open in their order: the objects a call creates, and    *)
(* those released when it fails.  (An RGB output has no sws, and some      *)
(* formats no file: their call creates nothing and cannot fail.)           *)
Call(creates, releases) == [creates |-> creates, releases |-> releases]
ReaderCodec == {"format", "codec"}
ReaderAll == ReaderCodec \cup {"packet", "frame"}
SoftwareReaderOpen ==
    << Call({"format"}, {}),                   (* avformat_open_input        *)
       Call({}, {"format"}),                   (* stream info, stream, codec *)
       Call({"codec"}, {"format"}),            (* avcodec_alloc_context3     *)
       Call({}, ReaderCodec),                  (* parameters, avcodec_open2  *)
       Call({"packet", "frame"}, ReaderAll),
       Call({"sws"}, ReaderAll) >>
HardwareReaderOpen ==
    << Call({"format"}, {}),
       Call({}, {"format"}),
       Call({"device"}, {"format"}),           (* av_hwdevice_ctx_create     *)
       Call({"codec"}, {"device", "format"}),
       Call({}, ReaderCodec \cup {"device"}),
       Call({"packet", "frame"}, ReaderAll \cup {"device"}) >>
WriterAll == {"format", "codec", "packet", "rgb", "yuv"}
(* Mutated: when the header fails the output file stays open. *)
SoftwareWriterOpenLeaky ==
    << Call({}, {}), Call({"format"}, {}), Call({}, {"format"}),
       Call(WriterAll \ {"format"}, WriterAll), Call({}, WriterAll),
       Call({"sws"}, WriterAll), Call({"file"}, WriterAll \cup {"sws"}),
       Call({}, WriterAll \cup {"sws"}) >>
SoftwareWriterOpen ==
    << Call({}, {}),                           (* the output directory       *)
       Call({"format"}, {}),
       Call({}, {"format"}),                   (* the encoder                *)
       Call(WriterAll \ {"format"}, WriterAll),
       Call({}, WriterAll),                    (* avcodec_open2, get_buffer  *)
       Call({"sws"}, WriterAll),
       Call({"file"}, WriterAll \cup {"sws"}),
       Call({}, WriterAll \cup {"sws", "file"}) >>   (* the header           *)
HardwareWriterAll == {"format", "codec", "packet", "device", "frames"}
HardwareWriterOpen ==
    << Call({}, {}),
       Call({"format"}, {}),
       Call({}, {"format"}),
       Call({"codec", "packet"}, {"format", "codec", "packet"}),
       Call({"device"}, {"format", "codec", "packet"}),
       Call({"frames"}, HardwareWriterAll \ {"frames"}),
       Call({}, HardwareWriterAll),            (* frame context, references, *)
       Call({"file"}, HardwareWriterAll),      (*   avcodec_open2            *)
       Call({}, HardwareWriterAll \cup {"file"}) >>

OpenCalls(h) ==
    IF h = "reader" THEN IF Hardware THEN HardwareReaderOpen ELSE SoftwareReaderOpen
                    ELSE IF Hardware THEN HardwareWriterOpen ELSE SoftwareWriterOpen
(* What video_reader_close and the other closes release. *)
Closes(h) ==
    IF h = "reader" THEN ReaderAll \cup (IF Hardware THEN {"device"} ELSE {"sws"})
    ELSE IF Hardware THEN HardwareWriterAll \cup {"file"} ELSE WriterAll \cup {"sws", "file"}

Init == /\ kind \in Kinds /\ video \in 0 .. LongestVideo /\ limit \in 0 .. LongestVideo
        /\ pc = "openReader" /\ opening = 1 /\ held = {}
        /\ unread = 0 /\ others = OtherPackets
        /\ decoder = NewCodec /\ decoderFlushed = FALSE
        /\ nextIndex = 0 /\ delivered = <<>>
        /\ encoder = NewCodec /\ nextPts = 0 /\ flushing = FALSE
        /\ submitted = 0 /\ file = <<>>
        /\ outcome = "none"

-----------------------------------------------------------------------------
MayFail(call) == call \in Faults
Fail == pc' = "closeWriter" /\ outcome' = "error"

(* One call of video_reader_open_with_threads, video_hw_reader_open,       *)
(* video_writer_open_with_options or video_hw_writer_open.  One that       *)
(* creates several objects may fail with some of them created.             *)
Open(h, at, then, otherwise) ==
    LET call == OpenCalls(h)[opening]
        Of(objects) == {h} \X objects
    IN  /\ pc = at
        /\ \/ /\ held' = held \cup Of(call.creates)
              /\ IF opening < Len(OpenCalls(h))
                 THEN opening' = opening + 1 /\ UNCHANGED pc
                 ELSE opening' = 1 /\ pc' = then
              /\ UNCHANGED outcome
           \/ /\ MayFail("open")
              /\ \E some \in SUBSET call.creates :
                    /\ some # call.creates \/ call.creates = {}
                    /\ held' = (held \cup Of(some)) \ Of(call.releases)
              /\ opening' = 1
              /\ pc' = otherwise /\ outcome' = "error"
        /\ UNCHANGED <<input, reading, writing>>

OpenReader == Open("reader", "openReader", IF HasWriter THEN "openWriter" ELSE "read", "done")
OpenWriter == Open("writer", "openWriter", "read", "closeReader")

-----------------------------------------------------------------------------
(* receive_frame_as, receive_hw_frame: the next frame is converted into    *)
(* the caller's frame, or referenced by it, and numbered.                  *)
Numbered == [frame |-> Output(decoder), index |-> nextIndex]
Receive ==
    /\ HasOutput(decoder)
    /\ decoder' = AfterReceive(decoder)
    /\ \/ /\ delivered' = Append(delivered, Numbered)
          /\ nextIndex' = nextIndex + 1
          /\ pc' = IF HasWriter THEN "write" ELSE "readAgain"
          /\ UNCHANGED <<held, outcome>>
       \/ /\ MayFail("receive")                (* the frame or its reference *)
          /\ Fail
          /\ UNCHANGED <<held, delivered, nextIndex>>
       \/ /\ MayFail("convert") /\ kind = "nv12" /\ nextIndex = 0
          /\ nextIndex' = nextIndex + 1        (* sws_getCachedContext has   *)
          /\ held' = held \ {<<"reader", "sws">>}      (* freed the old one  *)
          /\ Fail
          /\ UNCHANGED delivered
(* avcodec_receive_frame itself fails. *)
ReceiveFails == MayFail("receive") /\ Fail /\ UNCHANGED <<decoder, held, delivered, nextIndex>>
Nothing(to) == pc' = to /\ UNCHANGED <<decoder, held, delivered, nextIndex, outcome>>
ReadKeeps == UNCHANGED <<input, opening, writing>>

(* video_reader_read_frame_as, video_hw_reader_read_cuda_nv12: what the    *)
(* decoder has ready comes first, at the start of a read ...               *)
ReceiveFirst ==
    /\ pc = "read"
    /\ \/ Receive
       \/ WantsMore(decoder) /\ Nothing("demux")
       \/ AtEnd(decoder) /\ Nothing("ended")
       \/ ReceiveFails
    /\ UNCHANGED <<unread, others, decoderFlushed>>
    /\ ReadKeeps

(* ... and after each packet. *)
ReceiveNext ==
    /\ pc = "receive"
    /\ \/ Receive
       \/ WantsMore(decoder) /\ Nothing("demux")
       \/ ReceiveFails
    /\ UNCHANGED <<unread, others, decoderFlushed>>
    /\ ReadKeeps

(* Mutated: the frames inside the decoder are not asked for at the end. *)
DemuxToTheEnd ==
    /\ pc = "demux"
    /\ \/ unread < video /\ pc' = "send" /\ UNCHANGED others
       \/ others > 0 /\ others' = others - 1 /\ UNCHANGED pc
       \/ unread = video /\ others = 0 /\ pc' = "ended" /\ UNCHANGED others
    /\ UNCHANGED <<held, unread, decoder, decoderFlushed, nextIndex, delivered, outcome>>
    /\ ReadKeeps

(* av_read_frame: a packet of the video, one of another stream, the end. *)
Demux ==
    /\ pc = "demux"
    /\ \/ unread < video /\ pc' = "send" /\ UNCHANGED <<others, outcome>>
       \/ others > 0 /\ others' = others - 1 /\ UNCHANGED <<pc, outcome>>
       \/ unread = video /\ others = 0 /\ pc' = "endInput" /\ UNCHANGED <<others, outcome>>
       \/ MayFail("demux") /\ Fail /\ UNCHANGED others
    /\ UNCHANGED <<held, unread, decoder, decoderFlushed, nextIndex, delivered>>
    /\ ReadKeeps

(* avcodec_send_packet.  A packet that is refused is dropped: the software *)
(* reader returns a frame that is ready instead, the hardware reader fails.*)
Send ==
    /\ pc = "send"
    /\ unread' = unread + 1
    /\ \/ IF Accepts(decoder)
          THEN /\ decoder' \in AfterSend(decoder, unread)
               /\ pc' = "receive"
               /\ UNCHANGED <<held, delivered, nextIndex, outcome>>
          ELSE IF Hardware \/ ~HasOutput(decoder)
          THEN Fail /\ UNCHANGED <<held, decoder, delivered, nextIndex>>
          ELSE Receive
       \/ MayFail("send") /\ Fail /\ UNCHANGED <<held, decoder, delivered, nextIndex>>
    /\ UNCHANGED <<others, decoderFlushed>>
    /\ ReadKeeps

(* The end of the input, once, and the first frame after it. *)
EndInput ==
    /\ pc = "endInput"
    /\ decoderFlushed' = TRUE
    /\ \/ /\ decoder' = IF decoderFlushed THEN decoder ELSE AfterEnd(decoder)
          /\ pc' = "receiveLast"
          /\ UNCHANGED outcome
       \/ MayFail("send") /\ ~decoderFlushed /\ Fail /\ UNCHANGED decoder
    /\ UNCHANGED <<held, unread, others, nextIndex, delivered>>
    /\ ReadKeeps

ReceiveLast ==
    /\ pc = "receiveLast"
    /\ \/ Receive
       \/ ~HasOutput(decoder) /\ Nothing("ended")
       \/ ReceiveFails
    /\ UNCHANGED <<unread, others, decoderFlushed>>
    /\ ReadKeeps

(* The caller's loop: the limit, or the next frame. *)
ReadAgain ==
    /\ pc = "readAgain"
    /\ pc' = IF Len(delivered) = limit THEN "flush" ELSE "read"
    /\ UNCHANGED <<held, reading, outcome>>
    /\ ReadKeeps
(* A read has returned 0. *)
Ended ==
    /\ pc = "ended"
    /\ pc' = "flush"
    /\ outcome' = "end"
    /\ UNCHANGED <<held, reading>>
    /\ ReadKeeps

-----------------------------------------------------------------------------
WriteKeeps == UNCHANGED <<input, opening, held, reading>>

(* video_writer_write_frame, video_hw_writer_write_cuda_nv12: the frame is *)
(* copied for the encoder, numbered and sent.                              *)
Stamped == [frame |-> delivered[Len(delivered)].frame, pts |-> nextPts]
Write ==
    /\ pc = "write"
    /\ \/ /\ nextPts' = nextPts + 1
          /\ \/ /\ Accepts(encoder)
                /\ encoder' \in AfterSend(encoder, Stamped)
                /\ submitted' = submitted + 1
                /\ pc' = "drain"
                /\ UNCHANGED outcome
             \/ /\ ~Accepts(encoder) \/ MayFail("encode")
                /\ Fail
                /\ UNCHANGED <<encoder, submitted>>
       \/ MayFail("prepare") /\ Fail /\ UNCHANGED <<encoder, nextPts, submitted>>
    /\ UNCHANGED <<flushing, file>>
    /\ WriteKeeps

(* The result of a flush that has got to the end: the hardware writer      *)
(* wants at least one packet for the frames it was given.                  *)
Flushed == IF Hardware /\ submitted > 0 /\ file = <<>> THEN "error" ELSE "ok"

(* Mutated: one packet is taken after a frame. *)
DrainOne ==
    /\ pc = "drain"
    /\ \/ /\ HasOutput(encoder)
          /\ encoder' = AfterReceive(encoder)
          /\ file' = Append(file, Output(encoder))
          /\ pc' = IF flushing THEN "drain" ELSE "readAgain"
          /\ UNCHANGED outcome
       \/ ~HasOutput(encoder) /\ ~flushing /\ pc' = "readAgain" /\ UNCHANGED <<encoder, file, outcome>>
       \/ ~HasOutput(encoder) /\ flushing /\ pc' = "closeWriter" /\ outcome' = Flushed
          /\ UNCHANGED <<encoder, file>>
    /\ UNCHANGED <<nextPts, flushing, submitted>>
    /\ WriteKeeps

(* write_available_packets, for a write and for the flush. *)
Drain ==
    /\ pc = "drain"
    /\ \/ /\ HasOutput(encoder)
          /\ encoder' = AfterReceive(encoder)
          /\ \/ file' = Append(file, Output(encoder)) /\ UNCHANGED <<pc, outcome>>
             \/ MayFail("mux") /\ Fail /\ UNCHANGED file
       \/ /\ ~HasOutput(encoder) /\ ~flushing
          /\ pc' = "readAgain"
          /\ UNCHANGED <<encoder, file, outcome>>
       \/ /\ ~HasOutput(encoder) /\ flushing
          /\ pc' = "closeWriter"
          /\ outcome' = Flushed
          /\ UNCHANGED <<encoder, file>>
       \/ MayFail("packet") /\ Fail /\ UNCHANGED <<encoder, file>>
    /\ UNCHANGED <<nextPts, flushing, submitted>>
    /\ WriteKeeps

(* Mutated: the encoder is not told that the input has ended. *)
FlushNothing ==
    /\ pc = "flush"
    /\ flushing' = TRUE
    /\ pc' = "drain"
    /\ UNCHANGED <<outcome, encoder, nextPts, submitted, file>>
    /\ WriteKeeps

(* video_writer_flush, video_hw_writer_flush. *)
Flush ==
    /\ pc = "flush"
    /\ flushing' = TRUE
    /\ \/ /\ HasWriter
          /\ encoder' = AfterEnd(encoder)
          /\ pc' = "drain"
          /\ UNCHANGED outcome
       \/ HasWriter /\ MayFail("flush") /\ Fail /\ UNCHANGED encoder
       \/ ~HasWriter /\ pc' = "closeWriter" /\ outcome' = "ok" /\ UNCHANGED encoder
    /\ UNCHANGED <<nextPts, submitted, file>>
    /\ WriteKeeps

(* The closes. *)
CloseHandle(h, at, to) ==
    /\ pc = at
    /\ held' = held \ ({h} \X Closes(h))
    /\ pc' = to
    /\ UNCHANGED <<input, opening, reading, writing, outcome>>

CloseWriter == CloseHandle("writer", "closeWriter", "closeReader")
CloseReader == CloseHandle("reader", "closeReader", "done")

Stutter == pc = "done" /\ UNCHANGED vars

Next == \/ OpenReader \/ OpenWriter
        \/ ReceiveFirst \/ Demux \/ Send \/ ReceiveNext
        \/ EndInput \/ ReceiveLast \/ ReadAgain \/ Ended
        \/ Write \/ Drain \/ Flush \/ CloseWriter \/ CloseReader
        \/ Stutter

Spec == Init /\ [][Next]_vars

-----------------------------------------------------------------------------
Wanted == IF limit > 0 /\ limit < video THEN limit ELSE video

(* Whatever a codec delays, the frames come out of the reader in order,    *)
(* each once and under its own number, and a reader that says that the     *)
(* video has ended has given every frame of it: none is left inside the    *)
(* decoder, and none was lost with a packet the decoder refused.           *)
EveryFrameRead ==
    /\ \A i \in DOMAIN delivered : delivered[i] = [frame |-> i - 1, index |-> i - 1]
    /\ outcome = "end" => Len(delivered) = video

(* The output has the frames in order, without a gap in their time stamps, *)
(* also after an error; when the flush has succeeded it has all of them.   *)
FileComplete ==
    /\ \A i \in DOMAIN file : file[i] = [frame |-> i - 1, pts |-> i - 1]
    /\ outcome = "ok" /\ HasWriter => Len(file) = Wanted

(* The readers and writers take from a codec all it has ready before they  *)
(* send to it again: no packet and no frame is ever refused.               *)
CodecsAccept ==
    /\ pc = "send" => Accepts(decoder)
    /\ pc = "write" => Accepts(encoder)

(* Whatever fails, half-way through an open or later, every object FFmpeg  *)
(* has created for the session is released by its end.                     *)
NothingLeaks == pc = "done" => held = {}
=============================================================================
