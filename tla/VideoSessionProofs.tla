------------------------- MODULE VideoSessionProofs -------------------------
(***************************************************************************)
(* For every length of the video, every limit, every delay of the codecs   *)
(* and every fault: the frames come out of the reader in order and all of  *)
(* them (EveryFrameRead), the file has them without a gap (FileComplete),  *)
(* no codec refuses what it is sent (CodecsAccept), and what FFmpeg has    *)
(* created is released (NothingLeaks).                                     *)
(*                                                                         *)
(* The last needs only what an open has created so far (HInv).  For the    *)
(* others a codec is tied to what has gone in and come out of it: what is  *)
(* inside the decoder are the frames between those delivered and those     *)
(* demuxed (DInv), what is inside the encoder those between the packets in *)
(* the file and the frames numbered (EInv).                                *)
(***************************************************************************)
EXTENDS VideoSession, SequenceTheorems, TLAPS

-----------------------------------------------------------------------------
(* Objects.                                                                *)

Created(h, k) == UNION {OpenCalls(h)[i].creates : i \in 1 .. k - 1}
Of(h, objects) == {h} \X objects
Session == {"read", "demux", "send", "receive", "endInput", "receiveLast", "readAgain",
            "ended", "write", "drain", "flush", "closeWriter"}

(* An open holds no more than its calls have created, the session no more  *)
(* than the two closes release.                                            *)
HInv ==
    /\ pc \in Session \cup {"openReader", "openWriter", "closeReader", "done"}
    /\ pc = "openReader" => /\ opening \in 1 .. Len(OpenCalls("reader"))
                            /\ held \subseteq Of("reader", Created("reader", opening))
    /\ pc = "openWriter" => /\ opening \in 1 .. Len(OpenCalls("writer"))
                            /\ held \subseteq Of("reader", Closes("reader"))
                                              \cup Of("writer", Created("writer", opening))
    /\ pc \in Session => held \subseteq Of("reader", Closes("reader"))
                                        \cup Of("writer", Closes("writer"))
    /\ pc = "closeReader" => held \subseteq Of("reader", Closes("reader"))
    /\ pc = "done" => held = {}

-----------------------------------------------------------------------------
(* Frames.                                                                 *)

(* s[1], s[2], ... are f[k], f[k + 1], ... *)
Stretch(f, s, k) == \A i \in 1 .. Len(s) : s[i] = f[k + i - 1]
Plain == [n \in Nat |-> n]
Indexed == [n \in Nat |-> [frame |-> n, index |-> n]]
Stamps == [n \in Nat |-> [frame |-> n, pts |-> n]]

Codecs(S) == {c \in [inside : Seq(S), ready : Nat, draining : BOOLEAN] :
                 /\ c.ready <= Len(c.inside)
                 /\ c.draining => c.ready = Len(c.inside)}

Opens == {"openReader", "openWriter"}
Reads == {"read", "demux", "send", "receive", "endInput", "receiveLast"}
Gone == {"closeWriter", "closeReader", "done"}
FlushDrain == pc = "drain" /\ flushing

(* The reader: the frames delivered, those inside the decoder and those    *)
(* still in the file follow on one another; a read is only begun below the *)
(* limit; what is sent finds nothing ready, what ends has given all.       *)
DType == /\ kind \in Kinds /\ video \in Nat /\ limit \in Nat /\ unread \in Nat
         /\ nextIndex \in Nat
         /\ delivered \in Seq([frame : Nat, index : Nat])
         /\ decoder \in Codecs(Nat)
         /\ pc \in Opens \cup Reads \cup {"readAgain", "ended", "write", "drain", "flush"} \cup Gone
         /\ flushing \in BOOLEAN
DFrames == /\ Stretch(Indexed, delivered, 0)
           /\ pc \notin Gone =>
                /\ Stretch(Plain, decoder.inside, Len(delivered))
                /\ Len(delivered) + Len(decoder.inside) = unread
                /\ unread <= video
                /\ nextIndex = Len(delivered)
                /\ decoder.draining <=> decoderFlushed
                /\ decoder.draining => unread = video
DPlaces == /\ pc \in {"demux", "send", "endInput"} => decoder.ready = 0 /\ ~decoder.draining
           /\ pc = "send" => unread < video
           /\ pc = "endInput" => unread = video
           /\ pc \in {"receiveLast", "ended"} => decoder.draining
           /\ pc = "ended" => decoder.ready = 0
DLimit == /\ pc \in Opens \cup Reads \cup {"ended"} => limit = 0 \/ Len(delivered) < limit
          /\ pc \in {"readAgain", "write"} \/ (pc = "drain" /\ ~flushing) =>
                Len(delivered) > 0 /\ (limit = 0 \/ Len(delivered) <= limit)
          /\ pc = "flush" \/ FlushDrain => Len(delivered) = Wanted
          /\ pc \notin {"drain"} \cup Gone => ~flushing
DOutcome == /\ pc \notin {"flush"} \cup Gone => outcome = "none" \/ FlushDrain
            /\ outcome = "end" => Len(delivered) = video
            /\ pc = "flush" \/ FlushDrain => outcome \in {"none", "end"}
DInv == DType /\ DFrames /\ DPlaces /\ DLimit /\ DOutcome

(* The writer: the packets in the file and the frames inside the encoder   *)
(* are those delivered, but for the one that is yet to be written.         *)
EType == /\ nextPts \in Nat /\ submitted \in Nat
         /\ file \in Seq([frame : Nat, pts : Nat])
         /\ encoder \in Codecs([frame : Nat, pts : Nat])
EFrames == /\ Stretch(Stamps, file, 0)
           /\ pc \notin Gone =>
                /\ Stretch(Stamps, encoder.inside, Len(file))
                /\ Len(file) + Len(encoder.inside) = nextPts
                /\ HasWriter => nextPts = IF pc = "write" THEN Len(delivered) - 1
                                          ELSE Len(delivered)
                /\ pc \in {"write", "drain"} => HasWriter
                /\ pc # "drain" => encoder.ready = 0
                /\ FlushDrain => encoder.draining
EOutcome == outcome = "ok" /\ HasWriter => Len(file) = Wanted /\ pc \in Gone
EInv == EType /\ EFrames /\ EOutcome

IInv == HInv /\ DInv /\ EInv

-----------------------------------------------------------------------------
(* Objects: the proof.                                                     *)

(* One call more creates what it creates. *)
LEMMA CreatedNext ==
  ASSUME NEW h, NEW k \in Nat \ {0}
  PROVE  Created(h, k + 1) = Created(h, k) \cup OpenCalls(h)[k].creates
<1>1. 1 .. (k + 1) - 1 = (1 .. k - 1) \cup {k}
  OBVIOUS
<1> QED BY <1>1 DEF Created

LEMMA CreatedNone == ASSUME NEW h PROVE Created(h, 1) = {}
<1>1. 1 .. 1 - 1 = {}
  OBVIOUS
<1> QED BY <1>1 DEF Created

(* What the calls of an open promise: one that fails with some of its      *)
(* objects created releases these and those of the calls before it; and    *)
(* the close releases all that they create.                                *)
Sound(calls, k, all) ==
    /\ calls[k].creates \subseteq all
    /\ \A i \in 1 .. k - 1 : calls[i].creates \subseteq calls[k].releases
    /\ calls[k].creates \subseteq calls[k].releases \/ \A x, y \in calls[k].creates : x = y
Releasing(calls, all) == \A k \in 1 .. Len(calls) : Sound(calls, k, all)

LEMMA SoftwareReaderReleases == Releasing(SoftwareReaderOpen, ReaderAll \cup {"sws"})
<1> DEFINE s == SoftwareReaderOpen
<1>1. Len(s) = 6
  BY DEF SoftwareReaderOpen
<1>2. /\ s[1].creates = {"format"} /\ s[1].releases = {}
      /\ s[2].creates = {} /\ s[2].releases = {"format"}
      /\ s[3].creates = {"codec"} /\ s[3].releases = {"format"}
      /\ s[4].creates = {} /\ s[4].releases = ReaderCodec
      /\ s[5].creates = {"packet", "frame"} /\ s[5].releases = ReaderAll
      /\ s[6].creates = {"sws"} /\ s[6].releases = ReaderAll
  BY DEF SoftwareReaderOpen, Call
<1>3. SUFFICES ASSUME NEW k \in 1 .. 6 PROVE Sound(s, k, ReaderAll \cup {"sws"})
  BY <1>1 DEF Releasing
<1> HIDE DEF s
<1>4. CASE k = 1
  BY <1>2, <1>4 DEF Sound, ReaderCodec, ReaderAll
<1>5. CASE k = 2
  BY <1>2, <1>5 DEF Sound, ReaderCodec, ReaderAll
<1>6. CASE k = 3
  BY <1>2, <1>6 DEF Sound, ReaderCodec, ReaderAll
<1>7. CASE k = 4
  BY <1>2, <1>7 DEF Sound, ReaderCodec, ReaderAll
<1>8. CASE k = 5
  BY <1>2, <1>8 DEF Sound, ReaderCodec, ReaderAll
<1>9. CASE k = 6
  BY <1>2, <1>9 DEF Sound, ReaderCodec, ReaderAll
<1> QED BY <1>3, <1>4, <1>5, <1>6, <1>7, <1>8, <1>9

LEMMA HardwareReaderReleases == Releasing(HardwareReaderOpen, ReaderAll \cup {"device"})
<1> DEFINE s == HardwareReaderOpen
<1>1. Len(s) = 6
  BY DEF HardwareReaderOpen
<1>2. /\ s[1].creates = {"format"} /\ s[1].releases = {}
      /\ s[2].creates = {} /\ s[2].releases = {"format"}
      /\ s[3].creates = {"device"} /\ s[3].releases = {"format"}
      /\ s[4].creates = {"codec"} /\ s[4].releases = {"device", "format"}
      /\ s[5].creates = {} /\ s[5].releases = ReaderCodec \cup {"device"}
      /\ s[6].creates = {"packet", "frame"} /\ s[6].releases = ReaderAll \cup {"device"}
  BY DEF HardwareReaderOpen, Call
<1>3. SUFFICES ASSUME NEW k \in 1 .. 6 PROVE Sound(s, k, ReaderAll \cup {"device"})
  BY <1>1 DEF Releasing
<1> HIDE DEF s
<1>4. CASE k = 1
  BY <1>2, <1>4 DEF Sound, ReaderCodec, ReaderAll
<1>5. CASE k = 2
  BY <1>2, <1>5 DEF Sound, ReaderCodec, ReaderAll
<1>6. CASE k = 3
  BY <1>2, <1>6 DEF Sound, ReaderCodec, ReaderAll
<1>7. CASE k = 4
  BY <1>2, <1>7 DEF Sound, ReaderCodec, ReaderAll
<1>8. CASE k = 5
  BY <1>2, <1>8 DEF Sound, ReaderCodec, ReaderAll
<1>9. CASE k = 6
  BY <1>2, <1>9 DEF Sound, ReaderCodec, ReaderAll
<1> QED BY <1>3, <1>4, <1>5, <1>6, <1>7, <1>8, <1>9

LEMMA SoftwareWriterReleases == Releasing(SoftwareWriterOpen, WriterAll \cup {"sws", "file"})
<1> DEFINE s == SoftwareWriterOpen
<1>1. Len(s) = 8
  BY DEF SoftwareWriterOpen
<1>2. /\ s[1].creates = {} /\ s[1].releases = {}
      /\ s[2].creates = {"format"} /\ s[2].releases = {}
      /\ s[3].creates = {} /\ s[3].releases = {"format"}
      /\ s[4].creates = WriterAll \ {"format"} /\ s[4].releases = WriterAll
      /\ s[5].creates = {} /\ s[5].releases = WriterAll
      /\ s[6].creates = {"sws"} /\ s[6].releases = WriterAll
      /\ s[7].creates = {"file"} /\ s[7].releases = WriterAll \cup {"sws"}
      /\ s[8].creates = {} /\ s[8].releases = WriterAll \cup {"sws", "file"}
  BY DEF SoftwareWriterOpen, Call
<1>3. SUFFICES ASSUME NEW k \in 1 .. 8 PROVE Sound(s, k, WriterAll \cup {"sws", "file"})
  BY <1>1 DEF Releasing
<1> HIDE DEF s
<1>4. CASE k = 1
  BY <1>2, <1>4 DEF Sound, WriterAll, HardwareWriterAll
<1>5. CASE k = 2
  BY <1>2, <1>5 DEF Sound, WriterAll, HardwareWriterAll
<1>6. CASE k = 3
  BY <1>2, <1>6 DEF Sound, WriterAll, HardwareWriterAll
<1>7. CASE k = 4
  BY <1>2, <1>7 DEF Sound, WriterAll, HardwareWriterAll
<1>8. CASE k = 5
  BY <1>2, <1>8 DEF Sound, WriterAll, HardwareWriterAll
<1>9. CASE k = 6
  BY <1>2, <1>9 DEF Sound, WriterAll, HardwareWriterAll
<1>10. CASE k = 7
  BY <1>2, <1>10 DEF Sound, WriterAll, HardwareWriterAll
<1>11. CASE k = 8
  BY <1>2, <1>11 DEF Sound, WriterAll, HardwareWriterAll
<1> QED BY <1>3, <1>4, <1>5, <1>6, <1>7, <1>8, <1>9, <1>10, <1>11

LEMMA HardwareWriterReleases == Releasing(HardwareWriterOpen, HardwareWriterAll \cup {"file"})
<1> DEFINE s == HardwareWriterOpen
<1>1. Len(s) = 9
  BY DEF HardwareWriterOpen
<1>2. /\ s[1].creates = {} /\ s[1].releases = {}
      /\ s[2].creates = {"format"} /\ s[2].releases = {}
      /\ s[3].creates = {} /\ s[3].releases = {"format"}
      /\ s[4].creates = {"codec", "packet"} /\ s[4].releases = {"format", "codec", "packet"}
      /\ s[5].creates = {"device"} /\ s[5].releases = {"format", "codec", "packet"}
      /\ s[6].creates = {"frames"} /\ s[6].releases = HardwareWriterAll \ {"frames"}
      /\ s[7].creates = {} /\ s[7].releases = HardwareWriterAll
      /\ s[8].creates = {"file"} /\ s[8].releases = HardwareWriterAll
      /\ s[9].creates = {} /\ s[9].releases = HardwareWriterAll \cup {"file"}
  BY DEF HardwareWriterOpen, Call
<1>3. SUFFICES ASSUME NEW k \in 1 .. 9 PROVE Sound(s, k, HardwareWriterAll \cup {"file"})
  BY <1>1 DEF Releasing
<1> HIDE DEF s
<1>4. CASE k = 1
  BY <1>2, <1>4 DEF Sound, WriterAll, HardwareWriterAll
<1>5. CASE k = 2
  BY <1>2, <1>5 DEF Sound, WriterAll, HardwareWriterAll
<1>6. CASE k = 3
  BY <1>2, <1>6 DEF Sound, WriterAll, HardwareWriterAll
<1>7. CASE k = 4
  BY <1>2, <1>7 DEF Sound, WriterAll, HardwareWriterAll
<1>8. CASE k = 5
  BY <1>2, <1>8 DEF Sound, WriterAll, HardwareWriterAll
<1>9. CASE k = 6
  BY <1>2, <1>9 DEF Sound, WriterAll, HardwareWriterAll
<1>10. CASE k = 7
  BY <1>2, <1>10 DEF Sound, WriterAll, HardwareWriterAll
<1>11. CASE k = 8
  BY <1>2, <1>11 DEF Sound, WriterAll, HardwareWriterAll
<1>12. CASE k = 9
  BY <1>2, <1>12 DEF Sound, WriterAll, HardwareWriterAll
<1> QED BY <1>3, <1>4, <1>5, <1>6, <1>7, <1>8, <1>9, <1>10, <1>11, <1>12

LEMMA OpensRelease ==
  ASSUME NEW h \in {"reader", "writer"}
  PROVE  Releasing(OpenCalls(h), Closes(h)) /\ Len(OpenCalls(h)) \in Nat \ {0}
<1>1. /\ Len(SoftwareReaderOpen) \in Nat \ {0} /\ Len(HardwareReaderOpen) \in Nat \ {0}
      /\ Len(SoftwareWriterOpen) \in Nat \ {0} /\ Len(HardwareWriterOpen) \in Nat \ {0}
  BY DEF SoftwareReaderOpen, HardwareReaderOpen, SoftwareWriterOpen, HardwareWriterOpen
<1>2. CASE h = "reader"
  <2>1. CASE Hardware
    <3>1. OpenCalls(h) = HardwareReaderOpen
      BY <1>2, <2>1 DEF OpenCalls
    <3>2. Closes(h) = ReaderAll \cup {"device"}
      BY <1>2, <2>1 DEF Closes
    <3>3. Len(OpenCalls(h)) \in Nat \ {0}
      BY Zenon, <1>1, <3>1
    <3>4. Releasing(OpenCalls(h), Closes(h))
      BY Zenon, <3>1, <3>2, HardwareReaderReleases
    <3> QED BY <3>3, <3>4
  <2>2. CASE ~Hardware
    <3>1. OpenCalls(h) = SoftwareReaderOpen
      BY <1>2, <2>2 DEF OpenCalls
    <3>2. Closes(h) = ReaderAll \cup {"sws"}
      BY <1>2, <2>2 DEF Closes
    <3>3. Len(OpenCalls(h)) \in Nat \ {0}
      BY Zenon, <1>1, <3>1
    <3>4. Releasing(OpenCalls(h), Closes(h))
      BY Zenon, <3>1, <3>2, SoftwareReaderReleases
    <3> QED BY <3>3, <3>4
  <2> QED BY <2>1, <2>2
<1>3. CASE h = "writer"
  <2>1. CASE Hardware
    <3>1. OpenCalls(h) = HardwareWriterOpen
      BY <1>3, <2>1 DEF OpenCalls
    <3>2. Closes(h) = HardwareWriterAll \cup {"file"}
      BY <1>3, <2>1 DEF Closes
    <3>3. Len(OpenCalls(h)) \in Nat \ {0}
      BY Zenon, <1>1, <3>1
    <3>4. Releasing(OpenCalls(h), Closes(h))
      BY Zenon, <3>1, <3>2, HardwareWriterReleases
    <3> QED BY <3>3, <3>4
  <2>2. CASE ~Hardware
    <3>1. OpenCalls(h) = SoftwareWriterOpen
      BY <1>3, <2>2 DEF OpenCalls
    <3>2. Closes(h) = WriterAll \cup {"sws", "file"}
      BY <1>3, <2>2 DEF Closes
    <3>3. Len(OpenCalls(h)) \in Nat \ {0}
      BY Zenon, <1>1, <3>1
    <3>4. Releasing(OpenCalls(h), Closes(h))
      BY Zenon, <3>1, <3>2, SoftwareWriterReleases
    <3> QED BY <3>3, <3>4
  <2> QED BY <2>1, <2>2
<1> QED BY <1>2, <1>3

(* A call that fails has released all there was, one that succeeds creates *)
(* nothing the close does not know.                                        *)
LEMMA CallReleases ==
  ASSUME NEW h \in {"reader", "writer"}, NEW k \in 1 .. Len(OpenCalls(h))
  PROVE  /\ k \in Nat \ {0} /\ Created(h, k + 1) \subseteq Closes(h)
         /\ \A some \in SUBSET OpenCalls(h)[k].creates :
              some # OpenCalls(h)[k].creates \/ OpenCalls(h)[k].creates = {} =>
                 Created(h, k) \cup some \subseteq OpenCalls(h)[k].releases
<1>1. Releasing(OpenCalls(h), Closes(h)) /\ Len(OpenCalls(h)) \in Nat \ {0}
  BY OpensRelease
<1>2. k \in Nat \ {0} /\ \A i \in 1 .. (k + 1) - 1 : i \in 1 .. Len(OpenCalls(h))
  BY <1>1
<1>3. Created(h, k + 1) \subseteq Closes(h)
  BY <1>1, <1>2 DEF Created, Releasing, Sound
<1>4. Created(h, k) \subseteq OpenCalls(h)[k].releases
  BY <1>1 DEF Created, Releasing, Sound
<1>5. ASSUME NEW some \in SUBSET OpenCalls(h)[k].creates,
             some # OpenCalls(h)[k].creates \/ OpenCalls(h)[k].creates = {}
      PROVE  some \subseteq OpenCalls(h)[k].releases
  <2>1. CASE OpenCalls(h)[k].creates \subseteq OpenCalls(h)[k].releases
    BY <2>1
  <2>2. CASE \A x, y \in OpenCalls(h)[k].creates : x = y
    <3>1. some = {}
      BY <1>5, <2>2
    <3> QED BY <3>1
  <2> QED BY <1>1, <2>1, <2>2 DEF Releasing, Sound
<1> QED BY <1>2, <1>3, <1>4, <1>5

(* What a call of an open does with the objects of its handle: it goes on, *)
(* it is the last, or it fails and leaves what others hold.                *)
LEMMA OpenCall ==
  ASSUME NEW h \in {"reader", "writer"}, NEW at, NEW then, NEW otherwise, NEW kept,
         Open(h, at, then, otherwise), opening \in 1 .. Len(OpenCalls(h)),
         held \subseteq kept \cup Of(h, Created(h, opening)),
         \A o \in Of(h, Closes(h)) : o \notin kept
  PROVE  \/ /\ pc' = pc /\ opening' \in 1 .. Len(OpenCalls(h))
            /\ held' \subseteq kept \cup Of(h, Created(h, opening'))
         \/ pc' = then /\ opening' = 1 /\ held' \subseteq kept \cup Of(h, Closes(h))
         \/ pc' = otherwise /\ opening' = 1 /\ held' \subseteq kept
<1> DEFINE c == OpenCalls(h)[opening].creates
           r == OpenCalls(h)[opening].releases
<1>1. /\ opening \in Nat \ {0} /\ Created(h, opening + 1) \subseteq Closes(h)
      /\ \A some \in SUBSET c : some # c \/ c = {} => Created(h, opening) \cup some \subseteq r
      /\ Created(h, opening + 1) = Created(h, opening) \cup c
      /\ Len(OpenCalls(h)) \in Nat
  BY CallReleases, CreatedNext, OpensRelease
<1>2. \/ /\ held' = held \cup Of(h, c)
         /\ \/ opening < Len(OpenCalls(h)) /\ opening' = opening + 1 /\ pc' = pc
            \/ ~(opening < Len(OpenCalls(h))) /\ opening' = 1 /\ pc' = then
      \/ /\ \E some \in SUBSET c : /\ some # c \/ c = {}
                                   /\ held' = (held \cup Of(h, some)) \ Of(h, r)
         /\ opening' = 1 /\ pc' = otherwise
  BY DEF Open, Of
<1> HIDE DEF c, r
<1>3. CASE /\ held' = held \cup Of(h, c)
           /\ opening < Len(OpenCalls(h)) /\ opening' = opening + 1 /\ pc' = pc
  BY <1>1, <1>3 DEF Of
<1>4. CASE /\ held' = held \cup Of(h, c)
           /\ ~(opening < Len(OpenCalls(h))) /\ opening' = 1 /\ pc' = then
  <2>1. held' \subseteq kept \cup Of(h, Created(h, opening + 1))
    BY <1>1, <1>4 DEF Of
  <2> QED BY <1>1, <1>4, <2>1 DEF Of
<1>5. ASSUME NEW some \in SUBSET c, some # c \/ c = {},
             held' = (held \cup Of(h, some)) \ Of(h, r), opening' = 1, pc' = otherwise
      PROVE  pc' = otherwise /\ opening' = 1 /\ held' \subseteq kept
  <2>1. Created(h, opening) \cup some \subseteq r
    BY <1>1, <1>5
  <2>2. held' \subseteq kept
    BY <1>5, <2>1 DEF Of
  <2> QED BY <1>5, <2>2
<1> QED BY <1>2, <1>3, <1>4, <1>5

LEMMA HInit == Init => HInv
<1>1. Of("reader", {}) = {}
  BY DEF Of
<1>2. 1 \in 1 .. Len(OpenCalls("reader"))
  BY OpensRelease
<1> QED BY <1>1, <1>2, CreatedNone DEF Init, HInv, Session

LEMMA HStep == HInv /\ [Next]_vars => HInv'
<1> SUFFICES ASSUME HInv, [Next]_vars PROVE HInv'
  OBVIOUS
<1>k. kind' = kind
  BY DEF Next, vars, input, OpenReader, OpenWriter, Open, ReceiveFirst, Demux, Send, ReceiveNext,
         EndInput, ReceiveLast, ReadAgain, Ended, Write, Drain, Flush, CloseWriter, CloseReader,
         CloseHandle, Stutter, ReadKeeps, WriteKeeps
<1>o. ASSUME NEW h PROVE OpenCalls(h)' = OpenCalls(h) /\ Closes(h)' = Closes(h)
  BY <1>k DEF OpenCalls, Closes, Hardware
<1>c. \A h \in {"reader", "writer"} :
         Created(h, opening)' = UNION {OpenCalls(h)[i].creates : i \in 1 .. opening' - 1}
  BY <1>o DEF Created
<1>h. \A o : /\ o \in Of("reader", Closes("reader")) => o \notin Of("writer", Closes("writer"))
             /\ o \notin {}
  BY DEF Of
<1>1. CASE OpenReader
  <2> DEFINE then == IF HasWriter THEN "openWriter" ELSE "read"
             kept == {}
  <2>1. Open("reader", "openReader", then, "done") /\ pc = "openReader"
    BY <1>1 DEF OpenReader, Open
  <2>2. /\ opening \in 1 .. Len(OpenCalls("reader"))
        /\ held \subseteq kept \cup Of("reader", Created("reader", opening))
    BY <2>1 DEF HInv
  <2>3. then \in {"openWriter", "read"}
    OBVIOUS
  <2>7. \A o : o \notin kept
    OBVIOUS
  <2> HIDE DEF then, kept
  <2>4. \/ /\ pc' = pc /\ opening' \in 1 .. Len(OpenCalls("reader"))
           /\ held' \subseteq kept \cup Of("reader", Created("reader", opening'))
        \/ pc' = then /\ opening' = 1 /\ held' \subseteq kept \cup Of("reader", Closes("reader"))
        \/ pc' = "done" /\ opening' = 1 /\ held' \subseteq kept
    BY <2>1, <2>2, <2>7, OpenCall
  <2>5. 1 \in 1 .. Len(OpenCalls("writer"))
    BY OpensRelease
  <2>6. Created("reader", opening)' = Created("reader", opening')
    BY <1>c DEF Created
  <2> QED BY <1>o, <2>1, <2>3, <2>4, <2>5, <2>6 DEF HInv, Session, kept
<1>2. CASE OpenWriter
  <2> DEFINE kept == Of("reader", Closes("reader"))
  <2>1. Open("writer", "openWriter", "read", "closeReader") /\ pc = "openWriter"
    BY <1>2 DEF OpenWriter, Open
  <2>2. /\ opening \in 1 .. Len(OpenCalls("writer"))
        /\ held \subseteq kept \cup Of("writer", Created("writer", opening))
    BY <2>1 DEF HInv
  <2>3. \A o \in Of("writer", Closes("writer")) : o \notin kept
    BY <1>h
  <2> HIDE DEF kept
  <2>4. \/ /\ pc' = pc /\ opening' \in 1 .. Len(OpenCalls("writer"))
           /\ held' \subseteq kept \cup Of("writer", Created("writer", opening'))
        \/ pc' = "read" /\ opening' = 1 /\ held' \subseteq kept \cup Of("writer", Closes("writer"))
        \/ pc' = "closeReader" /\ opening' = 1 /\ held' \subseteq kept
    BY <2>1, <2>2, <2>3, OpenCall
  <2>5. Created("writer", opening)' = Created("writer", opening')
    BY <1>c DEF Created
  <2> QED BY <1>o, <2>1, <2>4, <2>5 DEF HInv, Session, kept
<1>3. CASE CloseWriter \/ CloseReader
  BY <1>3, <1>o DEF CloseWriter, CloseReader, CloseHandle, HInv, Session, Of
<1>4. CASE \/ ReceiveFirst \/ Demux \/ Send \/ ReceiveNext \/ EndInput \/ ReceiveLast
           \/ ReadAgain \/ Ended \/ Write \/ Drain \/ Flush
  <2>1. pc \in Session /\ pc' \in Session /\ held' \subseteq held
    BY <1>4 DEF Session, ReceiveFirst, Receive, ReceiveFails, Nothing, Demux, Send, ReceiveNext,
           EndInput, ReceiveLast, ReadAgain, Ended, Write, Drain, Flush, Fail, ReadKeeps, WriteKeeps
  <2> QED BY <1>o, <2>1 DEF HInv, Session
<1>5. CASE UNCHANGED vars
  BY <1>o, <1>c, <1>5 DEF HInv, vars, Created
<1> QED BY <1>1, <1>2, <1>3, <1>4, <1>5 DEF Next, Stutter

(* Whatever fails, every object of FFmpeg is released (NothingLeaks).      *)
THEOREM ObjectsAreReleased == Spec => []NothingLeaks
<1>1. HInv => NothingLeaks
  BY DEF HInv, NothingLeaks
<1> QED BY HInit, HStep, <1>1, PTL DEF Spec

-----------------------------------------------------------------------------
(* Frames: the proof.                                                      *)

LEMMA StretchAppend ==
  ASSUME NEW S, NEW s \in Seq(S), NEW f, NEW k \in Nat, Stretch(f, s, k),
         NEW x \in S, x = f[k + Len(s)]
  PROVE  /\ Append(s, x) \in Seq(S) /\ Len(Append(s, x)) = Len(s) + 1
         /\ Stretch(f, Append(s, x), k)
<1>1. Len(s) \in Nat
  BY LenProperties
<1>2. /\ Append(s, x) \in Seq(S) /\ Len(Append(s, x)) = Len(s) + 1
      /\ \A i \in 1 .. Len(s) : Append(s, x)[i] = s[i]
      /\ Append(s, x)[Len(s) + 1] = x
  BY <1>1, AppendProperties
<1>3. ASSUME NEW i \in 1 .. Len(s) + 1 PROVE Append(s, x)[i] = f[k + i - 1]
  <2>1. CASE i \in 1 .. Len(s)
    BY <1>2, <2>1 DEF Stretch
  <2>2. CASE i = Len(s) + 1
    <3>1. k + i - 1 = k + Len(s)
      BY <1>1, <2>2
    <3> QED BY <1>2, <2>2, <3>1
  <2> QED BY <1>1, <2>1, <2>2
<1> QED BY <1>2, <1>3 DEF Stretch

LEMMA StretchTail ==
  ASSUME NEW S, NEW s \in Seq(S), NEW f, NEW k \in Nat, Stretch(f, s, k), s # <<>>
  PROVE  /\ Head(s) \in S /\ Head(s) = f[k]
         /\ Tail(s) \in Seq(S) /\ Len(Tail(s)) = Len(s) - 1
         /\ Stretch(f, Tail(s), k + 1)
<1>1. Len(s) \in Nat \ {0} /\ Head(s) = s[1]
  BY EmptySeq
<1>2. /\ Head(s) \in S /\ Tail(s) \in Seq(S) /\ Len(Tail(s)) = Len(s) - 1
      /\ \A i \in 1 .. Len(Tail(s)) : Tail(s)[i] = s[i + 1]
  BY HeadTailProperties
<1>3. Head(s) = f[k]
  <2>1. 1 \in 1 .. Len(s) /\ k + 1 - 1 = k
    BY <1>1
  <2> QED BY <1>1, <2>1 DEF Stretch
<1>4. ASSUME NEW i \in 1 .. Len(Tail(s)) PROVE Tail(s)[i] = f[(k + 1) + i - 1]
  <2>1. i + 1 \in 1 .. Len(s) /\ k + (i + 1) - 1 = (k + 1) + i - 1
    BY <1>1, <1>2
  <2> QED BY <1>2, <2>1 DEF Stretch
<1> QED BY <1>2, <1>3, <1>4 DEF Stretch

(* What the calls of a codec do to what is inside it.                      *)
LEMMA CodecSend ==
  ASSUME NEW S, NEW c \in Codecs(S), NEW x \in S, NEW d \in AfterSend(c, x)
  PROVE  d \in Codecs(S) /\ d.inside = Append(c.inside, x) /\ ~d.draining
<1>1. /\ c.inside \in Seq(S) /\ c.ready \in Nat /\ Len(c.inside) \in Nat
      /\ Append(c.inside, x) \in Seq(S) /\ Len(Append(c.inside, x)) = Len(c.inside) + 1
  BY LenProperties, AppendProperties DEF Codecs
<1>2. PICK r \in c.ready .. Len(c.inside) + 1 :
              d = [inside |-> Append(c.inside, x), ready |-> r, draining |-> FALSE]
  BY DEF AfterSend
<1>3. r \in Nat /\ r <= Len(c.inside) + 1
  BY <1>1, <1>2
<1> QED BY <1>1, <1>2, <1>3 DEF Codecs

LEMMA CodecEnd ==
  ASSUME NEW S, NEW c \in Codecs(S)
  PROVE  /\ AfterEnd(c) \in Codecs(S) /\ AfterEnd(c).inside = c.inside
         /\ AfterEnd(c).draining
<1>1. c \in [inside : Seq(S), ready : Nat, draining : BOOLEAN] /\ Len(c.inside) \in Nat
  BY LenProperties DEF Codecs
<1> DEFINE n == Len(c.inside)
           d == [c EXCEPT !.ready = n, !.draining = TRUE]
<1>2. AfterEnd(c) = d
  BY DEF AfterEnd
<1> HIDE DEF n
<1>3. /\ d \in [inside : Seq(S), ready : Nat, draining : BOOLEAN]
      /\ d.inside = c.inside /\ d.ready = n /\ d.draining
  BY <1>1 DEF n
<1> HIDE DEF d
<1>4. d.ready <= Len(d.inside) /\ (d.draining => d.ready = Len(d.inside))
  BY <1>1, <1>3 DEF n
<1> QED BY <1>2, <1>3, <1>4 DEF Codecs

LEMMA CodecReceive ==
  ASSUME NEW S, NEW c \in Codecs(S), HasOutput(c)
  PROVE  /\ c.inside \in Seq(S) /\ c.inside # <<>> /\ Output(c) = Head(c.inside)
         /\ AfterReceive(c) \in Codecs(S)
         /\ AfterReceive(c).inside = Tail(c.inside)
         /\ AfterReceive(c).draining = c.draining
<1>1. /\ c.inside \in Seq(S) /\ Len(c.inside) \in Nat /\ c.ready \in Nat /\ c.ready > 0
      /\ c.ready <= Len(c.inside)
  BY LenProperties DEF Codecs, HasOutput
<1>2. c.inside # <<>> /\ Tail(c.inside) \in Seq(S) /\ Len(Tail(c.inside)) = Len(c.inside) - 1
  BY <1>1, EmptySeq, HeadTailProperties
<1>3. c \in [inside : Seq(S), ready : Nat, draining : BOOLEAN]
  BY DEF Codecs
<1> DEFINE t == Tail(c.inside)
           r == c.ready - 1
           d == [c EXCEPT !.inside = t, !.ready = r]
<1>4. t \in Seq(S) /\ r \in Nat
  BY <1>1, <1>2
<1>5. AfterReceive(c) = d
  BY DEF AfterReceive
<1> HIDE DEF t, r
<1>6. /\ d \in [inside : Seq(S), ready : Nat, draining : BOOLEAN]
      /\ d.inside = t /\ d.ready = r /\ d.draining = c.draining
  BY <1>3, <1>4
<1>7. c.draining => c.ready = Len(c.inside)
  BY DEF Codecs
<1> HIDE DEF d
<1>8. d.ready <= Len(d.inside) /\ (d.draining => d.ready = Len(d.inside))
  BY <1>1, <1>2, <1>6, <1>7 DEF t, r
<1> QED BY <1>1, <1>2, <1>5, <1>6, <1>8 DEF Codecs, Output, t

LEMMA DInit == Init => DInv
<1> SUFFICES ASSUME Init PROVE DInv
  OBVIOUS
<1>1. NewCodec \in Codecs(Nat) /\ NewCodec.inside = <<>> /\ ~NewCodec.draining
  BY EmptySeq DEF NewCodec, Codecs
<1>2. \A f, k : Stretch(f, <<>>, k)
  BY EmptySeq DEF Stretch
<1>3. <<>> \in Seq([frame : Nat, index : Nat]) /\ Len(<<>>) = 0
  BY EmptySeq
<1>4. video \in Nat /\ limit \in Nat
  BY SessionAssumption DEF Init
<1>5. DType
  BY <1>1, <1>3, <1>4 DEF Init, DType, Opens
<1>6. DFrames
  BY <1>1, <1>2, <1>3, <1>4 DEF Init, DFrames
<1>7. DPlaces /\ DLimit /\ DOutcome
  BY <1>3, <1>4 DEF Init, DPlaces, DLimit, DOutcome, Opens, Reads, Gone, FlushDrain
<1> QED BY <1>5, <1>6, <1>7 DEF DInv

(* A failure ends the reading: what has been delivered stays.              *)
LEMMA DFails ==
  ASSUME DInv, Fail, kind' = kind, video' = video, limit' = limit, delivered' = delivered,
         unread' \in Nat, nextIndex' \in Nat, decoder' \in Codecs(Nat), flushing' \in BOOLEAN
  PROVE  DInv'
<1>1. pc' = "closeWriter" /\ outcome' = "error"
  BY DEF Fail
<1>2. DType'
  BY <1>1 DEF DInv, DType, Gone
<1>3. DFrames'
  BY <1>1 DEF DInv, DFrames, Gone, Stretch
<1>4. DPlaces' /\ DLimit' /\ DOutcome'
  BY <1>1 DEF DPlaces, DLimit, DOutcome, Opens, Reads, Gone, FlushDrain
<1> QED BY <1>2, <1>3, <1>4 DEF DInv

(* A frame received is the next one, and leaves the others inside.         *)
LEMMA DReceives ==
  ASSUME DInv, Receive, pc \in Reads,
         UNCHANGED <<kind, video, limit, unread, decoderFlushed, flushing>>
  PROVE  DInv'
<1>1. /\ decoder \in Codecs(Nat) /\ decoder' = AfterReceive(decoder)
      /\ decoder.inside \in Seq(Nat) /\ decoder.inside # <<>>
      /\ decoder' \in Codecs(Nat) /\ decoder'.inside = Tail(decoder.inside)
      /\ decoder'.draining = decoder.draining
      /\ Output(decoder) = Head(decoder.inside)
  BY CodecReceive DEF Receive, DInv, DType
<1>n. /\ pc \notin Gone /\ Len(delivered) \in Nat /\ unread \in Nat /\ video \in Nat
      /\ limit \in Nat /\ nextIndex \in Nat
      /\ delivered \in Seq([frame : Nat, index : Nat])
  BY LenProperties DEF Reads, Gone, DInv, DType
<1>2. /\ Stretch(Plain, decoder.inside, Len(delivered)) /\ Stretch(Indexed, delivered, 0)
      /\ Len(delivered) + Len(decoder.inside) = unread /\ unread <= video
      /\ nextIndex = Len(delivered)
      /\ decoder.draining <=> decoderFlushed
      /\ decoder.draining => unread = video
  BY <1>n DEF DInv, DFrames
<1>3. /\ Head(decoder.inside) \in Nat /\ Head(decoder.inside) = Plain[Len(delivered)]
      /\ Len(Tail(decoder.inside)) = Len(decoder.inside) - 1
      /\ Stretch(Plain, Tail(decoder.inside), Len(delivered) + 1)
  BY <1>1, <1>2, <1>n, StretchTail
<1>4. CASE /\ delivered' = Append(delivered, Numbered)
           /\ nextIndex' = nextIndex + 1
           /\ pc' = IF HasWriter THEN "write" ELSE "readAgain"
           /\ UNCHANGED outcome
  <2>1. /\ Numbered \in [frame : Nat, index : Nat]
        /\ Numbered = Indexed[0 + Len(delivered)]
    BY <1>n, <1>1, <1>2, <1>3 DEF Numbered, Plain, Indexed
  <2>2. /\ delivered' \in Seq([frame : Nat, index : Nat])
        /\ Len(delivered') = Len(delivered) + 1
        /\ Stretch(Indexed, delivered', 0)
    <3> DEFINE S == [frame : Nat, index : Nat]
    <3>1. delivered \in Seq(S) /\ Numbered \in S /\ 0 \in Nat
      BY <1>n, <2>1
    <3> HIDE DEF S
    <3>2. /\ Append(delivered, Numbered) \in Seq(S)
          /\ Len(Append(delivered, Numbered)) = Len(delivered) + 1
          /\ Stretch(Indexed, Append(delivered, Numbered), 0)
      <4>1. Stretch(Indexed, delivered, 0) /\ Numbered = Indexed[0 + Len(delivered)]
        BY <1>2, <2>1
      <4> QED BY <3>1, <4>1, StretchAppend
    <3> QED BY <1>4, <3>2 DEF S
  <2>3. pc' \in {"write", "readAgain"}
    BY <1>4
  <2>4. limit = 0 \/ Len(delivered) < limit
    BY DEF DInv, DLimit
  <2>5. ~flushing /\ outcome = "none"
    BY DEF DInv, DLimit, DOutcome, Reads, Gone, FlushDrain
  <2>6. DType'
    BY <1>n, <1>1, <1>4, <2>2, <2>3, <2>5 DEF DInv, DType
  <2>7. Len(delivered') + Len(decoder'.inside) = unread'
    <3>1. Len(decoder.inside) \in Nat
      BY <1>1, LenProperties
    <3>2. /\ Len(decoder'.inside) = Len(decoder.inside) - 1 /\ unread' = unread
          /\ Len(delivered) + Len(decoder.inside) = unread
      BY <1>1, <1>2, <1>3
    <3>3. (Len(delivered) + 1) + (Len(decoder.inside) - 1) = unread
      <4>1. Len(delivered) \in Nat /\ Len(delivered) + Len(decoder.inside) = unread
        BY <3>2, <1>n
      <4>2. \A d, n \in Nat : (d + 1) + (n - 1) = d + n
        OBVIOUS
      <4> QED BY Zenon, <3>1, <4>1, <4>2
    <3> QED BY Zenon, <3>2, <3>3, <2>2
  <2>8. DFrames'
    BY <1>n, <1>1, <1>2, <1>3, <1>4, <2>2, <2>7 DEF DFrames
  <2>9. DLimit'
    BY <1>n, <2>2, <2>3, <2>4, <2>5 DEF DLimit, Opens, Reads, Gone, FlushDrain
  <2>10. DPlaces' /\ DOutcome'
    BY <1>4, <2>3, <2>5 DEF DPlaces, DOutcome, Gone
  <2> QED BY <2>6, <2>8, <2>9, <2>10 DEF DInv
<1>5. CASE Fail /\ UNCHANGED delivered /\ nextIndex' \in {nextIndex, nextIndex + 1}
  <2>1. nextIndex' \in Nat /\ flushing' \in BOOLEAN /\ unread' \in Nat
    BY <1>5, <1>n DEF DInv, DType
  <2> QED BY <1>1, <1>5, <2>1, DFails
<1> QED BY <1>4, <1>5 DEF Receive

(* The packet or the end goes in when nothing is ready.                    *)
LEMMA DSends == ASSUME DInv, Send PROVE DInv'
<1>1. /\ pc = "send" /\ decoder.ready = 0 /\ ~decoder.draining /\ unread < video
      /\ decoder \in Codecs(Nat)
  BY DEF Send, DInv, DPlaces, DType
<1>2. Accepts(decoder) /\ ~HasOutput(decoder)
  BY <1>1 DEF Accepts, HasOutput
<1>3. UNCHANGED <<kind, video, limit, decoderFlushed, flushing, delivered, nextIndex>>
  BY <1>2 DEF Send, Fail, ReadKeeps, input, writing
<1>n. /\ Len(delivered) \in Nat /\ unread \in Nat /\ video \in Nat
      /\ decoder.inside \in Seq(Nat) /\ Len(decoder.inside) \in Nat
      /\ unread' = unread + 1 /\ unread' \in Nat
  BY <1>1, LenProperties DEF DInv, DType, Codecs, Send
<1>4. CASE Fail /\ UNCHANGED decoder
  BY <1>1, <1>3, <1>4, <1>n, DFails DEF DInv, DType
<1>5. CASE decoder' \in AfterSend(decoder, unread) /\ pc' = "receive" /\ UNCHANGED outcome
  <2>1. /\ decoder' \in Codecs(Nat) /\ decoder'.inside = Append(decoder.inside, unread)
        /\ ~decoder'.draining
    BY <1>1, <1>5, <1>n, CodecSend
  <2>2. /\ Stretch(Plain, decoder.inside, Len(delivered)) /\ Stretch(Indexed, delivered, 0)
        /\ Len(delivered) + Len(decoder.inside) = unread
        /\ nextIndex = Len(delivered) /\ ~decoderFlushed
    BY <1>1 DEF DInv, DFrames, Gone
  <2>3. unread = Plain[Len(delivered) + Len(decoder.inside)]
    BY <1>n, <2>2 DEF Plain
  <2>4. /\ Len(decoder'.inside) = Len(decoder.inside) + 1
        /\ Stretch(Plain, decoder'.inside, Len(delivered))
    <3>1. /\ Len(Append(decoder.inside, unread)) = Len(decoder.inside) + 1
          /\ Stretch(Plain, Append(decoder.inside, unread), Len(delivered))
      <4>1. /\ decoder.inside \in Seq(Nat) /\ Len(delivered) \in Nat /\ unread \in Nat
            /\ Stretch(Plain, decoder.inside, Len(delivered))
        BY <1>n, <2>2
      <4> DEFINE q == decoder.inside
                 k == Len(delivered)
      <4>2. q \in Seq(Nat) /\ k \in Nat /\ Stretch(Plain, q, k) /\ unread = Plain[k + Len(q)]
        BY <4>1, <2>3
      <4> HIDE DEF q, k
      <4>3. Len(Append(q, unread)) = Len(q) + 1 /\ Stretch(Plain, Append(q, unread), k)
        BY <4>1, <4>2, StretchAppend
      <4> QED BY <4>3 DEF q, k
    <3> QED BY <2>1, <3>1
  <2>5. DType'
    BY <1>3, <1>5, <1>n, <2>1 DEF DInv, DType, Reads
  <2>6. unread' <= video /\ Len(delivered) + Len(decoder'.inside) = unread'
    BY <1>1, <1>n, <2>2, <2>4
  <2>7. DFrames'
    BY <1>3, <2>1, <2>2, <2>4, <2>6 DEF DFrames
  <2>8. DPlaces' /\ DLimit' /\ DOutcome'
    BY <1>1, <1>3, <1>5 DEF DInv, DPlaces, DLimit, DOutcome, Opens, Reads, Gone, FlushDrain, Wanted
  <2> QED BY <2>5, <2>7, <2>8 DEF DInv
<1> QED BY <1>2, <1>4, <1>5 DEF Send

LEMMA DEnds == ASSUME DInv, EndInput PROVE DInv'
<1>1. /\ pc = "endInput" /\ decoder.ready = 0 /\ ~decoder.draining /\ unread = video
      /\ decoder \in Codecs(Nat)
      /\ UNCHANGED <<kind, video, limit, unread, flushing, delivered, nextIndex>>
  BY DEF EndInput, DInv, DPlaces, DType, ReadKeeps, input, writing
<1>2. ~decoderFlushed
  BY <1>1 DEF DInv, DFrames, Gone
<1>3. CASE Fail /\ UNCHANGED decoder
  BY <1>1, <1>3, DFails DEF DInv, DType
<1>4. CASE decoder' = AfterEnd(decoder) /\ pc' = "receiveLast" /\ UNCHANGED outcome
  <2>1. /\ decoder' \in Codecs(Nat) /\ decoder'.inside = decoder.inside /\ decoder'.draining
    BY <1>1, <1>4, CodecEnd
  <2>2. decoderFlushed' = TRUE
    BY DEF EndInput
  <2>3. DType'
    BY <1>1, <1>4, <2>1 DEF DInv, DType, Reads
  <2>4. DFrames'
    BY <1>1, <2>1, <2>2 DEF DInv, DFrames, Gone, Stretch
  <2>5. DPlaces' /\ DLimit' /\ DOutcome'
    BY <1>1, <1>4, <2>1 DEF DInv, DPlaces, DLimit, DOutcome, Opens, Reads, Gone, FlushDrain, Wanted
  <2> QED BY <2>3, <2>4, <2>5 DEF DInv
<1> QED BY <1>2, <1>3, <1>4 DEF EndInput

(* A step that leaves the reader alone and moves to a place that asks no   *)
(* more of it.                                                             *)
LEMMA DMoves ==
  ASSUME DInv, pc \notin Gone,
         UNCHANGED <<kind, video, limit, unread, nextIndex, delivered, decoder, decoderFlushed>>,
         DType', DPlaces', DLimit', DOutcome'
  PROVE  DInv'
BY DEF DInv, DFrames, Stretch

LEMMA DStep == DInv /\ [Next]_vars => DInv'
<1> SUFFICES ASSUME DInv, [Next]_vars PROVE DInv'
  OBVIOUS
<1> USE DEF Opens, Reads, Gone, FlushDrain, Wanted
<1>n. /\ Len(delivered) \in Nat /\ unread \in Nat /\ video \in Nat /\ limit \in Nat
      /\ nextIndex \in Nat /\ decoder \in Codecs(Nat) /\ flushing \in BOOLEAN
      /\ decoder.inside \in Seq(Nat) /\ Len(decoder.inside) \in Nat
  BY LenProperties DEF DInv, DType, Codecs
<1>b. pc \notin Gone => Len(delivered) <= video
  BY <1>n DEF DInv, DFrames
<1>f. ASSUME Fail, UNCHANGED <<input, unread, nextIndex, delivered, decoder>>,
             flushing' \in BOOLEAN
      PROVE  DInv'
  BY <1>f, <1>n, DFails DEF input
<1>1. CASE OpenReader \/ OpenWriter
  <2>1. /\ pc \in Opens
        /\ UNCHANGED <<kind, video, limit, unread, nextIndex, delivered, decoder,
                       decoderFlushed, flushing>>
        /\ \/ pc' \in {pc, "openWriter", "read"} /\ outcome' = outcome
           \/ pc' \in {"done", "closeReader"} /\ outcome' = "error"
    BY <1>1 DEF OpenReader, OpenWriter, Open, input, reading, writing
  <2>2. DType' /\ DPlaces'
    BY <2>1 DEF DInv, DType, DPlaces
  <2>3. DLimit' /\ DOutcome'
    BY <2>1 DEF DInv, DLimit, DOutcome
  <2> QED BY <2>1, <2>2, <2>3, DMoves
<1>2. CASE ReceiveFirst \/ ReceiveNext \/ ReceiveLast
  <2>1. /\ pc \in {"read", "receive", "receiveLast"}
        /\ UNCHANGED <<kind, video, limit, unread, decoderFlushed, flushing>>
    BY <1>2 DEF ReceiveFirst, ReceiveNext, ReceiveLast, ReadKeeps, input, writing
  <2>2. CASE Receive
    BY <2>1, <2>2, DReceives
  <2>3. CASE ReceiveFails
    BY <2>1, <2>3, <1>n, <1>f DEF ReceiveFails, input
  <2>4. ASSUME \/ WantsMore(decoder) /\ Nothing("demux")
               \/ decoder.draining /\ decoder.ready = 0 /\ Nothing("ended")
        PROVE  DInv'
    <3>1. /\ UNCHANGED <<nextIndex, delivered, decoder, outcome>>
          /\ decoder.ready = 0
          /\ \/ pc' = "demux" /\ ~decoder.draining
             \/ pc' = "ended" /\ decoder.draining
      BY <2>4 DEF Nothing, WantsMore
    <3>2. DType' /\ DPlaces'
      BY <2>1, <3>1 DEF DInv, DType, DPlaces
    <3>3. DLimit' /\ DOutcome'
      BY <2>1, <3>1 DEF DInv, DLimit, DOutcome
    <3> QED BY <2>1, <3>1, <3>2, <3>3, DMoves
  <2>5. pc = "receiveLast" /\ ~HasOutput(decoder) => decoder.draining /\ decoder.ready = 0
    BY <1>n DEF HasOutput, DInv, DPlaces, Codecs
  <2> QED BY <1>2, <2>2, <2>3, <2>4, <2>5 DEF ReceiveFirst, ReceiveNext, ReceiveLast, AtEnd
<1>3. CASE Demux
  <2>1. /\ pc = "demux"
        /\ UNCHANGED <<kind, video, limit, unread, nextIndex, delivered, decoder,
                       decoderFlushed, flushing>>
    BY <1>3 DEF Demux, ReadKeeps, input, writing
  <2>2. CASE Fail
    BY <2>1, <2>2, <1>n, <1>f DEF input
  <2>3. CASE /\ UNCHANGED outcome
             /\ \/ unread < video /\ pc' = "send"
                \/ pc' = pc
                \/ unread = video /\ pc' = "endInput"
    <3>1. DType' /\ DPlaces'
      BY <2>1, <2>3 DEF DInv, DType, DPlaces
    <3>2. DLimit' /\ DOutcome'
      BY <2>1, <2>3 DEF DInv, DLimit, DOutcome
    <3> QED BY <2>1, <3>1, <3>2, DMoves
  <2> QED BY <1>3, <2>2, <2>3 DEF Demux
<1>4. CASE Send
  BY <1>4, DSends
<1>5. CASE EndInput
  BY <1>5, DEnds
<1>6. CASE ReadAgain
  <2>1. /\ pc = "readAgain" /\ pc' = IF Len(delivered) = limit THEN "flush" ELSE "read"
        /\ UNCHANGED <<kind, video, limit, unread, nextIndex, delivered, decoder,
                       decoderFlushed, flushing, outcome>>
    BY <1>6 DEF ReadAgain, ReadKeeps, input, reading, writing
  <2>2. /\ Len(delivered) > 0 /\ (limit = 0 \/ Len(delivered) <= limit)
        /\ ~flushing /\ outcome = "none" /\ Len(delivered) <= video
    BY <2>1, <1>b DEF DInv, DLimit, DOutcome
  <2>3. DType' /\ DPlaces'
    BY <2>1 DEF DInv, DType, DPlaces
  <2>4. DLimit'
    BY <1>n, <2>1, <2>2 DEF DLimit
  <2>5. DOutcome'
    BY <2>1, <2>2 DEF DOutcome
  <2> QED BY <2>1, <2>3, <2>4, <2>5, DMoves
<1>7. CASE Ended
  <2>1. /\ pc = "ended" /\ pc' = "flush" /\ outcome' = "end"
        /\ UNCHANGED <<kind, video, limit, unread, nextIndex, delivered, decoder,
                       decoderFlushed, flushing>>
    BY <1>7 DEF Ended, ReadKeeps, input, reading, writing
  <2>2. Len(delivered) = video
    <3>1. decoder.draining /\ decoder.ready = 0
      BY <2>1 DEF DInv, DPlaces
    <3>2. Len(decoder.inside) = 0
      BY <3>1, <1>n DEF Codecs
    <3>3. Len(delivered) + Len(decoder.inside) = unread /\ unread = video
      BY <2>1, <3>1 DEF DInv, DFrames
    <3> QED BY <1>n, <3>2, <3>3
  <2>3. limit = 0 \/ Len(delivered) < limit
    BY <2>1 DEF DInv, DLimit
  <2>4. DType' /\ DPlaces'
    BY <2>1 DEF DInv, DType, DPlaces
  <2>5. ~flushing
    BY <2>1 DEF DInv, DLimit
  <2>6. DLimit' /\ DOutcome'
    BY <1>n, <2>1, <2>2, <2>3, <2>5 DEF DLimit, DOutcome
  <2> QED BY <2>1, <2>4, <2>6, DMoves
<1>8. CASE Write \/ Drain \/ Flush
  <2>1. /\ pc \in {"write", "drain", "flush"}
        /\ UNCHANGED <<kind, video, limit, unread, nextIndex, delivered, decoder,
                       decoderFlushed>>
    BY <1>8 DEF Write, Drain, Flush, WriteKeeps, input, reading
  <2>2. flushing' = IF pc = "flush" THEN TRUE ELSE flushing
    BY <1>8 DEF Write, Drain, Flush
  <2>3. CASE Fail
    BY <2>1, <2>2, <2>3, <1>n, <1>f DEF input
  <2>4. CASE /\ outcome' = outcome
             /\ \/ pc \in {"write", "drain", "flush"} /\ pc' = "drain"
                \/ pc = "drain" /\ ~flushing /\ pc' = "readAgain"
    <3>1. DType' /\ DPlaces'
      BY <1>n, <2>1, <2>2, <2>4 DEF DInv, DType, DPlaces
    <3>2. DLimit' /\ DOutcome'
      BY <2>1, <2>2, <2>4 DEF DInv, DLimit, DOutcome
    <3> QED BY <2>1, <3>1, <3>2, DMoves
  <2>5. CASE pc' = "closeWriter" /\ outcome' \in {"ok", "error"}
    <3>1. DType' /\ DPlaces'
      BY <1>n, <2>1, <2>2, <2>5 DEF DInv, DType, DPlaces
    <3>2. DLimit' /\ DOutcome'
      BY <2>5 DEF DLimit, DOutcome
    <3> QED BY <2>1, <3>1, <3>2, DMoves
  <2>6. \/ Fail
        \/ /\ outcome' = outcome
           /\ \/ pc \in {"write", "drain", "flush"} /\ pc' = "drain"
              \/ pc = "drain" /\ ~flushing /\ pc' = "readAgain"
        \/ pc' = "closeWriter" /\ outcome' \in {"ok", "error"}
    BY <1>8 DEF Write, Drain, Flush, Flushed
  <2> QED BY <2>3, <2>4, <2>5, <2>6
<1>9. CASE CloseWriter \/ CloseReader
  <2>1. /\ pc \in Gone /\ pc' \in Gone
        /\ UNCHANGED <<kind, video, limit, unread, nextIndex, delivered, decoder,
                       decoderFlushed, flushing, outcome>>
    BY <1>9 DEF CloseWriter, CloseReader, CloseHandle, input, reading, writing
  <2>2. DType' /\ DFrames' /\ DPlaces'
    BY <2>1 DEF DInv, DType, DFrames, DPlaces, Stretch
  <2>3. DLimit' /\ DOutcome'
    BY <2>1 DEF DInv, DLimit, DOutcome
  <2> QED BY <2>2, <2>3 DEF DInv
<1>10. CASE UNCHANGED vars
  <2> USE <1>10 DEF vars, input, reading, writing
  <2>1. DType' /\ DFrames' /\ DPlaces'
    BY DEF DInv, DType, DFrames, DPlaces, Stretch
  <2>2. DLimit' /\ DOutcome'
    BY DEF DInv, DLimit, DOutcome
  <2> QED BY <2>1, <2>2 DEF DInv
<1> QED BY <1>1, <1>2, <1>3, <1>4, <1>5, <1>6, <1>7, <1>8, <1>9, <1>10 DEF Next, Stutter

-----------------------------------------------------------------------------
(* The file: the proof.                                                    *)

Packets == [frame : Nat, pts : Nat]

LEMMA EInit == Init => EInv
<1> SUFFICES ASSUME Init PROVE EInv
  OBVIOUS
<1>1. NewCodec \in Codecs(Packets) /\ NewCodec.inside = <<>> /\ NewCodec.ready = 0
  BY EmptySeq DEF NewCodec, Codecs
<1>2. \A f, k : Stretch(f, <<>>, k)
  BY EmptySeq DEF Stretch
<1>3. <<>> \in Seq(Packets) /\ Len(<<>>) = 0
  BY EmptySeq
<1>4. EType
  BY <1>1, <1>3 DEF Init, EType, Packets
<1>5. EFrames
  BY <1>1, <1>2, <1>3 DEF Init, EFrames, FlushDrain
<1>6. EOutcome
  BY DEF Init, EOutcome
<1> QED BY <1>4, <1>5, <1>6 DEF EInv

(* The end of the session, and a failure: the packets stay in the file.    *)
LEMMA EGone ==
  ASSUME EInv, UNCHANGED input, pc' \in Gone, file' = file,
         nextPts' \in Nat, submitted' \in Nat, encoder' \in Codecs(Packets),
         outcome' = "error" \/ (outcome' = outcome /\ pc \in Gone)
  PROVE  EInv'
<1>1. EType'
  BY DEF EInv, EType, Packets
<1>2. EFrames'
  BY DEF EInv, EFrames, Stretch, Gone
<1>3. EOutcome'
  BY DEF EInv, EOutcome, HasWriter, Wanted, input
<1> QED BY <1>1, <1>2, <1>3 DEF EInv

(* A step of the reading: when a frame has been delivered it is written    *)
(* next.                                                                   *)
LEMMA EReads ==
  ASSUME EInv, UNCHANGED <<input, writing>>,
         pc \notin Gone \cup {"write", "drain"}, pc' \notin Gone \cup {"drain"},
         Len(delivered) \in Nat,
         \/ pc' # "write" /\ delivered' = delivered
         \/ ~HasWriter /\ pc' # "write"
         \/ HasWriter /\ pc' = "write" /\ Len(delivered') = Len(delivered) + 1,
         outcome' \in {outcome, "end"}
  PROVE  EInv'
<1>1. EType'
  BY DEF EInv, EType, writing
<1>2. HasWriter' = HasWriter /\ ~FlushDrain'
  BY DEF HasWriter, input, FlushDrain
<1>3. /\ Stretch(Stamps, file, 0)' /\ Stretch(Stamps, encoder.inside, Len(file))'
      /\ (Len(file) + Len(encoder.inside) = nextPts)' /\ (encoder.ready = 0)'
  BY DEF EInv, EFrames, Stretch, writing
<1>4. HasWriter => nextPts' = IF pc' = "write" THEN Len(delivered') - 1 ELSE Len(delivered')
  <2>1. HasWriter => nextPts = Len(delivered) /\ nextPts' = nextPts
    BY DEF EInv, EFrames, writing
  <2> QED BY <2>1
<1>5. EFrames'
  BY <1>2, <1>3, <1>4 DEF EFrames
<1>6. EOutcome'
  BY <1>2 DEF EInv, EOutcome
<1> QED BY <1>1, <1>5, <1>6 DEF EInv

(* The frame delivered last is the next the encoder has to get.            *)
LEMMA EWrites == ASSUME DInv, EInv, Write PROVE EInv'
<1>1. /\ pc = "write" /\ UNCHANGED <<input, delivered, flushing, file>>
      /\ flushing' = flushing /\ file' = file
  BY DEF Write, WriteKeeps, reading
<1>2. /\ HasWriter /\ encoder.ready = 0 /\ nextPts = Len(delivered) - 1
      /\ Stretch(Stamps, file, 0) /\ Stretch(Stamps, encoder.inside, Len(file))
      /\ Len(file) + Len(encoder.inside) = nextPts
  BY <1>1 DEF EInv, EFrames, Gone
<1>3. /\ nextPts \in Nat /\ submitted \in Nat /\ file \in Seq(Packets) /\ Len(file) \in Nat
      /\ encoder \in Codecs(Packets) /\ encoder.inside \in Seq(Packets)
      /\ Len(encoder.inside) \in Nat
      /\ delivered \in Seq([frame : Nat, index : Nat]) /\ Len(delivered) \in Nat
      /\ Len(delivered) > 0 /\ ~flushing
  <2>1. Len(delivered) > 0 /\ ~flushing
    BY <1>1 DEF DInv, DLimit, Gone
  <2> QED BY <2>1, LenProperties DEF DInv, DType, EInv, EType, Packets, Codecs
<1>4. Stamped \in Packets /\ Stamped = Stamps[Len(file) + Len(encoder.inside)]
  <2>1. delivered[Len(delivered)] = Indexed[0 + Len(delivered) - 1]
    BY <1>3 DEF DInv, DFrames, Stretch
  <2>2. delivered[Len(delivered)].frame = nextPts
    BY <1>2, <1>3, <2>1 DEF Indexed
  <2> QED BY <1>2, <1>3, <2>2 DEF Stamped, Stamps, Packets
<1>5. Accepts(encoder)
  BY <1>2 DEF Accepts
<1>6. ASSUME Fail, nextPts' \in {nextPts, nextPts + 1}, UNCHANGED <<encoder, submitted>>
      PROVE  EInv'
  <2>1. nextPts' \in Nat /\ pc' \in Gone /\ outcome' = "error"
    BY <1>3, <1>6 DEF Fail, Gone
  <2> QED BY <1>1, <1>3, <1>6, <2>1, EGone
<1>7. ASSUME nextPts' = nextPts + 1, encoder' \in AfterSend(encoder, Stamped),
             submitted' = submitted + 1, pc' = "drain", UNCHANGED outcome
      PROVE  EInv'
  <2> DEFINE q == encoder.inside
             k == Len(file)
             x == Stamped
  <2>1. /\ encoder' \in Codecs(Packets) /\ encoder'.inside = Append(q, x)
        /\ ~encoder'.draining
    BY <1>3, <1>4, <1>7, CodecSend
  <2>2. /\ q \in Seq(Packets) /\ k \in Nat /\ x \in Packets /\ x = Stamps[k + Len(q)]
        /\ Stretch(Stamps, q, k) /\ k + Len(q) = nextPts /\ Len(q) \in Nat
    BY <1>2, <1>3, <1>4
  <2>3. k' = k
    BY <1>1
  <2> HIDE DEF q, k, x
  <2>4. Len(Append(q, x)) = Len(q) + 1 /\ Stretch(Stamps, Append(q, x), k)
    BY <2>2, StretchAppend
  <2>5. k + Len(Append(q, x)) = nextPts'
    BY <1>3, <1>7, <2>2, <2>4
  <2>6. EType'
    BY <1>1, <1>3, <1>7, <2>1 DEF EType, Packets
  <2>7. (HasWriter)' = HasWriter
    BY <1>1 DEF HasWriter, input
  <2>8. nextPts' = Len(delivered')
    BY <1>1, <1>2, <1>3, <1>7
  <2>9. Stretch(Stamps, file, 0)'
    BY <1>1, <1>2 DEF Stretch
  <2>10. Stretch(Stamps, encoder.inside, Len(file))' /\ (Len(file) + Len(encoder.inside) = nextPts)'
    BY <2>1, <2>3, <2>4, <2>5 DEF Stretch, k
  <2>11. EFrames'
    BY <1>1, <1>2, <1>3, <1>7, <2>7, <2>8, <2>9, <2>10 DEF EFrames, FlushDrain
  <2>12. EOutcome'
    BY <1>1, <1>7, <2>7 DEF EInv, EOutcome, Gone
  <2> QED BY <2>6, <2>11, <2>12 DEF EInv
<1> QED BY <1>5, <1>6, <1>7 DEF Write

(* A packet goes from the encoder to the file.                             *)
LEMMA EDrains == ASSUME DInv, EInv, Drain PROVE EInv'
<1>1. /\ pc = "drain" /\ UNCHANGED <<input, delivered>> /\ delivered' = delivered
      /\ UNCHANGED <<nextPts, flushing, submitted>>
  BY DEF Drain, WriteKeeps, reading
<1>2. /\ HasWriter /\ nextPts = Len(delivered)
      /\ Stretch(Stamps, file, 0) /\ Stretch(Stamps, encoder.inside, Len(file))
      /\ Len(file) + Len(encoder.inside) = nextPts
      /\ flushing => encoder.draining
  BY <1>1 DEF EInv, EFrames, Gone, FlushDrain
<1>3. /\ nextPts \in Nat /\ submitted \in Nat /\ file \in Seq(Packets) /\ Len(file) \in Nat
      /\ encoder \in Codecs(Packets) /\ encoder.inside \in Seq(Packets)
      /\ Len(encoder.inside) \in Nat /\ Len(delivered) \in Nat
  BY LenProperties DEF DInv, DType, EInv, EType, Packets, Codecs
<1>h. HasWriter' = HasWriter /\ Wanted' = Wanted
  BY <1>1 DEF HasWriter, Wanted, input
<1>4. ASSUME Fail, file' = file, encoder' \in Codecs(Packets)
      PROVE  EInv'
  <2>1. nextPts' \in Nat /\ submitted' \in Nat /\ pc' \in Gone /\ outcome' = "error"
    BY <1>1, <1>3, <1>4 DEF Fail, Gone
  <2> QED BY <1>1, <1>4, <2>1, EGone
<1>5. ASSUME HasOutput(encoder), encoder' = AfterReceive(encoder)
      PROVE  /\ encoder' \in Codecs(Packets)
             /\ file' = Append(file, Output(encoder)) /\ UNCHANGED <<pc, outcome>> => EInv'
  <2> DEFINE q == encoder.inside
             k == Len(file)
             x == Output(encoder)
             f == Append(file, x)
  <2>1. /\ q # <<>> /\ x = Head(q)
        /\ encoder' \in Codecs(Packets) /\ encoder'.inside = Tail(q)
        /\ encoder'.draining = encoder.draining
    BY <1>3, <1>5, CodecReceive
  <2>2. /\ q \in Seq(Packets) /\ k \in Nat /\ Stretch(Stamps, q, k) /\ k + Len(q) = nextPts
        /\ Len(q) \in Nat /\ Stretch(Stamps, file, 0) /\ file \in Seq(Packets)
    BY <1>2, <1>3
  <2>u. k = Len(file)
    OBVIOUS
  <2> HIDE DEF q, k, x
  <2>3. /\ Head(q) \in Packets /\ Head(q) = Stamps[k] /\ Len(Tail(q)) = Len(q) - 1
        /\ Stretch(Stamps, Tail(q), k + 1)
    BY <2>1, <2>2, StretchTail
  <2>4. x \in Packets /\ x = Stamps[0 + Len(file)] /\ 0 \in Nat
    BY <2>1, <2>2, <2>3, <2>u
  <2>5. f \in Seq(Packets) /\ Len(f) = k + 1 /\ Stretch(Stamps, f, 0)
    BY <2>2, <2>4, <2>u, StretchAppend
  <2>6. Len(f) + Len(Tail(q)) = nextPts
    <3>1. \A m, n \in Nat : (m + 1) + (n - 1) = m + n
      OBVIOUS
    <3> QED BY Zenon, <2>2, <2>3, <2>5, <3>1
  <2>7. ASSUME file' = f, UNCHANGED <<pc, outcome>> PROVE EInv'
    <3> HIDE DEF f
    <3>1. EType'
      BY <1>1, <1>3, <2>1, <2>5, <2>7 DEF EType, Packets
    <3>2. Stretch(Stamps, file, 0)' /\ Stretch(Stamps, encoder.inside, Len(file))'
      BY <2>1, <2>3, <2>5, <2>7 DEF Stretch
    <3>3. (Len(file) + Len(encoder.inside) = nextPts)'
      BY <1>1, <2>1, <2>6, <2>7
    <3>4. EFrames'
      BY <1>1, <1>2, <1>h, <2>1, <2>7, <3>2, <3>3 DEF EFrames, FlushDrain
    <3>5. EOutcome'
      BY <1>1, <1>h, <2>7 DEF EInv, EOutcome, Gone
    <3> QED BY <3>1, <3>4, <3>5 DEF EInv
  <2> QED BY <2>1, <2>7 DEF x
<1>6. ASSUME ~HasOutput(encoder) PROVE encoder.ready = 0
  BY <1>3, <1>6 DEF HasOutput, Codecs
<1>7. ASSUME encoder.ready = 0, UNCHANGED <<encoder, file>>,
             \/ ~flushing /\ pc' = "readAgain" /\ outcome' = outcome
             \/ flushing /\ pc' = "closeWriter" /\ outcome' = Flushed
      PROVE  EInv'
  <2>1. EType'
    BY <1>1, <1>3, <1>7 DEF EType, Packets
  <2>2. EFrames'
    BY <1>1, <1>2, <1>7, <1>h DEF EFrames, FlushDrain, Stretch
  <2>3. CASE ~flushing
    BY <1>1, <1>7, <1>h, <2>1, <2>2, <2>3 DEF EInv, EOutcome, Gone
  <2>4. CASE flushing
    <3>1. Len(encoder.inside) = 0
      BY <1>2, <1>3, <1>7, <2>4 DEF Codecs
    <3>2. Len(file) = Len(delivered)
      BY <1>2, <1>3, <3>1
    <3>3. Len(delivered) = Wanted
      BY <1>1, <2>4 DEF DInv, DLimit, FlushDrain
    <3>4. EOutcome'
      BY <1>7, <1>h, <2>4, <3>2, <3>3 DEF EOutcome, Gone
    <3> QED BY <2>1, <2>2, <3>4 DEF EInv
  <2> QED BY <2>3, <2>4
<1> QED BY <1>3, <1>4, <1>5, <1>6, <1>7 DEF Drain

(* The flush makes all that is inside ready.                               *)
LEMMA EFlushes == ASSUME EInv, Flush PROVE EInv'
<1>1. /\ pc = "flush" /\ flushing' = TRUE /\ UNCHANGED <<input, delivered>>
      /\ delivered' = delivered /\ UNCHANGED <<nextPts, submitted, file>>
  BY DEF Flush, WriteKeeps, reading
<1>2. /\ nextPts \in Nat /\ submitted \in Nat /\ encoder \in Codecs(Packets)
      /\ file \in Seq(Packets)
  BY DEF EInv, EType, Packets
<1>h. HasWriter' = HasWriter /\ Wanted' = Wanted
  BY <1>1 DEF HasWriter, Wanted, input
<1>3. CASE Fail /\ UNCHANGED encoder
  <2>1. nextPts' \in Nat /\ submitted' \in Nat /\ pc' \in Gone /\ outcome' = "error"
    BY <1>1, <1>2, <1>3 DEF Fail, Gone
  <2> QED BY <1>1, <1>2, <1>3, <2>1, EGone
<1>4. CASE HasWriter /\ encoder' = AfterEnd(encoder) /\ pc' = "drain" /\ UNCHANGED outcome
  <2>1. /\ encoder' \in Codecs(Packets) /\ encoder'.inside = encoder.inside
        /\ encoder'.draining
    BY <1>2, <1>4, CodecEnd
  <2>2. EType'
    BY <1>1, <1>2, <2>1 DEF EType, Packets
  <2>3. EFrames'
    BY <1>1, <1>4, <1>h, <2>1 DEF EInv, EFrames, Gone, FlushDrain, Stretch
  <2>4. EOutcome'
    BY <1>1, <1>4, <1>h DEF EInv, EOutcome, Gone
  <2> QED BY <2>2, <2>3, <2>4 DEF EInv
<1>5. CASE ~HasWriter /\ pc' = "closeWriter" /\ outcome' = "ok" /\ UNCHANGED encoder
  <2>1. EType' /\ EFrames'
    BY <1>1, <1>2, <1>5 DEF EInv, EType, EFrames, Gone, Stretch, Packets
  <2>2. EOutcome'
    BY <1>5, <1>h DEF EOutcome
  <2> QED BY <2>1, <2>2 DEF EInv
<1> QED BY <1>3, <1>4, <1>5 DEF Flush

LEMMA EStep == DInv /\ EInv /\ [Next]_vars => EInv'
<1> SUFFICES ASSUME DInv, EInv, [Next]_vars PROVE EInv'
  OBVIOUS
<1>n. /\ nextPts \in Nat /\ submitted \in Nat /\ encoder \in Codecs(Packets)
      /\ Len(delivered) \in Nat
  BY LenProperties DEF EInv, EType, Packets, DInv, DType
<1>f. ASSUME UNCHANGED <<input, writing>>, pc' \in Gone,
             outcome' = "error" \/ (outcome' = outcome /\ pc \in Gone)
      PROVE  EInv'
  BY <1>f, <1>n, EGone DEF writing
<1>1. CASE OpenReader \/ OpenWriter
  <2>1. /\ pc \in Opens /\ UNCHANGED <<input, writing>> /\ delivered' = delivered
        /\ \/ pc' \in {pc, "openWriter", "read"} /\ outcome' = outcome
           \/ pc' \in Gone /\ outcome' = "error"
    BY <1>1 DEF OpenReader, OpenWriter, Open, reading, Opens, Gone
  <2> QED BY <1>f, <1>n, <2>1, EReads DEF Opens, Gone
<1>2. CASE ReceiveFirst \/ Demux \/ Send \/ ReceiveNext \/ EndInput \/ ReceiveLast
           \/ ReadAgain \/ Ended
  <2>1. /\ pc \in Reads \cup {"readAgain", "ended"} /\ UNCHANGED <<input, writing>>
        /\ \/ Fail
           \/ /\ pc' \in Reads \cup {"ended", "flush"} /\ delivered' = delivered
              /\ outcome' \in {outcome, "end"}
           \/ /\ delivered' = Append(delivered, Numbered) /\ outcome' = outcome
              /\ pc' = IF HasWriter THEN "write" ELSE "readAgain"
    BY <1>2 DEF ReceiveFirst, Receive, ReceiveFails, Nothing, Demux, Send, ReceiveNext,
           EndInput, ReceiveLast, ReadAgain, Ended, ReadKeeps, reading, Reads
  <2>2. CASE Fail
    BY <1>f, <2>1, <2>2 DEF Fail, Gone
  <2>3. CASE /\ pc' \in Reads \cup {"ended", "flush"} /\ delivered' = delivered
             /\ outcome' \in {outcome, "end"}
    BY <1>n, <2>1, <2>3, EReads DEF Reads, Gone
  <2>4. CASE /\ delivered' = Append(delivered, Numbered) /\ outcome' = outcome
             /\ pc' = IF HasWriter THEN "write" ELSE "readAgain"
    <3>1. HasWriter => Len(delivered') = Len(delivered) + 1
      BY <2>4, AppendProperties DEF DInv, DType
    <3> QED BY <1>n, <2>1, <2>4, <3>1, EReads DEF Reads, Gone
  <2> QED BY <2>1, <2>2, <2>3, <2>4
<1>3. CASE Write
  BY <1>3, EWrites
<1>4. CASE Drain
  BY <1>4, EDrains
<1>5. CASE Flush
  BY <1>5, EFlushes
<1>6. CASE CloseWriter \/ CloseReader
  <2>1. UNCHANGED <<input, writing>> /\ pc \in Gone /\ pc' \in Gone /\ outcome' = outcome
    BY <1>6 DEF CloseWriter, CloseReader, CloseHandle, Gone
  <2> QED BY <1>f, <2>1
<1>7. CASE UNCHANGED vars
  BY <1>7 DEF vars, input, reading, writing, EInv, EType, EFrames, EOutcome, FlushDrain, Stretch,
         HasWriter, Wanted
<1> QED BY <1>1, <1>2, <1>3, <1>4, <1>5, <1>6, <1>7 DEF Next, Stutter

-----------------------------------------------------------------------------
(* The theorems.                                                           *)

(* Objects, reader and writer keep to IInv: what is held is what the opens *)
(* have created, and each codec has inside what went in and is not out.    *)
THEOREM Inductive == Spec => []IInv
<1>1. Init => IInv
  BY HInit, DInit, EInit DEF IInv
<1>2. IInv /\ [Next]_vars => IInv'
  BY HStep, DStep, EStep DEF IInv
<1> QED BY <1>1, <1>2, PTL DEF Spec

(* Whatever a codec delays, the reader gives the frames in order, each     *)
(* once under its own number, and at the end all of them.                  *)
THEOREM FramesAreRead == Spec => []EveryFrameRead
<1>1. IInv => EveryFrameRead
  <2> SUFFICES ASSUME DInv PROVE EveryFrameRead
    BY DEF IInv
  <2>1. delivered \in Seq([frame : Nat, index : Nat]) /\ Stretch(Indexed, delivered, 0)
    BY DEF DInv, DType, DFrames
  <2>2. DOMAIN delivered = 1 .. Len(delivered) /\ Len(delivered) \in Nat
    BY <2>1, LenProperties
  <2>3. ASSUME NEW i \in DOMAIN delivered PROVE delivered[i] = [frame |-> i - 1, index |-> i - 1]
    <3>1. delivered[i] = Indexed[0 + i - 1] /\ i - 1 \in Nat /\ 0 + i - 1 = i - 1
      BY <2>1, <2>2 DEF Stretch
    <3> QED BY <3>1 DEF Indexed
  <2> QED BY <2>3 DEF EveryFrameRead, DInv, DOutcome
<1> QED BY <1>1, Inductive, PTL

(* The file has the frames in order and without a gap, and all of them     *)
(* when the flush has succeeded.                                           *)
THEOREM FileIsComplete == Spec => []FileComplete
<1>1. IInv => FileComplete
  <2> SUFFICES ASSUME EInv PROVE FileComplete
    BY DEF IInv
  <2>1. file \in Seq([frame : Nat, pts : Nat]) /\ Stretch(Stamps, file, 0)
    BY DEF EInv, EType, EFrames
  <2>2. DOMAIN file = 1 .. Len(file) /\ Len(file) \in Nat
    BY <2>1, LenProperties
  <2>3. ASSUME NEW i \in DOMAIN file PROVE file[i] = [frame |-> i - 1, pts |-> i - 1]
    <3>1. file[i] = Stamps[0 + i - 1] /\ i - 1 \in Nat /\ 0 + i - 1 = i - 1
      BY <2>1, <2>2 DEF Stretch
    <3> QED BY <3>1 DEF Stamps
  <2> QED BY <2>3 DEF FileComplete, EInv, EOutcome
<1> QED BY <1>1, Inductive, PTL

(* No codec is sent anything it would refuse.                              *)
THEOREM CodecsAlwaysAccept == Spec => []CodecsAccept
<1>1. IInv => CodecsAccept
  BY DEF IInv, DInv, DPlaces, EInv, EFrames, Gone, CodecsAccept, Accepts
<1> QED BY <1>1, Inductive, PTL
=============================================================================
