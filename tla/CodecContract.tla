--------------------------- MODULE CodecContract ---------------------------
(***************************************************************************)
(* What the program relies on of an FFmpeg decoder or encoder, the library *)
(* behind avcodec_send_* and avcodec_receive_*: what is sent comes out in  *)
(* order, some of it only when more has been sent or the input has ended;  *)
(* a codec that has output to give may refuse input (EAGAIN), one that has *)
(* none does not.  A codec is a value: "inside" are the frames it holds,   *)
(* oldest first, the first "ready" of which can be received.               *)
(***************************************************************************)
EXTENDS Naturals, Sequences

CONSTANT MaxDelay           (* the most frames a codec keeps for later       *)
ASSUME DelayAssumption == MaxDelay \in Nat

NewCodec == [inside |-> <<>>, ready |-> 0, draining |-> FALSE]

Accepts(c) == c.ready = 0
(* The codec after it has accepted x; how many of its frames that makes    *)
(* ready is up to it.                                                      *)
AfterSend(c, x) ==
    {[inside |-> Append(c.inside, x), ready |-> r, draining |-> FALSE] :
        r \in {n \in c.ready .. Len(c.inside) + 1 : Len(c.inside) + 1 - n <= MaxDelay}}
(* The end of the input: all that is inside becomes ready. *)
AfterEnd(c) == [c EXCEPT !.ready = Len(c.inside), !.draining = TRUE]

HasOutput(c) == c.ready > 0
WantsMore(c) == c.ready = 0 /\ ~c.draining        (* AVERROR(EAGAIN) *)
AtEnd(c) == c.ready = 0 /\ c.draining             (* AVERROR_EOF     *)
Output(c) == Head(c.inside)
AfterReceive(c) == [c EXCEPT !.inside = Tail(@), !.ready = @ - 1]
=============================================================================
